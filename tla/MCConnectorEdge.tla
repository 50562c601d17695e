---------------------------- MODULE MCConnectorEdge ----------------------------
(***************************************************************************)
(* Calls from two nodes against the grants of one harness, under a manifest  *)
(* of two connectors that share a tool name.                                *)
(***************************************************************************)
EXTENDS ConnectorEdge

CONSTANTS n1, n2, g1, g2, r1, r2, c1, codex, read, send

\* The policy of the one known harness: it may read and never send.
MCAllowed == [h \in {codex} |-> {read}]
MCDefault == [h \in {codex} |-> {read}]

MCclassCapability == [read |-> read, send |-> send]

Fixed(name, class) ==
    [tool |-> name, class |-> class, capability |-> "none",
     selector |-> [pointer |-> "none", cases |-> <<>>], guards |-> <<>>]

\* "post" reads or sends as its action says; "event" sends unless told not to.
post == [Fixed(<<"post">>, "none") EXCEPT
            !.selector = [pointer |-> "action", cases |-> [look |-> "read", mail |-> "send"]]]
event == [Fixed(<<"event">>, "read") EXCEPT
            !.capability = read,
            !.guards = <<[pointer |-> "notify", unlessIn |-> {"quiet"}, capability |-> send]>>]
hushed == [event EXCEPT !.guards[1].unlessIn = @ \cup {"empty"}]

mail == [provider |-> "mail", tools |-> <<Fixed(<<"list">>, "read"), post, event>>,
         excluded |-> <<<<"purge">>>>,
         inventory |-> <<<<"list">>, <<"post">>, <<"event">>, <<"purge">>>>]

\* Its "list" is another tool than mail's, and one of its tools has the
\* separator in its own name.
files == [provider |-> "files",
          tools |-> <<Fixed(<<"list">>, "send"), Fixed(<<"x", "get">>, "read")>>,
          excluded |-> <<>>, inventory |-> <<<<"x", "get">>, <<"list">>>>]

\* Two manifests the server starts with, and five it refuses: a tool mapped and
\* excluded, one mapped twice, a guard with an empty safe value, a provider
\* declared twice, a marker's name taken.
MCManifests ==
    {<<mail, files>>, <<files, mail>>,
     <<[mail EXCEPT !.excluded = <<<<"event">>, <<"purge">>>>], files>>,
     <<[mail EXCEPT !.tools = <<Fixed(<<"post">>, "read")>> \o @], files>>,
     <<[mail EXCEPT !.tools[3] = hushed], files>>,
     <<mail, [files EXCEPT !.provider = "mail"]>>,
     <<mail, files, [mail EXCEPT !.provider = "ambiguous"]>>}

Args(action, notify) == [action |-> action, notify |-> notify]
Plain == Args("absent", "absent")

MCToolCalls ==
    {[tool |-> name, args |-> Plain] :
        name \in {<<"list">>, <<"mail", "list">>, <<"files", "list">>, <<"x", "get">>,
                  <<"purge">>, <<"mail", "">>, <<"mail", "other">>}}
    \cup {[tool |-> <<"post">>, args |-> Args(a, "absent")] : a \in {"look", "mail", "object"}}
    \cup {[tool |-> <<"event">>, args |-> Args("absent", n)] : n \in {"quiet", "absent"}}

=============================================================================
