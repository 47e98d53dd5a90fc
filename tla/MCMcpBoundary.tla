---------------------------- MODULE MCMcpBoundary ----------------------------
(* Two sessions and two canonical ids, one of them written in two ways;    *)
(* calls that cannot register because of their protocol or because they    *)
(* have no session.  POSTs are interchangeable.                            *)
EXTENDS McpBoundary, TLC

Message(kind, session, id, legacy) ==
  [kind |-> kind, session |-> session, id |-> id, legacy |-> legacy]

MCCanonical == [one |-> 1, oneText |-> 1, two |-> 2]

MCMessages ==
  {Message("call", "s1", "one", TRUE), Message("call", "s1", "oneText", TRUE),
   Message("call", "s2", "one", TRUE), Message("call", "s2", "two", TRUE),
   Message("call", "s1", "one", FALSE), Message("call", NoSession, "one", TRUE),
   Message("cancel", "s1", "one", TRUE), Message("cancel", "s2", "one", TRUE),
   Message("cancel", "s1", "one", FALSE),
   Message("invalid", NoSession, "one", TRUE)}

MCSymmetry == Permutations(Posts)
=============================================================================
