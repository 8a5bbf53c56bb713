------------------------------ MODULE MCForward ------------------------------
(***************************************************************************)
(* A small instance: two accounts receive one post; two targets; rules for  *)
(* all accounts and for one account, with and without keywords.            *)
(***************************************************************************)
EXTENDS ForwardProperties

MCCopies == {"a", "b"}
MCPost == [c \in MCCopies |-> 1]
MCShapes == {"all", "copy of all", "only b"}
MCAccepts == [s \in MCShapes |-> IF s = "only b" THEN {"b"} ELSE MCCopies]
MCWords == {"v", "w"}
MCSays == [c \in MCCopies |-> {"w"}]
MCTargets == {"qq", "wx"}

Request(shape, words, to, on) ==
  [enabled |-> TRUE, shape |-> shape, words |-> words, first |-> "qq",
   to |-> to, on |-> on]
MCRequests ==
  {Request("only b", {}, {"qq", "wx"}, {"wx"}), Request("all", {"v"}, {"qq"}, {"qq"}),
   Request("all", {"w"}, {"qq"}, {})}

Legacy == Made(Request("all", {}, {}, {}), 1)
Modern == Made(Request("all", {"w"}, {"qq"}, {"qq"}), 1)
MCInitialRules == {Legacy, Modern}

MCUserOps == {"create", "update", "enable", "duplicate", "delete", "pause", "restart"}
MCEcho == {<<"b", "wx">>}
MCSkipsQQ == {<<"b", "all", "qq">>}
=============================================================================
