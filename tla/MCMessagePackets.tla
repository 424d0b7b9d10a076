-------------------------- MODULE MCMessagePackets --------------------------
(* Two authors, the second with a name of the greatest length; texts with   *)
(* and without a semicolon, and one longer than a message may be.  A packet *)
(* holds two short messages.                                                *)
EXTENDS MessagePackets

MCNames == <<<<-7>>, <<-7, -8>>>>
MCTexts == {<<Letter>>, <<Letter, Sep, Letter>>, <<Letter, Letter, Letter, Letter>>}
=============================================================================
