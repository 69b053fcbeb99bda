----------------------------- MODULE MCDoorbell -----------------------------
EXTENDS Doorbell

\* The pairs that meet on a port: the vport client talks to the switch only. One of
\* several BKDRFTQueueInc differs from a single one in the round robin alone.
AllPairs ==
  {<<s, r>> \in (Bess \cup Clients) \X {"inc", "poll"} : s = "vport" => r = "inc"}
    \cup {<<"lossy", "shared">>}
Switch == {<<"lossy", "inc">>}
OneOfSeveral == {<<"vport", "shared">>}
=============================================================================
