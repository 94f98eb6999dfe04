---------------------------- MODULE MCSimpleDrive ----------------------------
(* Two joints, one of them with a stick, and a short session. *)
EXTENDS SimpleDrive

MCJoints == {"boom", "arm"}
MCAxes == {"boom"}
MCModes == <<{"boom", "arm"}, {"boom"}, {"arm"}>>
MCColumnOrder == <<"sample_idx", "block", "target">>
MCLimits == [j \in MCJoints |-> <<0, 5>>]
Session(input, w, n, u, f, e) ==
    [source |-> input, wave |-> w, inputs |-> n, unplugs |-> u, frames |-> f, failures |-> e]
MCSessions ==
    {Session("local", "sine", 3, 1, 0, 0), Session("local", "chirp", 2, 1, 0, 1),
     Session("udp", "chirp", 2, 0, 1, 1), Session("udp", "sine", 1, 0, 1, 2),
     Session("udp", "stroke", 2, 0, 1, 0), Session("udp", "stroke", 2, 0, 0, 1)}
MCPoses == {[boom |-> 5, arm |-> 2]}
MCPositions == {0, 60}
MCMasks == {{}, {"A"}, {"B"}, {"A", "B"}, {"X", "Y", "Down"}}
=============================================================================
