----------------------------- MODULE MCImuLink -----------------------------
(***************************************************************************)
(* One run for the two ends of the IMU link: a behaviour is one of the     *)
(* parser or one of the firmware, and the other end rests.  The parser is  *)
(* given what any device may send, frames whole or cut short and any byte  *)
(* of noise, which is more than the firmware does.                         *)
(***************************************************************************)
EXTENDS ImuParser, ImuReader

CONSTANT boom
Boom == {boom}

Marks == <<3, 2>>
Framed(body) == Marks \o body \o <<Sum(body)>>
DataFrames == {Framed(<<DataType, 1, ts, 1>>) : ts \in Bytes} \cup {Framed(<<DataType, 1, 1, 0>>)}
OtherFrames ==
    {Framed(<<ControlType, message>>) : message \in Bytes}
    \cup {Framed(<<DescriptorType, 1, 1>>)} \cup {Framed(<<ReportType, 1, flags, 1>>) : flags \in {0, 1}}
Cut == {SubSeq(f, 1, n) : f \in {Framed(<<ReportType, 1, 1, 1>>)}, n \in {4, 6}}
Device == DataFrames \cup OtherFrames \cup Cut
          \cup {<<b>> : b \in Bytes}

VARIABLE side

link == <<vars, reader, side>>
LinkInit == Init /\ ReaderInit /\ side \in {"parser", "firmware"}
Firmware(step) == side = "firmware" /\ step /\ UNCHANGED <<vars, side>>
LinkNext ==
    \/ side = "parser" /\ Next /\ UNCHANGED <<reader, side>>
    \/ Firmware(ReaderNext)
LinkSpec == LinkInit /\ [][LinkNext]_link /\ WF_link(Firmware(CoreOne)) /\ WF_link(Firmware(CoreZero))
=============================================================================
