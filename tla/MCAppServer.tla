---------------------------- MODULE MCAppServer ----------------------------
(* Instances of AppServer and its replies for TLC: which lines the child    *)
(* may write, and which blocks a read may be answered with.                 *)
EXTENDS ToolReplies

(* One line of every meaning to the loop of a transfer.  A handshake        *)
(* refused and a line that is not JSON end the call like a handshake        *)
(* without codexHome; the acceptance of the import is ignored like a second *)
(* handshake.                                                               *)
TransferLines ==
  {Line("init", "home"), Line("init", "no_home"), Line("guess", "missing"),
   Line("answer", "rejected"), Completed("empty", 0)}
(* One line of every meaning to a quota read, to its loop and to its        *)
(* reader, which drops a made-up response like any other traffic.           *)
ReadLines ==
  InitResponses
  \cup {Line("garbage", "any"), HangUp, Line("guess", "quota")}
  \cup {Line("answer", s) : s \in {"missing", "quota", "no_quota", "malformed"}}
(* A child that repeats itself fills the queue.                             *)
ChattyLines == {Line("init", "home"), Line("noise", "any")}

ByTool == [c \in Calls |-> IF c \in Transfers THEN TransferLines ELSE ReadLines]
Chatty == [c \in Calls |-> ChattyLines]

(* Calls meet in the pids, the transcript and the ledger only, and there a  *)
(* call meets strangers, edits and other imports already.                   *)
OneCall == \A c, d \in Calls : "idle" \in {tool[c], tool[d]} \/ c = d

(* A window at every boundary of its percentage, duration and reset time,   *)
(* read at second 2 where times end at 3.                                   *)
EdgeWindows ==
  {NoWindow} \cup
  [there : {TRUE}, used : {Absent, 75, 76, 100, 101}, minutes : {Absent, 1440, 1441},
   resets : {Absent, 2, 3, 4}]
EdgeBlocks ==
  [shape : {"object"}, primary : EdgeWindows, secondary : EdgeWindows,
   reached : Reasons, spend : {"reached", "unreported"}]
  \cup [shape : {"null", "drift"}, primary : {NoWindow}, secondary : {NoWindow},
        reached : {"none"}, spend : {"unreported"}]
=============================================================================
