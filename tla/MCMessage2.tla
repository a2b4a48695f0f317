----------------------------- MODULE MCMessage2 -----------------------------
(***************************************************************************)
(* Model-checking instance of Message2: header lists over a few real      *)
(* header names whose hashes collide in a small table.                     *)
(***************************************************************************)
EXTENDS Message2

NTo       == <<116, 111>>                          \* "to"
NCc       == <<99, 99>>                            \* "cc"
NSubject  == <<115, 117, 98, 106, 101, 99, 116>>   \* "subject"
NReceived == <<114, 101, 99, 101, 105, 118, 101, 100>>  \* "received"
NHigh     == <<120, 201>>                          \* "x" and a byte above 127

Header(n, v) == [name |-> n, val |-> v]

(* Every list of up to four headers over names and two values.             *)
ListsOver(names, len) ==
  UNION {[1..k -> {Header(n, v) : n \in names, v \in {"a", "b"}}] : k \in 0..len}

MCInputs    == ListsOver({NTo, NCc, NSubject}, 4)
FullInputs  == ListsOver({NTo, NCc, NSubject, NReceived}, 4)
(* One header repeated, as Received: is in a relayed message.              *)
RepeatInputs == {[i \in 1..k |-> Header(NReceived, "a")] : k \in 1..12}

=============================================================================
