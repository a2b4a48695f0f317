---------------------------- MODULE MCSieveExecute ----------------------------
(***************************************************************************)
(* Model-checking instance of SieveExecute: small scripts over every       *)
(* command the evaluator handles, and messages that make each test and     *)
(* each vacation check go both ways.                                       *)
(***************************************************************************)
EXTENDS SieveExecute

(* The host's \Flagged-like mark flags, in an order MARK walks backwards. *)
MCMarkFlags == <<"f2", "f1">>

-----------------------------------------------------------------------------
(* A host with every callback and notify support, a minimal host with      *)
(* only the keep and redirect interp_verify demands, and a sieve2 host     *)
(* that leaves the message getters to message2.c.                          *)
FullHost    == [callbacks |-> {"REJECT", "FILEINTO", "KEEP", "REDIRECT", "DISCARD", "VACATION"},
                notify |-> TRUE, getters |-> {"getenvelope", "getsize"}]
MinimalHost == [callbacks |-> {"KEEP", "REDIRECT"}, notify |-> FALSE,
                getters |-> {"getenvelope", "getsize"}]
Sieve2Host  == [FullHost EXCEPT !.getters = {}]
FullHosts   == {FullHost}
AnyHosts    == {FullHost, MinimalHost}
EvalHosts   == {FullHost, Sieve2Host}

(* An uninitialised int: zero or a large leftover.                         *)
MCJunk == {0, 100}

-----------------------------------------------------------------------------
(* Tests on one header "x" whose value may be "a" or "b".                  *)
TestX  == [type |-> "HEADER", names |-> <<"x">>, pats |-> <<"a">>]
ExistX == [type |-> "EXISTS", names |-> <<"x">>]
Tests  == {TestX, ExistX}

Cmd(t, arg) == [type |-> t, arg |-> arg]

(* Every command except VACATION, with one argument each.                  *)
SimpleCommands ==
  { Cmd("REJECT", "msg"), Cmd("FILEINTO", "box"), Cmd("REDIRECT", "friend"),
    Cmd("KEEP", "none"), Cmd("DISCARD", "none"), Cmd("STOP", "none"),
    Cmd("SETFLAG", <<"f1">>), Cmd("ADDFLAG", <<"f2", "f1">>),
    Cmd("REMOVEFLAG", <<"f1">>), Cmd("MARK", "none"), Cmd("UNMARK", "none"),
    Cmd("NOTIFY", "n1"), Cmd("DENOTIFY", "n1") }

IfCommands(body) ==
  {[type |-> "IF", test |-> t, then |-> <<c>>, else |-> <<>>] : t \in Tests, c \in body}

(* All two-command scripts over simple commands and one-armed IFs.         *)
PairScripts ==
  LET C == SimpleCommands \cup IfCommands(SimpleCommands)
  IN  {<<c1, c2>> : c1 \in C, c2 \in C}

(* Messages differing only in header x; the envelope is ordinary.          *)
PlainEnv == [to |-> <<"me">>, from |-> <<"friend">>]
XMessages ==
  {[hdr |-> h, env |-> PlainEnv, size |-> 10] :
     h \in {[n \in {} |-> "none"], [n \in {"x"} |-> <<"a">>], [n \in {"x"} |-> <<"b">>]}}

-----------------------------------------------------------------------------
(* VACATION with one alias, alone or next to the commands it may conflict  *)
(* with or be guarded by.                                                  *)
Vac == [type |-> "VACATION", arg |-> "none", addresses |-> <<"alias">>,
        subject |-> Null, message |-> "away"]
(* A :subject longer than the 127 characters the reply buffer keeps.       *)
LongSubject == [k \in 1..130 |-> "h"]
VacSubject == [Vac EXCEPT !.subject = LongSubject]
VacationScripts ==
  { <<Vac>>, <<VacSubject>>, <<Vac, Cmd("KEEP", "none")>>, <<Cmd("FILEINTO", "box"), Vac>>,
    <<Cmd("REJECT", "msg"), Vac>>, <<Vac, Vac>>,
    <<[type |-> "IF", test |-> ExistX, then |-> <<Cmd("DISCARD", "none")>>,
       else |-> <<Vac>>]>> }

(* Absent fields are left out of the function; an envelope field may be    *)
(* present with no value at all.                                           *)
Absent == <<"absent">>
Fields(names, vals) == [n \in {k \in names : vals[k] # Absent} |-> vals[n]]

(* The header part: who the message names, and whether it is automatic.   *)
Headers ==
  { ("to" :> <<"me">>), ("to" :> <<"friend">>) @@ ("cc" :> <<"alias">>),
    ("to" :> <<"friend">>), [n \in {} |-> Absent] }
Automatic ==
  { [n \in {} |-> Absent], ("auto-submitted" :> <<"no">>),
    ("auto-submitted" :> <<"yes">>), ("precedence" :> <<"bulk">>) }

(* The size sits at a bound of the SIZE probes below, and differs between  *)
(* messages that agree on the envelope sender's ENVELOPE probe.            *)
MCSize(efrom) == IF efrom \in {<<"friend">>, <<"me">>, <<>>} THEN 7 ELSE 10
VacationMessages ==
  { [hdr |-> h @@ a, env |-> Fields({"to", "from"}, ("to" :> eto) @@ ("from" :> efrom)),
     size |-> MCSize(efrom)] :
      h \in Headers, a \in Automatic,
      eto   \in {<<"me">>, <<>>, Absent},
      efrom \in {<<"friend">>, <<"me">>, <<"alias">>, <<"daemon">>, <<"junk">>,
                 <<>>, Absent} }

-----------------------------------------------------------------------------
(* "if T { keep; } else { discard; }" for tests on the same messages:      *)
(* SIZE at both bounds, ADDRESS and ENVELOPE over two names each, and      *)
(* combinations whose short cut matters.                                   *)
SizeOver  == [type |-> "SIZE", over |-> TRUE, n |-> 7]
SizeUnder == [type |-> "SIZE", over |-> FALSE, n |-> 10]
AddrMe    == [type |-> "ADDRESS", names |-> <<"cc", "to">>, pats |-> <<"me">>]
AddrAlias == [type |-> "ADDRESS", names |-> <<"to", "cc">>, pats |-> <<"alias">>]
EnvFriend == [type |-> "ENVELOPE", names |-> <<"from">>, pats |-> <<"friend">>]
EnvMe     == [type |-> "ENVELOPE", names |-> <<"to", "from">>, pats |-> <<"me">>]
ProbeTests ==
  { SizeOver, SizeUnder, AddrMe, AddrAlias, EnvFriend, EnvMe,
    [type |-> "NOT", test |-> EnvFriend],
    [type |-> "ANYOF", tests |-> <<EnvFriend, SizeOver>>],
    [type |-> "ALLOF", tests |-> <<AddrMe, SizeUnder>>] }
ProbeScripts ==
  {<<[type |-> "IF", test |-> t, then |-> <<Cmd("KEEP", "none")>>,
      else |-> <<Cmd("DISCARD", "none")>>]>> : t \in ProbeTests}

(* A message that draws a reply, with Subject lines whose "Re: " prefixes  *)
(* differ in number, letter case, the final space and length.             *)
Subjects ==
  { <<"R", "e", ":", " ", "R", "e", ":", " ", "h", "i">>,
    <<"r", "E", ":", " ", "R", "E", ":", "h", "i">>,
    <<"R", "e", ":">>,
    [k \in 1..126 |-> "h"] }
SubjectMessages ==
  {[hdr |-> ("to" :> <<"me">>) @@ ("subject" :> <<s>>), env |-> PlainEnv, size |-> 7] :
     s \in Subjects}

EvalScripts == VacationScripts \cup ProbeScripts

(* The vacation messages but those with an empty envelope "to", whose      *)
(* NULL myaddr the vacation_crash run is about.                            *)
EvalMessages ==
  {m \in VacationMessages : "to" \in DOMAIN m.env => m.env["to"] # <<>>} \cup SubjectMessages

=============================================================================
