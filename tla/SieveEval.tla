------------------------------ MODULE SieveEval ------------------------------
(***************************************************************************)
(* The evaluator of src/sv_interface/script.c: evaltest, eval and the      *)
(* VACATION decision, as operators.  Evaluation is a pure function of the  *)
(* compiled command tree, the message and the action list so far: it       *)
(* calls no host callback that changes state, so one evaluation is one     *)
(* value here and one step of the executor (SieveExecute).                 *)
(*                                                                         *)
(* A message is a record [hdr, env, size]: hdr maps each header name the   *)
(* message has to its value lines (never empty), env maps each envelope    *)
(* field a getenvelope callback supplies to its value lines (possibly      *)
(* empty), size is what a getsize callback reports.  A name outside DOMAIN *)
(* is what call_getheader / call_getenvelope report as SIEVE_DONE with a   *)
(* NULL body.                                                              *)
(***************************************************************************)
EXTENDS SieveActions

CONSTANTS
  Addrs,        \* header/envelope values libsieve_parse_address accepts
  SysAddrs,     \* the addresses sysaddr() classifies as system senders
  Null,         \* a NULL char pointer
  Crash         \* what evaltest "returns" when it reads through a wild pointer

ASSUME SysAddrs \subseteq Addrs /\ Null \notin Addrs

(* The comparator a HEADER test calls (comparator.c is not in the source   *)
(* tree): the default i;ascii-casemap :is, on abstract values equality.    *)
Compare(p, v) == p = v

(* parse_address + get_address(ADDRESS_ALL, ..., 1) of one header line:    *)
(* the canonical address, or NULL when the line does not parse.            *)
Canon(v) == IF v \in Addrs THEN v ELSE Null

(* Mutant of SysAddr: sysaddr() recognises no system sender.              *)
SysAddrNever(a) == FALSE

(* sysaddr(): MAILER-DAEMON, LISTSERV, majordomo, *-request*, owner-*.     *)
SysAddr(a) == a \in SysAddrs

(* call_getheader returns SIEVE_OK iff the header exists.                  *)
HasHeader(m, h) == h \in DOMAIN m.hdr

-----------------------------------------------------------------------------
(* The interpreter as evaltest and eval see it: i.getters holds the        *)
(* message callbacks the host registered ("getenvelope", "getsize"), and   *)
(* i.stack what the uninitialised locals hold when no callback writes     *)
(* them: an int, and a char ** that is NULL or wild.  Every host supplies *)
(* getheader or goes through message2_getheader, which writes NULL first. *)

(* message2_getsize returns m->size and never writes *sz.                  *)
Message2GetSize(i) == i.stack.sz

(* message2_getenvelope assigns its own parameter, so *body keeps what     *)
(* the caller's local held.                                                *)
Message2GetEnvelope(i) == i.stack.body

(* call_getsize: the size the local sz ends up with.  It tests the        *)
(* pointer (sz < 0), so SIEVE_DONE never comes back.                       *)
CallGetSize(i, m) ==
  IF "getsize" \in i.getters THEN m.size ELSE Message2GetSize(i)

(* call_getenvelope: the body lines, "DONE" for a NULL body, or "WILD".    *)
CallGetEnvelope(i, m, f) ==
  IF "getenvelope" \in i.getters
  THEN IF f \in DOMAIN m.env THEN m.env[f] ELSE "DONE"
  ELSE IF Message2GetEnvelope(i) = "NULL" THEN "DONE" ELSE "WILD"

(* Mutant of AddrBody: the two callbacks of the ternary swapped.           *)
AddrBodySwapped(t, i, m, n) ==
  IF t.type = "ENVELOPE"
  THEN IF HasHeader(m, n) THEN m.hdr[n] ELSE "DONE"
  ELSE CallGetEnvelope(i, m, n)

(* The ternary of the ADDRESS/ENVELOPE case: getheader for ADDRESS,        *)
(* getenvelope for ENVELOPE.                                               *)
AddrBody(t, i, m, n) ==
  IF t.type = "ADDRESS"
  THEN IF HasHeader(m, n) THEN m.hdr[n] ELSE "DONE"
  ELSE CallGetEnvelope(i, m, n)

(* One name of an ADDRESS/ENVELOPE test: "continue" past a NULL body,      *)
(* read through a wild one, else match every pattern against the address   *)
(* of every line (get_address of the :all part; a line that does not      *)
(* parse yields no address).                                               *)
AddrMatch(t, body) ==
  CASE body = "DONE" -> FALSE
    [] body = "WILD" -> Crash
    [] OTHER -> \E j \in DOMAIN t.pats, l \in DOMAIN body :
                   Canon(body[l]) # Null /\ Compare(t.pats[j], Canon(body[l]))

-----------------------------------------------------------------------------
(* evaltest: TRUE, FALSE or Crash.  The loops stop once res is set, so    *)
(* a later sub-test or name is never reached; ANYOF, ALLOF and the names   *)
(* of ADDRESS/ENVELOPE are folded left in that order.  HASFLAG has no case *)
(* in the switch, so res stays 0.                                          *)
RECURSIVE EvalTest(_, _, _)
EvalTest(t, m, i) ==
  CASE t.type = "TRUE"   -> TRUE
    [] t.type = "FALSE"  -> FALSE
    [] t.type = "NOT"    -> LET r == EvalTest(t.test, m, i)
                            IN  IF r = Crash THEN r ELSE ~r
    [] t.type = "ANYOF"  ->
         FoldLeft(LAMBDA r, k : IF r # Crash /\ ~r THEN EvalTest(k, m, i) ELSE r, FALSE, t.tests)
    [] t.type = "ALLOF"  ->
         FoldLeft(LAMBDA r, k : IF r # Crash /\ r THEN EvalTest(k, m, i) ELSE r, TRUE, t.tests)
    [] t.type = "EXISTS" -> \A k \in DOMAIN t.names : HasHeader(m, t.names[k])
    [] t.type = "HEADER" ->
         \E k \in DOMAIN t.names, j \in DOMAIN t.pats :
            /\ HasHeader(m, t.names[k])
            /\ \E l \in DOMAIN m.hdr[t.names[k]] :
                  Compare(t.pats[j], m.hdr[t.names[k]][l])
    [] t.type \in {"ADDRESS", "ENVELOPE"} ->
         FoldLeft(LAMBDA r, n : IF r # Crash /\ ~r THEN AddrMatch(t, AddrBody(t, i, m, n)) ELSE r,
                  FALSE, t.names)
    [] t.type = "SIZE" ->
         IF t.over THEN CallGetSize(i, m) > t.n ELSE CallGetSize(i, m) < t.n
    [] t.type = "HASFLAG" -> FALSE

-----------------------------------------------------------------------------
(* look_for_me: the first address of the header lines that is my address   *)
(* or one of my :addresses.  strcasecmp(addr, myaddr) dereferences         *)
(* myaddr, so a parsable line met while myaddr is NULL crashes.            *)
LookForMe(myaddr, aliases, body) ==
  LET Mine(v) == Canon(v) # Null /\ (Canon(v) = myaddr \/ Contains(aliases, Canon(v)))
      i == SelectInSeq(body, Mine)
  IN  CASE myaddr = Null /\ \E l \in DOMAIN body : Canon(body[l]) # Null -> "CRASH"
        [] i = 0                  -> Null
        [] Canon(body[i]) = myaddr -> myaddr
        [] OTHER -> aliases[SelectInSeq(aliases, LAMBDA s : s = Canon(body[i]))]

(* The To, Cc, Bcc headers searched in that order until one finds me.     *)
FoundMe(myaddr, aliases, m) ==
  LET RECURSIVE Search(_)
      Search(hs) ==
        IF hs = <<>> THEN Null
        ELSE LET f == IF HasHeader(m, Head(hs))
                      THEN LookForMe(myaddr, aliases, m.hdr[Head(hs)])
                      ELSE Null
             IN  IF f = Null THEN Search(Tail(hs)) ELSE f
  IN  Search(<<"to", "cc", "bcc">>)

(* A subject line is a sequence of one-character strings.  The four bytes  *)
(* strncasecmp(origsubj, "Re: ", 4) compares, and the case folding it      *)
(* does on the letters the model's subjects use.                           *)
ReTag == <<"R", "e", ":", " ">>
Fold(ch) == CASE ch = "R" -> "r" [] ch = "E" -> "e" [] OTHER -> ch

(* Mutant of StartsRe: strncmp, so "RE: " is not recognised.               *)
StartsReCased(s) == Len(s) >= 4 /\ \A k \in 1..4 : s[k] = ReTag[k]

(* !strncasecmp(origsubj, "Re: ", 4): a shorter string differs at its NUL. *)
StartsRe(s) == Len(s) >= 4 /\ \A k \in 1..4 : Fold(s[k]) = Fold(ReTag[k])

(* Mutant of SkipRe: an if where the code has a while.                     *)
SkipReOnce(s) == IF StartsRe(s) THEN SubSeq(s, 5, Len(s)) ELSE s

(* while (!strncasecmp(origsubj, "Re: ", 4)) origsubj += 4;               *)
RECURSIVE SkipRe(_)
SkipRe(s) == IF StartsRe(s) THEN SkipRe(SubSeq(s, 5, Len(s))) ELSE s

(* char buf[128]: snprintf(buf, sizeof(buf), ...) and strncpy(buf, ...,    *)
(* sizeof(buf)-1) keep at most 127 characters.                             *)
BufLen == 128
Truncated(s) == IF Len(s) > BufLen - 1 THEN SubSeq(s, 1, BufLen - 1) ELSE s

(* The subject the reply gets: the :subject given, else "Re: " and the     *)
(* original subject past its leading "Re: "s, else "Automated reply" when  *)
(* the message has no Subject header.                                      *)
AutomatedReply == <<"Automated reply">>
ReplySubject(c, m) ==
  CASE c.subject # Null       -> Truncated(c.subject)
    [] HasHeader(m, "subject") -> Truncated(ReTag \o SkipRe(m.hdr["subject"][1]))
    [] OTHER                   -> AutomatedReply

(* The VACATION case of eval: the chain of SIEVE_OK / SIEVE_DONE checks    *)
(* held in l, the subject, then libsieve_do_vacation with reply_to, found  *)
(* as the sender, the subject and the command's :text.  A suppressed      *)
(* reply leaves res and the list as they were.  A NULL dereference is the  *)
(* result "CRASH".  Without a getenvelope callback, body still holds what  *)
(* the precedence lookup left: NULL, read at body[0], or the Precedence    *)
(* lines, which then give myaddr and reply_to alike and suppress it.       *)
Vacation(c, i, m, acts) ==
  LET autosub == HasHeader(m, "auto-submitted") /\ m.hdr["auto-submitted"][1] # "no"
      bulk    == HasHeader(m, "precedence")
                 /\ m.hdr["precedence"][1] \in {"junk", "bulk", "list"}
      lTo     == ~autosub /\ ~bulk
      toBody  == m.env["to"]
      myaddr  == IF lTo /\ Len(toBody) > 0 THEN Canon(toBody[1]) ELSE Null
      lFrom   == lTo /\ "from" \in DOMAIN m.env
      checked == lFrom /\ Len(m.env["from"]) > 0
      replyTo == IF checked THEN Canon(m.env["from"][1]) ELSE Null
      lSender == lFrom /\ (checked => /\ replyTo # Null
                                      /\ replyTo # myaddr
                                      /\ ~Contains(c.addresses, replyTo)
                                      /\ ~SysAddr(replyTo))
      found   == FoundMe(myaddr, c.addresses, m)
  IN  CASE lTo /\ "getenvelope" \notin i.getters ->
             [res |-> IF HasHeader(m, "precedence") THEN "CONT" ELSE "CRASH", acts |-> acts]
        [] lTo /\ "to" \notin DOMAIN m.env -> [res |-> "CRASH", acts |-> acts]
        [] checked /\ replyTo # Null /\ myaddr = Null -> [res |-> "CRASH", acts |-> acts]
        [] ~lSender      -> [res |-> "CONT", acts |-> acts]
        [] found = "CRASH" -> [res |-> "CRASH", acts |-> acts]
        [] found = Null  -> [res |-> "CONT", acts |-> acts]
        [] OTHER -> Accumulate(acts, Action("VACATION", [addr |-> replyTo, from |-> found,
                                                         subj |-> ReplySubject(c, m),
                                                         text |-> c.message]))

-----------------------------------------------------------------------------
(* One libsieve_do_<kind> call per flag of the list, while res stays 0;    *)
(* SETFLAG does its first flag with do_setflag and the rest with addflag.  *)
RECURSIVE DoEachFlag(_, _, _)
DoEachFlag(acts, k, fl) ==
  IF fl = <<>> THEN [res |-> "CONT", acts |-> acts]
  ELSE LET r == Accumulate(acts, Action(k, Head(fl)))
       IN  IF r.res # "CONT" THEN r ELSE DoEachFlag(r.acts, k, Tail(fl))

SimpleCmds == {"REJECT", "FILEINTO", "REDIRECT", "KEEP", "DISCARD", "MARK",
               "UNMARK", "NOTIFY"}

(* eval: walk the command list, stop at the first command that leaves res  *)
(* non-zero (an error, or STOP = 1 propagated out of every IF).            *)
RECURSIVE Eval(_, _, _, _), EvalCmd(_, _, _, _)
Eval(cl, i, m, acts) ==
  IF cl = <<>> THEN [res |-> "CONT", acts |-> acts]
  ELSE LET r == EvalCmd(Head(cl), i, m, acts)
       IN  IF r.res # "CONT" THEN r ELSE Eval(Tail(cl), i, m, r.acts)

EvalCmd(c, i, m, acts) ==
  CASE c.type = "IF" ->
         LET b == EvalTest(c.test, m, i)
         IN  IF b = Crash THEN [res |-> "CRASH", acts |-> acts]
             ELSE Eval(IF b THEN c.then ELSE c.else, i, m, acts)
    [] c.type = "STOP"     -> [res |-> "STOP", acts |-> acts]
    [] c.type \in SimpleCmds -> Accumulate(acts, Action(c.type, c.arg))
    [] c.type = "SETFLAG"  ->
         LET r == Accumulate(acts, Action("SETFLAG", Head(c.arg)))
         IN  IF r.res # "CONT" THEN r ELSE DoEachFlag(r.acts, "ADDFLAG", Tail(c.arg))
    [] c.type \in {"ADDFLAG", "REMOVEFLAG"} -> DoEachFlag(acts, c.type, c.arg)
    [] c.type = "DENOTIFY" -> DoDenotify(acts, c.arg)
    [] c.type = "VACATION" -> Vacation(c, i, m, acts)
    [] OTHER               -> [res |-> "CONT", acts |-> acts]

=============================================================================
