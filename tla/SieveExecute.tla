----------------------------- MODULE SieveExecute -----------------------------
(***************************************************************************)
(* sieve_execute_script of src/sv_interface/script.c, run on one compiled  *)
(* script for message after message.                                       *)
(*                                                                         *)
(* Start is the call: eval builds the action list (SieveEval); one step    *)
(* per list entry runs the while loop, each host callback answering        *)
(* nondeterministically; Finish is the code from the error: label on       *)
(* (error report, implicit keep, freeing the list).  curflags lives in     *)
(* s->interp, so it is kept from one call to the next, as in the code.     *)
(***************************************************************************)
EXTENDS SieveEval, FiniteSets

CONSTANTS
  Scripts,       \* the compiled command trees the host may hold
  Messages,      \* the messages the host may hand in
  Hosts,         \* the interpreters a host may register: the action kinds
                 \* with a callback, whether notify is supported, and the
                 \* message getters with a callback
  Junk           \* the ints an uninitialised local int may hold

(* interp_verify (not in the source tree) refuses an interpreter without   *)
(* keep, redirect or getheader; the implicit keep calls keep unchecked.    *)
ASSUME /\ \A h \in Hosts : /\ "KEEP" \in h.callbacks /\ h.notify \in BOOLEAN
                           /\ h.getters \subseteq {"getenvelope", "getsize"}
       /\ Junk \subseteq Int

(* A host callback returns SIEVE_OK or some other code; every non-zero     *)
(* code is handled alike ("ERR"), and ret |= keeps it non-zero.            *)
Results == {"OK", "ERR"}

VARIABLES
  script,        \* s->cmds, fixed once compiled
  interp,        \* s->interp and s->support, copied in when compiled
  phase,         \* "idle", "loop", "finish", "done" or "crashed"
  msg,           \* message_context of the current call
  actions,       \* the action list built by eval
  pc,            \* index of a, the entry the loop is at
  implicit_keep, \* the local flag of the same name
  ret,           \* the local return code
  lastaction,    \* the kind reported with a failure
  curflags,      \* s->interp.curflags
  log,           \* the callbacks this call made, see Entry
  msgflags,      \* the flags this call's own flag actions produced
  responded      \* the host's record of the vacation fingerprints it answered

vars == <<script, interp, phase, msg, actions, pc, implicit_keep, ret, lastaction,
          curflags, log, msgflags, responded>>

(* The callbacks s->interp holds, and s->support.notify, which            *)
(* script_require sets for "notify" when the notify callback is there.     *)
Callbacks     == interp.callbacks
SupportNotify == interp.notify

(* A callback made: its kind, whether it returned SIEVE_OK, the flags the   *)
(* host saw, the flags this message's own flag actions produced, and       *)
(* whether it was the implicit keep.                                       *)
(* A vacation entry also records the reply's recipient, sender and text.  *)
Entry(k, ok, imp) ==
  [a |-> k, ok |-> ok, flags |-> curflags, own |-> msgflags, implicit |-> imp,
   to |-> Null, from |-> Null, text |-> Null]

TypeOK ==
  /\ interp \in Hosts
  /\ phase \in {"idle", "loop", "finish", "done", "crashed"}
  /\ msg \in Messages \cup {Null}
  /\ \A i \in DOMAIN actions : actions[i].a \in Kinds
  /\ pc \in 1..(Len(actions) + 1)
  /\ implicit_keep \in BOOLEAN
  /\ ret \in Results \cup {"RUN_ERROR", "INTERNAL_ERROR"}
  /\ lastaction \in Kinds \cup {"NULL"}
  /\ curflags \in Seq(Flags) /\ msgflags \in Seq(Flags)
  /\ \A i \in DOMAIN log :
        /\ log[i].a \in Kinds /\ log[i].ok \in BOOLEAN /\ log[i].implicit \in BOOLEAN
        /\ log[i].flags \in Seq(Flags) /\ log[i].own \in Seq(Flags)
  /\ \A f \in responded : f \in STRING

Init ==
  /\ script \in Scripts
  /\ interp \in Hosts
  /\ phase = "idle"
  /\ msg = Null
  /\ actions = <<>>
  /\ pc = 1
  /\ implicit_keep = FALSE
  /\ ret = "OK"
  /\ lastaction = "NULL"
  /\ curflags = <<>>
  /\ log = <<>>
  /\ msgflags = <<>>
  /\ responded = {}

-----------------------------------------------------------------------------
(* Mutant of EnterLoop: implicit_keep is left 0 before the loop.          *)
EnterLoopNoKeep(acts) ==
  phase' = "loop" /\ actions' = acts /\ implicit_keep' = FALSE /\ ret' = "OK"

(* a = actions; implicit_keep = 1; then the while loop.                    *)
EnterLoop(acts) ==
  phase' = "loop" /\ actions' = acts /\ implicit_keep' = TRUE /\ ret' = "OK"

(* What the uninitialised locals of evaltest may hold: sz, and body, NULL   *)
(* or a wild pointer.  A local that a registered callback writes is never *)
(* read uninitialised, so one value stands for all of its values.          *)
Stacks(i) ==
  [sz   : IF "getsize" \in i.getters THEN {0} ELSE Junk,
   body : IF "getenvelope" \in i.getters THEN {"NULL"} ELSE {"NULL", "WILD"}]

(* The call: new_action_list, then eval.  A negative result returns        *)
(* SIEVE_RUN_ERROR at once, before the loop sets implicit_keep.            *)
Start(m) ==
  \E st \in Stacks(interp) :
  LET r == Eval(script, [getters |-> interp.getters, stack |-> st], m, <<Sentinel>>)
  IN  /\ phase \in {"idle", "done"}
      /\ msg' = m
      /\ log' = <<>>
      /\ msgflags' = <<>>
      /\ lastaction' = "NULL"
      /\ pc' = 1
      /\ CASE r.res = "CRASH" ->
                /\ phase' = "crashed" /\ actions' = r.acts
                /\ UNCHANGED <<implicit_keep, ret>>
           [] r.res = "RUN_ERROR" ->
                /\ phase' = "done" /\ actions' = <<>>
                /\ implicit_keep' = FALSE /\ ret' = "RUN_ERROR"
           [] OTHER -> EnterLoop(r.acts)
      /\ UNCHANGED <<script, interp, curflags,
                 responded>>

(* The entry at a, and the end of a loop iteration that left ret = r:      *)
(* a = a->next, and leave the loop when ret is not OK or a is NULL.        *)
Cur == actions[pc]
Advance(r) ==
  /\ ret' = r
  /\ pc' = pc + 1
  /\ phase' = IF r # "OK" \/ pc = Len(actions) THEN "finish" ELSE "loop"
  /\ lastaction' = Cur.a

(* Mutant of NoCallback: a missing callback is skipped as if it succeeded. *)
NoCallbackSkipped ==
  /\ phase' = "done" /\ ret' = "OK" /\ lastaction' = Cur.a
  /\ UNCHANGED <<pc, log>>

(* A missing callback: return SIEVE_INTERNAL_ERROR from inside the loop.   *)
NoCallback ==
  /\ phase' = "done" /\ ret' = "INTERNAL_ERROR" /\ lastaction' = Cur.a
  /\ UNCHANGED <<pc, log>>

(* REJECT, FILEINTO, KEEP, REDIRECT: clear implicit_keep, call the host.   *)
(* The fileinto and keep contexts point at curflags.                       *)
ExecDeliver ==
  /\ phase = "loop"
  /\ Cur.a \in {"REJECT", "FILEINTO", "KEEP", "REDIRECT"}
  /\ implicit_keep' = FALSE
  /\ IF Cur.a \notin Callbacks
     THEN NoCallback
     ELSE \E r \in Results :
            /\ Advance(r)
            /\ log' = Append(log, Entry(Cur.a, r = "OK", FALSE))
  /\ UNCHANGED <<script, interp, msg, actions, curflags, msgflags,
                 responded>>

(* DISCARD: the discard callback is optional.                              *)
ExecDiscard ==
  /\ phase = "loop"
  /\ Cur.a = "DISCARD"
  /\ implicit_keep' = FALSE
  /\ \E r \in IF "DISCARD" \in Callbacks THEN Results ELSE {ret} :
        /\ Advance(r)
        /\ log' = Append(log, Entry("DISCARD", r = "OK", FALSE))
  /\ UNCHANGED <<script, interp, msg, actions, curflags, msgflags,
                 responded>>

(* Mutant of VacationRet: SIEVE_DONE from autorespond is passed on.        *)
VacationRetDone(check, send) ==
  CASE check = "OK" -> send [] check = "DONE" -> "DONE" [] OTHER -> "ERR"

(* The code the VACATION case leaves in ret: send_response's when the      *)
(* oracle said OK, SIEVE_DONE turned into SIEVE_OK, else the oracle's.     *)
VacationRet(check, send) ==
  CASE check = "OK" -> send [] check = "DONE" -> "OK" [] OTHER -> "ERR"

(* makehash: MD5 over the concatenation of the two strings, taken to be  *)
(* injective, so the digest is the concatenation itself.                   *)
Fingerprint(s1, s2) == s1 \o s2

(* makehash(hash, send.addr, send.msg): the reply's recipient and text.    *)
VacationKey(arg) == Fingerprint(arg.addr, arg.text)

(* The host's autorespond oracle (not in the source tree; spec 4.5): a     *)
(* fingerprint recorded within the window is SIEVE_DONE, a new one is      *)
(* SIEVE_OK and recorded; either answer may instead be a failure.          *)
Autorespond(fp) == IF fp \in responded THEN {"DONE", "ERR"} ELSE {"OK", "ERR"}

(* VACATION: makehash over the reply address (strlen(NULL) crashes), the   *)
(* autorespond oracle, then send_response; SIEVE_DONE from the oracle is   *)
(* a suppressed reply and counts as OK.                                    *)
ExecVacation ==
  /\ phase = "loop"
  /\ Cur.a = "VACATION"
  /\ CASE "VACATION" \notin Callbacks ->
            NoCallback /\ UNCHANGED <<implicit_keep, responded>>
       [] Cur.arg.addr = Null ->
            /\ phase' = "crashed"
            /\ UNCHANGED <<pc, ret, lastaction, log, implicit_keep, responded>>
       [] OTHER ->
            \E check \in Autorespond(VacationKey(Cur.arg)), send \in Results :
              /\ Advance(VacationRet(check, send))
              /\ responded' = IF check = "OK" THEN responded \cup {VacationKey(Cur.arg)}
                              ELSE responded
              /\ log' = IF check = "OK"
                        THEN Append(log, [Entry("VACATION", send = "OK", FALSE)
                                           EXCEPT !.to = Cur.arg.addr,
                                                  !.from = Cur.arg.from,
                                                  !.text = Cur.arg.text])
                        ELSE log
              /\ UNCHANGED implicit_keep
  /\ UNCHANGED <<script, interp, msg, actions, curflags, msgflags>>

(* The flag family edits s->interp.curflags; SETFLAG frees it first.       *)
FlagEffect(fl, act) ==
  CASE act.a = "SETFLAG"    -> AddFlag(<<>>, act.arg)
    [] act.a = "ADDFLAG"    -> AddFlag(fl, act.arg)
    [] act.a = "REMOVEFLAG" -> RemoveFlag(fl, act.arg)
    [] act.a = "MARK"       -> MarkAll(fl)
    [] act.a = "UNMARK"     -> UnmarkAll(fl)

ExecFlag ==
  /\ phase = "loop"
  /\ Cur.a \in FlagKinds
  /\ curflags' = FlagEffect(curflags, Cur)
  /\ msgflags' = FlagEffect(msgflags, Cur)
  /\ Advance("OK")
  /\ UNCHANGED <<script, interp, msg, actions, implicit_keep, log,
                 responded>>

(* NOTIFY: an active context is sent (send_notify_callback); a failure     *)
(* jumps to error: without advancing.  The case then falls through to      *)
(* ACTION_NONE's break.                                                     *)
ExecNotify ==
  /\ phase = "loop"
  /\ Cur.a = "NOTIFY"
  /\ IF SupportNotify /\ Cur.active
     THEN \E r \in Results :
            /\ log' = Append(log, Entry("NOTIFY", r = "OK", FALSE))
            /\ IF r = "OK" THEN Advance("OK")
               ELSE /\ phase' = "finish" /\ ret' = "ERR"
                    /\ lastaction' = "NOTIFY" /\ UNCHANGED pc
     ELSE Advance(ret) /\ UNCHANGED log
  /\ UNCHANGED <<script, interp, msg, actions, implicit_keep, curflags, msgflags,
                 responded>>

(* ACTION_NONE: the dummy head.                                            *)
ExecNone ==
  /\ phase = "loop"
  /\ Cur.a = "NONE"
  /\ Advance(ret)
  /\ UNCHANGED <<script, interp, msg, actions, implicit_keep, curflags, log, msgflags,
                 responded>>

(* Mutant of KeepAgain: the flag is cleared only once keep succeeded.     *)
KeepAgainLate(r) == r # "OK"

(* implicit_keep after the implicit keep returned r: cleared beforehand,  *)
(* so a failed keep is never tried again.                                 *)
KeepAgain(r) == FALSE

(* From error: on.  The implicit keep clears its flag before calling keep, *)
(* and a failed keep goes back to error:, which then finds it cleared.     *)
Finish ==
  /\ phase = "finish"
  /\ IF implicit_keep
     THEN \E r \in Results :
            /\ implicit_keep' = KeepAgain(r)
            /\ lastaction' = "KEEP"
            /\ ret' = IF r = "OK" THEN ret ELSE "ERR"
            /\ log' = Append(log, Entry("KEEP", r = "OK", TRUE))
            /\ phase' = IF r = "OK" THEN "done" ELSE "finish"
     ELSE /\ phase' = "done"
          /\ UNCHANGED <<implicit_keep, lastaction, ret, log>>
  /\ UNCHANGED <<script, interp, msg, actions, pc, curflags, msgflags,
                 responded>>

(* A NULL dereference kills the host process; the next process compiles   *)
(* the script again and starts with no flags.                              *)
Restart ==
  /\ phase = "crashed"
  /\ phase' = "idle"
  /\ curflags' = <<>>
  /\ UNCHANGED <<script, interp, msg, actions, pc, implicit_keep, ret, lastaction, log, msgflags,
                 responded>>

Step ==
  \/ ExecDeliver \/ ExecDiscard \/ ExecVacation \/ ExecFlag \/ ExecNotify
  \/ ExecNone \/ Finish

(* The :days window of the recorded replies runs out: the host's record   *)
(* forgets them (its retention policy, spec section 4.5).                 *)
WindowExpires ==
  /\ responded # {}
  /\ responded' = {}
  /\ UNCHANGED <<script, interp, phase, msg, actions, pc, implicit_keep, ret,
                 lastaction, curflags, log, msgflags>>

Next == (\E m \in Messages : Start(m)) \/ Step \/ Restart \/ WindowExpires

(* The loop runs to completion once called: nothing in the code waits.    *)
Spec == Init /\ [][Next]_vars /\ WF_vars(Step)


-----------------------------------------------------------------------------
(* Properties.                                                             *)

Succeeded(k) == {i \in DOMAIN log : log[i].a = k /\ log[i].ok}
ImplicitKeeps == {i \in DOMAIN log : log[i].implicit}
(* The entries the loop reached before it left.                            *)
Reached == {i \in 1..(pc - 1) : i \in DOMAIN actions}

(* A rejected message (the reject callback succeeded, a bounce went out)   *)
(* is never also kept, filed or redirected, explicitly or by the implicit  *)
(* keep: the accumulator's conflicts and the loop's implicit_keep handling *)
(* together must keep the two apart.                                       *)
RejectIsExclusive ==
  Succeeded("REJECT") # {} =>
    \A k \in {"FILEINTO", "KEEP", "REDIRECT", "VACATION"} : Succeeded(k) = {}

(* When sieve_execute_script returns SIEVE_OK the message went somewhere:  *)
(* some disposition callback (or the implicit keep) succeeded.  The        *)
(* comment above the function makes the caller save the message only for  *)
(* other return codes.                                                     *)
NoSilentLoss ==
  phase = "done" /\ ret = "OK" =>
    \E k \in Dispositions : Succeeded(k) # {}

(* The implicit keep is tried exactly once when the loop ran and reached   *)
(* no disposition action, and never otherwise (spec section 3).            *)
ImplicitKeepOnce ==
  phase = "done" /\ ret \notin {"RUN_ERROR", "INTERNAL_ERROR"} =>
    IF \E i \in Reached : actions[i].a \in Dispositions
    THEN ImplicitKeeps = {}
    ELSE Cardinality(ImplicitKeeps) = 1

(* The VACATION commands of a command list, in either arm of an IF.      *)
RECURSIVE VacationCmds(_)
VacationCmds(cl) ==
  UNION {CASE cl[i].type = "VACATION" -> {cl[i]}
           [] cl[i].type = "IF" -> VacationCmds(cl[i].then) \cup VacationCmds(cl[i].else)
           [] OTHER -> {} : i \in DOMAIN cl}

(* The :addresses of every VACATION command of a command list.            *)
VacationAliases(cl) == UNION {ToSet(c.addresses) : c \in VacationCmds(cl)}

(* Spec section 4.3: a vacation reply is only sent for a message that is   *)
(* not auto-submitted or bulk, to a sender that is not the recipient, one  *)
(* of its :addresses or a system address, and only when the recipient (or *)
(* an alias) is named in To, Cc or Bcc; it is sent from that address.      *)
VacationRespectsSender ==
  \A i \in DOMAIN log : log[i].a = "VACATION" =>
    LET m      == msg
        myaddr == Canon(m.env["to"][1])
        mine   == {myaddr} \cup VacationAliases(script)
        named  == UNION {{Canon(m.hdr[h][l]) : l \in DOMAIN m.hdr[h]} :
                           h \in {"to", "cc", "bcc"} \cap DOMAIN m.hdr}
    IN  /\ ~HasHeader(m, "auto-submitted") \/ m.hdr["auto-submitted"][1] = "no"
        /\ ~HasHeader(m, "precedence")
           \/ m.hdr["precedence"][1] \notin {"junk", "bulk", "list"}
        /\ log[i].to \notin mine \cup SysAddrs \cup {Null}
        /\ log[i].from \in mine \cap named

(* The topic of a subject: what follows the longest prefix made of whole  *)
(* four-character blocks that each read "re: " in any letter case.         *)
Topic(s) ==
  LET Blocks(n) == 4 * n <= Len(s) /\ \A j \in 0..(n - 1), k \in 1..4 :
                                       Fold(s[4 * j + k]) = Fold(ReTag[k])
      n == CHOOSE n \in 0..(Len(s) \div 4) : Blocks(n) /\ ~Blocks(n + 1)
  IN  SubSeq(s, 4 * n + 1, Len(s))

(* Spec section 8, subject synthesis: a vacation reply carries the        *)
(* :subject the script gives, else "Re: " and the topic of the original   *)
(* Subject ("Re: Re: hello" gives "Re: hello"), else "Automated reply";   *)
(* either is cut to the 127 characters the reply buffer holds.  About the *)
(* subject code of the VACATION case of eval.                              *)
VacationSubjectIsReply ==
  \A k \in DOMAIN actions : actions[k].a = "VACATION" =>
    \E c \in VacationCmds(script) :
      LET want == CASE c.subject # Null -> c.subject
                    [] HasHeader(msg, "subject") -> ReTag \o Topic(msg.hdr["subject"][1])
                    [] OTHER -> <<"Automated reply">>
      IN  actions[k].arg.subj = SubSeq(want, 1, Min({Len(want), 127}))

(* Spec section 4.1, the Message Accessor's view of a test: what the test  *)
(* means for the headers, envelope and size the host supplies.             *)
RECURSIVE Holds(_, _)
Holds(t, m) ==
  LET Lines(f, n) == IF n \in DOMAIN f THEN ToSet(f[n]) ELSE {}
      Matches(f) == \E n \in ToSet(t.names) : \E v \in Lines(f, n), p \in ToSet(t.pats) :
                       Canon(v) # Null /\ Compare(p, Canon(v))
  IN  CASE t.type = "TRUE"     -> TRUE
        [] t.type = "FALSE"    -> FALSE
        [] t.type = "NOT"      -> ~Holds(t.test, m)
        [] t.type = "ANYOF"    -> \E k \in DOMAIN t.tests : Holds(t.tests[k], m)
        [] t.type = "ALLOF"    -> \A k \in DOMAIN t.tests : Holds(t.tests[k], m)
        [] t.type = "EXISTS"   -> ToSet(t.names) \subseteq DOMAIN m.hdr
        [] t.type = "HEADER"   -> \E n \in ToSet(t.names), p \in ToSet(t.pats) :
                                    \E v \in Lines(m.hdr, n) : Compare(p, v)
        [] t.type = "ADDRESS"  -> Matches(m.hdr)
        [] t.type = "ENVELOPE" -> Matches(m.env)
        [] t.type = "SIZE"     -> IF t.over THEN m.size > t.n ELSE m.size < t.n

(* A script "if T { keep; } else { discard; }".                            *)
IsProbe(cl) ==
  /\ Len(cl) = 1 /\ cl[1].type = "IF"
  /\ Len(cl[1].then) = 1 /\ cl[1].then[1].type = "KEEP"
  /\ Len(cl[1].else) = 1 /\ cl[1].else[1].type = "DISCARD"

(* On a host whose getenvelope and getsize callbacks answer, the branch    *)
(* eval takes is the one the spec's meaning of the test picks: the action  *)
(* list holds KEEP exactly when T holds of the message, for ADDRESS,       *)
(* ENVELOPE, SIZE and their combinations under NOT, ANYOF and ALLOF.       *)
TestDecidesBranch ==
  /\ phase \in {"loop", "finish", "done"}
  /\ IsProbe(script) /\ interp.getters = {"getenvelope", "getsize"}
  => ((\E k \in DOMAIN actions : actions[k].a = "KEEP") <=> Holds(script[1].test, msg))

(* Spec section 5: the flags a message is kept or filed with are the ones  *)
(* its own script run produced; nothing leaks in from earlier messages.    *)
FlagsArePerMessage ==
  \A i \in DOMAIN log :
    log[i].a \in {"KEEP", "FILEINTO"} => log[i].flags = log[i].own

(* Spec sections 4.7 and 7: when a run fails anywhere but in KEEP, the     *)
(* executor still tries to keep the message.                               *)
FallbackKeep ==
  LET keeps == {i \in DOMAIN log : log[i].a = "KEEP"}
  IN  (phase = "done" /\ ret # "OK" /\ \A i \in keeps : log[i].ok)
        => keeps # {}

(* Evaluation and execution never dereference a NULL pointer.              *)
NoCrash == phase # "crashed"

-----------------------------------------------------------------------------
(* Refinement: the executor implements MailDisposition.  A call is busy    *)
(* in the loop and at error:, a successful callback is a fate, and the     *)
(* return code is success or not.                                          *)
FateOf(k) ==
  CASE k \in {"KEEP", "FILEINTO"} -> "kept"
    [] k = "REDIRECT" -> "forwarded"
    [] k = "REJECT"   -> "rejected"
    [] k = "DISCARD"  -> "discarded"
    [] k = "VACATION" -> "replied"
    [] k = "NOTIFY"   -> "notified"

Disposition == INSTANCE MailDisposition WITH
  state  <- CASE phase \in {"loop", "finish"} -> "busy"
              [] phase = "done" -> "returned"
              [] OTHER -> phase,
  fates  <- {FateOf(log[i].a) : i \in {j \in DOMAIN log : log[j].ok}},
  result <- IF phase = "done" THEN (IF ret = "OK" THEN "OK" ELSE "FAIL") ELSE "none"

(* Every behaviour of the executor, the message after message included, is *)
(* one MailDisposition allows: no delivery beside a rejection, success     *)
(* only for a placed message, and every call returns or crashes.           *)
ImplementsDisposition == Disposition!ASpec

=============================================================================
