---------------------------- MODULE SieveActions ----------------------------
(***************************************************************************)
(* The action list of one evaluation and the IMAP flag set.                *)
(*                                                                         *)
(* The accumulators libsieve_do_reject ... libsieve_do_denotify are        *)
(* declared in src/sv_interface/message.h but their bodies (message.c)     *)
(* are not part of the source tree, so Conflicts, Accumulate and           *)
(* DoDenotify follow the conflict rules of the specification (section      *)
(* 4.4, 4.6).  The flag operations translate sieve_addflag and             *)
(* sieve_removeflag of src/sv_interface/script.c.                          *)
(***************************************************************************)
EXTENDS Naturals, Sequences, SequencesExt

CONSTANTS
  Flags,        \* the IMAP flag names scripts and hosts use
  MarkFlags     \* interp.markflags: the flags MARK adds and UNMARK removes

ASSUME MarkFlags \in Seq(Flags)

(* The action kinds of message.h (ACTION_NONE is the list's dummy head).   *)
Kinds == {"NONE", "REJECT", "FILEINTO", "KEEP", "REDIRECT", "DISCARD",
          "VACATION", "SETFLAG", "ADDFLAG", "REMOVEFLAG", "MARK", "UNMARK",
          "NOTIFY"}

FlagKinds == {"SETFLAG", "ADDFLAG", "REMOVEFLAG", "MARK", "UNMARK"}

(* The actions that decide where the message goes.                         *)
Dispositions == {"REJECT", "FILEINTO", "KEEP", "REDIRECT", "DISCARD"}

(* An entry of the list: the kind, its context and, for NOTIFY, whether    *)
(* the notification is still active (a DENOTIFY may clear it).             *)
Action(k, arg) == [a |-> k, arg |-> arg, active |-> TRUE]

(* The permanent dummy element libsieve_new_action_list starts with.       *)
Sentinel == [a |-> "NONE", arg |-> "none", active |-> FALSE]

(* Mutant of Conflicts: REJECT only refuses a second REJECT.               *)
ConflictsRejectUnchecked(k) ==
  CASE k = "REJECT"   -> {"REJECT"}
    [] k = "VACATION" -> {"REJECT", "VACATION"}
    [] k \in {"FILEINTO", "KEEP", "REDIRECT"} \cup FlagKinds -> {"REJECT"}
    [] OTHER          -> {}

(* The kinds already on the list that make appending kind k a run error:   *)
(* REJECT excludes every delivery, VACATION and the flag family, and       *)
(* appears at most once; VACATION excludes REJECT and a second VACATION;   *)
(* the rest only exclude REJECT; DISCARD and NOTIFY exclude nothing.       *)
Conflicts(k) ==
  CASE k = "REJECT"   -> {"REJECT", "FILEINTO", "KEEP", "REDIRECT",
                          "VACATION"} \cup FlagKinds
    [] k = "VACATION" -> {"REJECT", "VACATION"}
    [] k \in {"FILEINTO", "KEEP", "REDIRECT"} \cup FlagKinds -> {"REJECT"}
    [] OTHER          -> {}

(* libsieve_do_<kind>: append act, or refuse with SIEVE_RUN_ERROR.         *)
Accumulate(acts, act) ==
  IF \E i \in DOMAIN acts : acts[i].a \in Conflicts(act.a)
  THEN [res |-> "RUN_ERROR", acts |-> acts]
  ELSE [res |-> "CONT", acts |-> Append(acts, act)]

(* libsieve_do_denotify: every still-active NOTIFY whose id matches the    *)
(* pattern becomes inactive; a pattern "*" (no :id given) matches all.     *)
DoDenotify(acts, pat) ==
  [res  |-> "CONT",
   acts |-> [i \in DOMAIN acts |->
               IF acts[i].a = "NOTIFY" /\ acts[i].active
                  /\ (pat = "*" \/ pat = acts[i].arg)
               THEN [acts[i] EXCEPT !.active = FALSE]
               ELSE acts[i]]]

-----------------------------------------------------------------------------
(* sieve_addflag: append the flag iff it is not in the list yet.            *)
AddFlag(fl, f) == IF Contains(fl, f) THEN fl ELSE Append(fl, f)

(* sieve_removeflag: drop the first occurrence, keeping the others' order. *)
RemoveFlag(fl, f) == RemoveFirst(fl, f)

(* ACTION_MARK / ACTION_UNMARK walk markflags from the last entry down.    *)
MarkAll(fl)   == FoldLeft(AddFlag, fl, Reverse(MarkFlags))
UnmarkAll(fl) == FoldLeft(RemoveFlag, fl, Reverse(MarkFlags))

=============================================================================
