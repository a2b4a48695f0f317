----------------------------- MODULE SieveParse -----------------------------
(***************************************************************************)
(* The semantic actions of the Sieve grammar in src/sv_parser/sieve.c      *)
(* (generated from sieve.y): the require check, the tags of every test and *)
(* action, the capability each construct needs, and what bison's error     *)
(* recovery makes of a construct whose action fails.                       *)
(*                                                                         *)
(* A script is given as the constructs the parser reduces, not as text:    *)
(* its require commands, then its commands, each with its tags in order.   *)
(* One step is one require command or one top-level command; nested       *)
(* blocks and tests are built by recursive operators in the order bison    *)
(* reduces them.  Read off the tables (yypact and yycheck for the error    *)
(* token), only the states where a command or a test starts can shift     *)
(* "error": a failed action becomes the STOP of "command: error ';'", a    *)
(* failed test the NULL of "test: error", and a failed require finds no    *)
(* state to recover in and aborts the parse.                               *)
(***************************************************************************)
EXTENDS Naturals, Sequences, SequencesExt, FiniteSets

CONSTANTS
  Support,      \* context->support: the capabilities the host registered
  Comparators,  \* the comparator names libsieve_comparator_lookup knows
  BadAddrs,     \* strings libsieve_addr_parse_buffer does not parse
  BadRegexes,   \* patterns libsieve_regcomp refuses
  Scripts       \* the scripts: [reqs: the require lists, cmds: the commands]

(* The capabilities static_check_reqs takes from context->support, those   *)
(* built into the parser, and the comparators it accepts outright.         *)
Gated    == {"fileinto", "reject", "envelope", "vacation", "notify", "subaddress"}
BuiltIn  == {"imap4flags", "regex", "relational"}
CompReqs == {"comparator-i;octet", "comparator-i;ascii-casemap", "comparator-i;ascii-numeric"}

(* static_verify_header: field-name = 1*ftext, ftext = %d33-57 / %d59-126, *)
(* checked byte by byte while *h; a header name is a sequence of bytes.    *)
FText == (33..57) \cup (59..126)

VerifyHeader(h) == \A k \in DOMAIN h : h[k] \in FText

(* static_verify_address: libsieve_addr_parse_buffer parses it (the        *)
(* address parser is not in the tree; BadAddrs is what it refuses).        *)
VerifyAddress(a) == a \notin BadAddrs

(* static_verify_regexs: libsieve_regcomp of every pattern, stopping at    *)
(* the first that fails (whose regerror text goes to sieveerror).          *)
VerifyRegexs(pl) == \A k \in DOMAIN pl : pl[k] \notin BadRegexes

(* static_verify_stringlist with static_verify_header, as the header and   *)
(* address tests call it (sieve.c:2119, 2138): every name accepted; the    *)
(* first refusal stops the walk.  Flag lists are not modelled.             *)
VerifyStringlist(sl) == \A k \in DOMAIN sl : VerifyHeader(sl[k])

(* A construct as the parser sees it, and as the tree holds it: one record *)
(* shape for every command, one for every test.                            *)
Command(type) == [type |-> type, tags |-> <<>>, flags |-> FALSE, arg |-> "none",
                  test |-> "none", then |-> <<>>, else |-> <<>>]
Test(type) == [type |-> type, tags |-> <<>>, names |-> <<>>, pats |-> <<>>, kids |-> <<>>]

(* libsieve_new_command(STOP) of "command: error ';'", and the NULL of      *)
(* "test: error".                                                          *)
StopNode == Command("STOP")
NullTest == [type |-> "NULL"]

VARIABLES
  script,        \* the script being parsed
  reqs,          \* the require commands not reduced yet
  cmds,          \* the top-level commands not reduced yet
  require,       \* context->require: the capabilities set so far
  parse_errors,  \* context->parse_errors
  exec_errors,   \* context->exec_errors
  reported,      \* the names of the "unsupported feature:" message
  tree,          \* the commands built so far: ret at the end
  phase          \* "reqs", "cmds", "done" (yyparse returned 0) or "aborted"

vars == <<script, reqs, cmds, require, parse_errors, exec_errors, reported, tree, phase>>

-----------------------------------------------------------------------------
(* Mutant of StaticCheckReqs: "notify" is answered, and required, with    *)
(* the vacation support bit, as a copied line of the if-chain would.       *)
StaticCheckReqsNotifyVacation(rq, req) ==
  CASE req = "notify"   -> [ok |-> "vacation" \in Support,
                            rq |-> IF "vacation" \in Support THEN rq \cup {req} ELSE rq \ {req}]
    [] req \in Gated    -> [ok |-> req \in Support,
                            rq |-> IF req \in Support THEN rq \cup {req} ELSE rq \ {req}]
    [] req \in BuiltIn  -> [ok |-> TRUE, rq |-> rq \cup {req}]
    [] req \in CompReqs -> [ok |-> TRUE, rq |-> rq]
    [] OTHER            -> [ok |-> FALSE, rq |-> rq]

(* static_check_reqs: its answer, and context->require after               *)
(* "require.X = support.X" (or = 1 for what the parser has built in).      *)
StaticCheckReqs(rq, req) ==
  CASE req \in Gated    -> [ok |-> req \in Support,
                            rq |-> IF req \in Support THEN rq \cup {req} ELSE rq \ {req}]
    [] req \in BuiltIn  -> [ok |-> TRUE, rq |-> rq \cup {req}]
    [] req \in CompReqs -> [ok |-> TRUE, rq |-> rq]
    [] OTHER            -> [ok |-> FALSE, rq |-> rq]

(* How a check fails: through libsieve_sieveerror ("parse"), through the   *)
(* address parser's libsieve_sieveerror_exec ("exec"), or with no report   *)
(* at all ("quiet").  YYERROR follows each, so only the first counts.      *)
FirstFailure(os) ==
  LET k == SelectInSeq(os, LAMBDA o : o # "ok") IN IF k = 0 THEN "ok" ELSE os[k]

(* "if (!context->require.X) { sieveerror(...); YYERROR; }"                *)
Gate(rq, cap) == IF cap \in rq THEN "ok" ELSE "parse"

(* A construct's node and the errors it counted: itself when every check   *)
(* passed, the recovery's substitute otherwise.                            *)
Outcome(o, node, subst) ==
  [node |-> IF o = "ok" THEN node ELSE subst,
   p    |-> IF o = "parse" THEN 1 ELSE 0,
   x    |-> IF o = "exec" THEN 1 ELSE 0]

-----------------------------------------------------------------------------
(* The tags of a test, reduced left to right.  comptag: REGEX needs        *)
(* require.regex (rule 84), then htags and aetags refuse a second one      *)
(* (hftags just overwrites).  :comparator is refused twice.  An address    *)
(* part: USER and DETAIL need require.subaddress, and a second is refused. *)
NoTags == [st |-> "ok", comptag |-> "none", comparator |-> "none", addrpart |-> "none"]

TestTag(rq, dupcomp, acc, g) ==
  IF acc.st # "ok" THEN acc
  ELSE CASE g.k = "comptag" ->
              IF g.v = "REGEX" /\ "regex" \notin rq THEN [acc EXCEPT !.st = "parse"]
              ELSE IF dupcomp /\ acc.comptag # "none" THEN [acc EXCEPT !.st = "parse"]
              ELSE [acc EXCEPT !.comptag = g.v]
         [] g.k = "comparator" ->
              IF acc.comparator # "none" THEN [acc EXCEPT !.st = "parse"]
              ELSE [acc EXCEPT !.comparator = g.v]
         [] g.k = "addrpart" ->
              IF g.v \in {"USER", "DETAIL"} /\ "subaddress" \notin rq THEN [acc EXCEPT !.st = "parse"]
              ELSE IF acc.addrpart # "none" THEN [acc EXCEPT !.st = "parse"]
              ELSE [acc EXCEPT !.addrpart = g.v]

(* static_canon_htags and static_canon_aetags: the defaults.               *)
CanonTags(acc) ==
  [comptag    |-> IF acc.comptag = "none" THEN "IS" ELSE acc.comptag,
   comparator |-> IF acc.comparator = "none" THEN "i;ascii-casemap" ELSE acc.comparator,
   addrpart   |-> IF acc.addrpart = "none" THEN "ALL" ELSE acc.addrpart]

(* HEADER, ADDRESS and ENVELOPE (cases 60, 61): the tags, the header       *)
(* names, the regexes, then static_build_header/address, whose NULL        *)
(* comparator makes them return NULL and YYERROR with nothing reported.    *)
(* HASFLAG (case 59): the tags, then require.imap4flags; its comparator    *)
(* lookup result is not checked.                                           *)
TaggedTest(rq, t) ==
  LET acc == FoldLeft(LAMBDA a, g : TestTag(rq, t.type # "HASFLAG", a, g), NoTags, t.tags)
      c   == CanonTags(acc)
  IN  IF t.type = "HASFLAG"
      THEN Outcome(FirstFailure(<<acc.st, Gate(rq, "imap4flags")>>),
                   [t EXCEPT !.tags = [acc EXCEPT !.st = "ok"]], NullTest)
      ELSE Outcome(FirstFailure(
                     << acc.st,
                        IF VerifyStringlist(t.names) THEN "ok" ELSE "parse",
                        IF c.comptag = "REGEX" /\ ~VerifyRegexs(t.pats) THEN "parse" ELSE "ok",
                        IF c.comparator \notin Comparators THEN "quiet" ELSE "ok" >>),
                   [t EXCEPT !.tags = c], NullTest)

RECURSIVE BuildTest(_, _)
(* A test and the tests inside it (cases 54-64).                           *)
BuildTest(rq, t) ==
  IF t.type \in {"ANYOF", "ALLOF", "NOT"}
  THEN LET ks == FoldLeft(LAMBDA a, k : LET r == BuildTest(rq, k)
                                        IN  [n |-> Append(a.n, r.node), p |-> a.p + r.p, x |-> a.x + r.x],
                          [n |-> <<>>, p |-> 0, x |-> 0], t.kids)
       IN  [node |-> [t EXCEPT !.kids = ks.n], p |-> ks.p, x |-> ks.x]
  ELSE IF t.type \in {"HEADER", "ADDRESS", "ENVELOPE", "HASFLAG"} THEN TaggedTest(rq, t)
  ELSE [node |-> t, p |-> 0, x |-> 0]

-----------------------------------------------------------------------------
(* The tags of vacation (rules 41-47) and notify (rules 29-34): each tag   *)
(* once; every :addresses entry must parse as an address, and the address  *)
(* parser reports its failures through libsieve_sieveerror_exec.           *)
NoVTags == [st |-> "ok", days |-> "none", addresses |-> "none", subject |-> "none",
            handle |-> "none", from |-> "none", mime |-> "none"]
NoNTags == [st |-> "ok", id |-> "none", method |-> "none", options |-> "none",
            priority |-> "none", message |-> "none"]

CmdTag(acc, g) ==
  IF acc.st # "ok" THEN acc
  ELSE IF acc[g.k] # "none" THEN [acc EXCEPT !.st = "parse"]
  ELSE IF g.k = "addresses" /\ ~VerifyAddress(g.v) THEN [acc EXCEPT !.st = "exec"]
  ELSE [acc EXCEPT ![g.k] = g.v]

(* static_canon_vtags and static_canon_ntags: the defaults.                *)
CanonVTags(acc) ==
  [acc EXCEPT !.st = "ok", !.days = IF @ = "none" THEN 7 ELSE @,
              !.mime = IF @ = "none" THEN 0 ELSE @]
CanonNTags(acc) ==
  [acc EXCEPT !.st = "ok", !.priority = IF @ = "none" THEN "normal" ELSE @,
              !.message = IF @ = "none" THEN "$from$: $subject$" ELSE @]

(* The checks of a simple action, in the order of its case (15-28).        *)
(* FILEINTO :flags checks fileinto before imap4flags; REDIRECT's address   *)
(* goes to the address parser.                                             *)
ActionCheck(rq, c) ==
  CASE c.type = "REJECT"   -> Gate(rq, "reject")
    [] c.type = "KEEP"     -> IF c.flags THEN Gate(rq, "imap4flags") ELSE "ok"
    [] c.type = "FILEINTO" -> FirstFailure(<<Gate(rq, "fileinto"),
                                             IF c.flags THEN Gate(rq, "imap4flags") ELSE "ok">>)
    [] c.type = "REDIRECT" -> IF VerifyAddress(c.arg) THEN "ok" ELSE "exec"
    [] c.type \in {"SETFLAG", "ADDFLAG", "REMOVEFLAG"} -> Gate(rq, "imap4flags")
    [] c.type = "VALIDNOTIF" -> Gate(rq, "notify")
    [] c.type \in {"STOP", "DISCARD"} -> "ok"

(* Adds a built construct to a list under way.                             *)
Collect(a, r) == [n |-> Append(a.n, r.node), p |-> a.p + r.p, x |-> a.x + r.x]
NoneBuilt == [n |-> <<>>, p |-> 0, x |-> 0]

RECURSIVE BuildCmd(_, _)
(* A command and the blocks inside it: IF/ELSIF/ELSE (cases 10, 13, 14)    *)
(* builds its test and both blocks whatever fails inside them.  VACATION   *)
(* and NOTIFY reduce their tags before their gate is checked.              *)
BuildCmd(rq, c) ==
  CASE c.type = "IF" ->
         LET t == BuildTest(rq, c.test)
             a == FoldLeft(LAMBDA s, k : Collect(s, BuildCmd(rq, k)), NoneBuilt, c.then)
             b == FoldLeft(LAMBDA s, k : Collect(s, BuildCmd(rq, k)), NoneBuilt, c.else)
         IN  [node |-> [c EXCEPT !.test = t.node, !.then = a.n, !.else = b.n],
              p |-> t.p + a.p + b.p, x |-> t.x + a.x + b.x]
    [] c.type = "VACATION" ->
         LET acc == FoldLeft(CmdTag, NoVTags, c.tags)
         IN  Outcome(FirstFailure(<<acc.st, Gate(rq, "vacation")>>),
                     [c EXCEPT !.tags = CanonVTags(acc)], StopNode)
    [] c.type = "NOTIFY" ->
         LET acc == FoldLeft(CmdTag, NoNTags, c.tags)
         IN  Outcome(FirstFailure(<<acc.st, Gate(rq, "notify")>>),
                     [c EXCEPT !.tags = CanonNTags(acc)], StopNode)
    [] OTHER -> Outcome(ActionCheck(rq, c), c, StopNode)

-----------------------------------------------------------------------------
Init ==
  /\ script \in Scripts
  /\ reqs = script.reqs
  /\ cmds = script.cmds
  /\ require = {}
  /\ parse_errors = 0
  /\ exec_errors = 0
  /\ reported = {}
  /\ tree = <<>>
  /\ phase = "reqs"

(* require: REQUIRE stringlist ';' (case 6): static_check_reqs on every    *)
(* name, collecting the unsupported ones into one message, then            *)
(* libsieve_sieveerror and YYERROR.  No state before the first command     *)
(* shifts "error", so the parser aborts: the requires after it are never   *)
(* looked at.                                                              *)
Require ==
  /\ phase = "reqs"
  /\ reqs # <<>>
  /\ LET sl     == Head(reqs)
         unsupp == {sl[i] : i \in {j \in DOMAIN sl : ~StaticCheckReqs(require, sl[j]).ok}}
     IN  /\ require' = FoldLeft(LAMBDA r, q : StaticCheckReqs(r, q).rq, require, sl)
         /\ IF unsupp = {}
            THEN reqs' = Tail(reqs) /\ UNCHANGED <<parse_errors, reported, phase>>
            ELSE /\ parse_errors' = parse_errors + 1
                 /\ reported' = unsupp
                 /\ phase' = "aborted"
                 /\ UNCHANGED reqs
  /\ UNCHANGED <<script, cmds, exec_errors, tree>>

(* After the requires: "start: reqs commands" needs a command.  An empty   *)
(* script is "start: /* empty */" (case 2, ret = NULL); requires with no   *)
(* command are a syntax error: yyerror, which is libsieve_sieveerror, and  *)
(* at the end of input the parser aborts.                                  *)
StartCommands ==
  /\ phase = "reqs"
  /\ reqs = <<>>
  /\ CASE cmds # <<>>         -> phase' = "cmds" /\ UNCHANGED parse_errors
       [] script.reqs = <<>> -> phase' = "done" /\ UNCHANGED parse_errors
       [] OTHER              -> phase' = "aborted" /\ parse_errors' = parse_errors + 1
  /\ UNCHANGED <<script, reqs, cmds, require, exec_errors, reported, tree>>

(* One top-level command reduced and linked in (cases 7, 8).               *)
Reduce ==
  /\ phase = "cmds"
  /\ cmds # <<>>
  /\ LET r == BuildCmd(require, Head(cmds))
     IN  /\ tree' = Append(tree, r.node)
         /\ parse_errors' = parse_errors + r.p
         /\ exec_errors' = exec_errors + r.x
  /\ cmds' = Tail(cmds)
  /\ UNCHANGED <<script, reqs, require, reported, phase>>

(* End of input: yyparse returns 0 and ret is the command list (case 3).   *)
Accept ==
  /\ phase = "cmds"
  /\ cmds = <<>>
  /\ phase' = "done"
  /\ UNCHANGED <<script, reqs, cmds, require, parse_errors, exec_errors, reported, tree>>

Next == Require \/ StartCommands \/ Reduce \/ Accept

Spec == Init /\ [][Next]_vars /\ WF_vars(Next)

-----------------------------------------------------------------------------
(* Properties.                                                             *)

TypeOK ==
  /\ script \in Scripts
  /\ require \subseteq Gated \cup BuiltIn
  /\ parse_errors \in Nat /\ exec_errors \in Nat
  /\ phase \in {"reqs", "cmds", "done", "aborted"}

(* libsieve_sieve_parse_buffer hands the tree to the interpreter: yyparse  *)
(* returned 0 and neither error counter moved.                             *)
Loaded == phase = "done" /\ parse_errors = 0 /\ exec_errors = 0

(* The names the script's require commands list.                           *)
Declared == UNION {ToSet(script.reqs[i]) : i \in DOMAIN script.reqs}

RECURSIVE NeedsTest(_)
(* The capabilities a built test uses.                                     *)
NeedsTest(t) ==
  CASE t.type \in {"ANYOF", "ALLOF", "NOT"} -> UNION {NeedsTest(t.kids[i]) : i \in DOMAIN t.kids}
    [] t.type = "HASFLAG" -> {"imap4flags"} \cup (IF t.tags.comptag = "REGEX" THEN {"regex"} ELSE {})
    [] t.type \in {"HEADER", "ADDRESS", "ENVELOPE"} ->
         (IF t.tags.comptag = "REGEX" THEN {"regex"} ELSE {})
         \cup (IF t.tags.addrpart \in {"USER", "DETAIL"} THEN {"subaddress"} ELSE {})
    [] OTHER -> {}

RECURSIVE NeedsCmd(_)
(* The capabilities a built command uses.                                  *)
NeedsCmd(c) ==
  CASE c.type = "IF" -> NeedsTest(c.test)
                        \cup UNION {NeedsCmd(c.then[i]) : i \in DOMAIN c.then}
                        \cup UNION {NeedsCmd(c.else[i]) : i \in DOMAIN c.else}
    [] c.type = "REJECT" -> {"reject"}
    [] c.type = "VACATION" -> {"vacation"}
    [] c.type = "FILEINTO" -> {"fileinto"} \cup (IF c.flags THEN {"imap4flags"} ELSE {})
    [] c.type = "KEEP" -> IF c.flags THEN {"imap4flags"} ELSE {}
    [] c.type \in {"SETFLAG", "ADDFLAG", "REMOVEFLAG"} -> {"imap4flags"}
    [] c.type \in {"NOTIFY", "VALIDNOTIF"} -> {"notify"}
    [] OTHER -> {}

(* Spec, capability negotiation: a script the parser hands over uses only  *)
(* extensions the script required and the host registered.  The require    *)
(* bits static_check_reqs sets are what every gate of cases 15-84 reads,   *)
(* inside any depth of IF and anyof.                                       *)
RequireGate ==
  Loaded => \A i \in DOMAIN tree :
              \A cap \in NeedsCmd(tree[i]) : cap \in Declared /\ cap \in Support \cup BuiltIn

RECURSIVE SameTest(_, _)
SameTest(n, t) ==
  /\ n.type = t.type
  /\ t.type \in {"ANYOF", "ALLOF", "NOT"} =>
       Len(n.kids) = Len(t.kids) /\ \A i \in DOMAIN t.kids : SameTest(n.kids[i], t.kids[i])

RECURSIVE SameCmds(_, _)
SameCmds(ns, cs) ==
  /\ Len(ns) = Len(cs)
  /\ \A i \in DOMAIN cs :
       /\ ns[i].type = cs[i].type
       /\ cs[i].type = "IF" => /\ SameTest(ns[i].test, cs[i].test)
                               /\ SameCmds(ns[i].then, cs[i].then)
                               /\ SameCmds(ns[i].else, cs[i].else)

(* Spec: a script that fails to parse yields a parse error.  So a script   *)
(* the parser hands over with no error counted holds every command and     *)
(* test the script has: none was replaced by error recovery's STOP or NULL.*)
NoSilentSubstitution == Loaded => SameCmds(tree, script.cmds)

=============================================================================
