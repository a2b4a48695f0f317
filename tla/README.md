# TLA+ models of libsieve

These modules model libsieve's Sieve machinery:

- the evaluation and execution core, `src/sv_interface/script.c`, with the
  action kinds of `src/sv_interface/message.h`;
- the header cache of `src/sv_interface/message2.c`;
- the notify templater in `script.c`;
- the semantic actions of the generated parser, `src/sv_parser/sieve.c`;
- that parser's LALR driver and tables, with bison's error recovery.

Each definition is translated from the lines `PROJECT.json` gives for it
under `map`. The few definitions modelled from the spec, because their code is
not in the tree, are marked `spec_modelled` there.

## The system

| Part | Source | State | Operations |
|---|---|---|---|
| Parser actions | `sieve.c` semantic actions (1661-2325) and helpers (2580-2983) | `context->require`, error counters, the tree | require, the tag rules, the gates of every action and test, error recovery |
| Test evaluator | `evaltest` (script.c 263-370), `call_get*` (376-418), the `message2_get*` fallbacks | none (pure) | every case; HASFLAG has no case and is false |
| Command evaluator | `eval` (426-665) | the action list | IF, STOP, REJECT ... DENOTIFY, VACATION |
| Action list | `libsieve_do_*` (declared in message.h; message.c is not in the tree) | list of actions, NOTIFY active bits | append with conflict rules, denotify |
| Vacation gate | `eval` VACATION case (461-605), `look_for_me`, `sysaddr` | none | suppression chain, choice of sender address |
| Executor | `sieve_execute_script` (899-1179) | `implicit_keep`, `ret`, `lastaction`, loop position, the host's callbacks | one callback per action, the `error:` label, the implicit keep |
| IMAP flags | `sieve_addflag` / `sieve_removeflag` (748-794), MARK/UNMARK | `s->interp.curflags`, **kept across calls** | set/add/remove/mark/unmark |
| Notify templater | `fillin_headers`, `add_header` (669-746) | the output buffer | `$from$`, `$env-from$`, `$subject$` substitution |
| LR driver | `yyparse` (sieve.c 1409-2520) and the tables (529-881) | the state stack, `yychar`, `yyerrstatus`, `yynerrs` | shift, reduce, goto, `yyerrlab`, `yyerrorlab`, `yyerrlab1` |
| Header cache | `message2.c` (44-211) | open-addressing table of header buckets | `headercache`, `hashheader`, `getheader` |

How the parts interact:

1. The parser turns a script into a command tree. Its require commands set
   the `context->require` bits, and every gated action and test reads them.
2. The host calls `sieve_execute_script` once per message.
3. `eval` walks the tree, evaluates tests against the header cache, and
   appends actions. The conflict rules decide whether an append is a run
   error.
4. The executor walks the list and calls one host callback per entry. A NOTIFY
   goes through the templater first.
5. A failure jumps to `error:`, where the implicit keep may run.
6. The flag actions edit `s->interp.curflags`. The keep and fileinto contexts
   point at that same list, and nothing resets it between messages.

## Modules

- **SieveActions**: the action kinds (`message.h` 37-53), the action records
  and the dummy head.
  - `Conflicts`, `Accumulate` and `DoDenotify` are modelled from spec
    section 4.4, because `message.c` is not in the tree.
  - It also holds the flag-list operations `AddFlag` and `RemoveFlag`.
  - MARK/UNMARK are folds over `MarkFlags`, walked from the last entry down
    as the code does.
- **SieveEval**: `EvalTest` and the mutually recursive `Eval`/`EvalCmd`, one
  `CASE` arm per `switch` case.
  - The VACATION case is `Vacation`, the `l` chain of
    `SIEVE_OK`/`SIEVE_DONE` checks.
  - A NULL dereference gives the result `"CRASH"`; a read through a wild
    pointer in `evaltest` gives the model value `Crash`, which `eval` turns
    into the same result.
  - Messages are records `[hdr, env, size]`, and addresses are model values.
  - The interpreter argument `i` holds the message getters the host
    registered and what the uninitialised locals hold. Without a getsize
    callback `call_getsize` yields the junk int (`message2_getsize` never
    writes `*sz`, and the `sz < 0` test is on the pointer). Without a
    getenvelope callback `call_getenvelope` yields a NULL or a wild body,
    and the VACATION case reads the body the precedence lookup left.
  - `ReplySubject` is the reply subject: the script's `:subject`, or
    `"Re: "` and the message's subject with every case-insensitive
    `"Re: "` prefix stripped (`SkipRe`), or `"Automated reply"`. It is cut
    to the 127 bytes the 128-byte buffer holds.
  - ANYOF, ALLOF and the names of ADDRESS/ENVELOPE are left folds that stop
    once the result is set, as the loops' `!res` conditions do, so a crash
    in a later sub-test is reached only when the code reaches it.
- **SieveExecute**: the executor as a state machine.
  - Its variables are the locals of `sieve_execute_script`, `curflags`, and
    `interp`, the host's interpreter (its callbacks and notify support,
    copied into the script by `sieve_script_buffer`).
  - `Start` is the call up to the loop. There is one action per `case` of
    the loop. `Finish` is the `error:` label. `Restart` is a new host process
    after a crash.
  - Every callback may answer OK or fail. A callback the host did not
    register is `SIEVE_NOT_FINALIZED`.
  - `Start` chooses what the uninitialised locals hold from `Stacks`: the
    `Junk` ints and a NULL or wild body, for the getters the host did not
    register.
  - `responded` is the host's store of the fingerprints `autorespond` has
    seen. `VacationKey` is `makehash(send.addr, send.msg)`, and MD5 is
    abstracted to concatenation, which is injective on the values used.
    `Autorespond` answers DONE for a known fingerprint.
  - `WindowExpires` is the host forgetting its fingerprints once `:days`
    have passed. With it, the oracle's DONE answer (a suppressed reply)
    is reached after an earlier call, or after a restart, recorded the same
    fingerprint.
  - The ghost variables `log` and `msgflags` record the callbacks made and
    the flags this message's own actions set.
- **MailDisposition**: the abstract specification. While a call is busy, the
  message meets fates one at a time, and never both rejection and delivery.
  The call returns, and it returns success only for a placed message.
  `SieveExecute` maps onto it: `Disposition == INSTANCE MailDisposition WITH`
  a phase-to-state mapping, the fates of the successful callbacks, and the
  return code.
- **Message2**: the header cache.
  - `HashHeader` is `hashheader`, with C's sign-keeping `%` and a
    `SignedChar` build switch.
  - `Probe` is the shared linear probe, and `GetHeader` is the lookup.
  - One `CacheHeader` step is one iteration of the caching loop, including
    the growth of a full bucket (whose `realloc` may fail).
- **NotifyTemplate**: `fillin_headers`. One step is one iteration of its
  loop: a variable substituted via `add_header`, or a run of plain text
  copied. The buffer is modelled by its contents, `outlen`, and its
  allocation.
- **SieveParse**: the parser's semantic actions.
  - A script is given as the constructs bison reduces: its require lists,
    then its commands with their tags in source order. It is not given as
    text.
  - `Require` is case 6. `StartCommands` covers the empty script and requires
    with no command. `Reduce` reduces one top-level command. `Accept` is
    `yyacceptlab`.
  - Nested blocks and tests are built by the recursive `BuildCmd` and
    `BuildTest`, in bison's reduction order. The tags are folded by
    `TestTag` and `CmdTag`, the defaults come from `static_canon_*`, and
    every check reports through `libsieve_sieveerror`, through
    `libsieve_sieveerror_exec` (the address parser), or not at all.
  - The argument checks are the `static_verify_*` helpers. Header names are
    byte sequences and `VerifyHeader` is the ftext test of
    `static_verify_header`, byte by byte. The address parser and `regcomp`
    are outside the tree, so `BadAddrs` and `BadRegexes` are what they
    refuse.
  - Error recovery was read off the parser tables. A failed command becomes
    the STOP of `command: error ';'`, and a failed test becomes the NULL of
    `test: error`. No state before the first command shifts `error`, so a
    failed require aborts the parse.
- **SieveLR**: `yyparse`'s driver on the real tables of `sieve.c`
  (`yypact`, `yydefact`, `yytable`, `yycheck`, `yyr1`, `yyr2`, `yypgoto`,
  `yydefgoto`, `yytranslate`), copied as functions indexed from 0.
  - The state is the state stack, the look-ahead `yychar`, `yyerrstatus`,
    `yynerrs`, `yyn`, and the label the code is at.
  - `Backup`, `Reduce`, `ErrLab` and `ErrLab1` are `yybackup`/`yydefault`,
    `yyreduce` (with `yyerrorlab`), `yyerrlab`, and one iteration of the
    `yyerrlab1` loop.
  - A semantic action may end in `YYERROR` when its rule is one whose code in
    the switch has a `YYERROR` (`Failing`). The model lets it succeed or fail,
    since whether it fails is SieveParse's question.
  - The ghost `expect` is the rule SieveParse assumes comes next: rule 11
    after a command part, rule 64 after a test part, and an abort after a
    require.
  - Input is a sequence of token codes: `yylex` values, ASCII for
    punctuation.
- **MC\*** modules: the model values, scripts, messages, header lists and
  templates of the runs.

## Runs

| Run | Config | Expect | Checks |
|---|---|---|---|
| dispositions | `MCSieveExecute.cfg` | pass | `RejectIsExclusive`, `NoSilentLoss`, `ImplicitKeepOnce`, and the refinement `ImplementsDisposition`, over every two-command script, three messages and two hosts (all callbacks, or only keep and redirect without notify); 69,394 states |
| evaluation | `MCVacation.cfg` | pass | `TypeOK`, `VacationRespectsSender`, `VacationSubjectIsReply` (the reply subject is the given one, or `Re: ` and the topic, cut to 127 bytes), and `TestDecidesBranch` (on a host whose getters answer, `if T { keep; } else { discard; }` keeps exactly when the spec's meaning of T holds: SIZE, ADDRESS, ENVELOPE, NOT, ANYOF, ALLOF), over 6 vacation and 9 probe scripts × 224 messages × a full host and a sieve2 host; 46,094 states |
| flags_leak | `MCSieveExecute_FlagsArePerMessage.cfg` | violation | flags from message 1 reach message 2's keep |
| fallback_keep | `MCSieveExecute_FallbackKeep.cfg` | violation | a run error or a failed fileinto ends with no keep |
| vacation_crash | `MCVacation_NoCrash.cfg` | violation | on a sieve2 host, vacation on a message without Precedence reads `body[0]` of a NULL body; the same scripts, hosts and messages also reach the envelope-`to` and ENVELOPE-test crashes |
| header_cache | `MCMessage2.cfg` | pass | `CacheFaithful` (getheader finds every header's values, in order, in any letter case); 12,338 states |
| full_table | `MCMessage2_FullTable.cfg` | violation | with more names than slots, a header lands in another name's bucket |
| bucket_terminator | `MCMessage2_Terminator.cfg` | violation | a grown bucket's NULL terminator is written past its end |
| notify_template | `MCNotifyTemplate.cfg` | pass | `OutputIsRendering` against a recursive reference `Render`, `WritesInBounds`, and the liveness property `Terminates`; 180,352 states |
| script_loading | `MCSieveParse.cfg` | pass | `RequireGate` (a loaded script uses only what it required and the host supports, at any nesting); 827 states |
| lr_recovery | `MCSieveLR.cfg` | pass | `TypeOK`, `RecoveryAsAbstracted` (after a failing command or test action the next reduction is `command: error ';'` or `test: error`, and a well-formed script is aborted only by a failed require) and the liveness property `Terminates`; 25,381 states |
| parse_silent_error | `MCSieveParse_Silent.cfg` | violation | an unknown comparator drops a test with no error counted |

What the violations show (details in `PROJECT.json` findings):

- `sieve_execute_script` never resets `curflags`, but spec section 5 says
  flags live per evaluation.
- An eval error returns before the implicit keep, and a failing fileinto has
  already cleared `implicit_keep`. Spec sections 4.7 and 7 say a keep is
  attempted as a last resort.
- Vacation crashes on three message shapes: script.c lines 500, 525 and 1013.
  On a host without a getenvelope callback it crashes at line 500 on every
  message without a Precedence header, and an ENVELOPE test reads a wild
  body (line 297).
- The cache's probe gives up on a full table and appends to whatever bucket
  it stopped at (message2.c 155). A grown bucket overruns by one (177).
- `message2_getenvelope` assigns its parameter instead of `*body`
  (message2.c 92). This is the vacation_crash finding. In `NotifyTemplate`
  with `HostEnvelope = FALSE`, `add_header` reads an uninitialised `h` on
  `$env-from$`; the same root cause is recorded once. The same
  root cause, with `message2_getsize` never writing `*sz`, makes SIZE on a
  sieve2 host compare junk: `TestDecidesBranch`, stated for that host too,
  fails on the SIZE probes.
- `static_build_header`/`static_build_address` return NULL for an unknown
  comparator, and the action does `YYERROR` without reporting. Recovery drops
  the test silently, but the spec says a failed parse yields a parse error.
  The NULL of `test: error` stays as the IF's test, and `evaltest` reads
  `t->type` through it, so the loaded script crashes on its first message.

Every property of a passing run has a mutant in `PROJECT.json`: a plausible
bug in a mapped definition, under which TLC finds the property violated.

## Bounds

- **Executor:**
  - two flags, and four addresses (me, an alias, a friend, a system address)
    plus an unparsable one;
  - header `x` absent, `"a"` or `"b"`;
  - every two-command script, which gives every ordered pair of conflicting
    actions, an IF-guarded action, and STOP before or after an action;
  - messages handled one after another, so state carried between calls shows
    up.
- **Vacation and tests:** the messages vary To/Cc, Auto-Submitted/Precedence,
  the envelope `to` (present, empty, missing) and the envelope from. This
  reaches every exit of the suppression chain. The size is 7 or 10, the
  bounds of the probes `:over 7` and `:under 10`, and differs between
  messages whose ENVELOPE probe agrees, so ANYOF's short cut matters. The
  evaluation run leaves out the empty envelope `to` (224 messages) to stay
  within minutes; the crash it causes is the vacation_crash run's. Junk ints
  are 0 and 100, one on each side of both bounds.
- **Header cache:**
  - hash size 4 for the passing run, with up to four headers over three
    names (two of which collide), so probing wraps around;
  - hash size 2 for the full-table run;
  - a parser bucket space of 1 and 12 repeats of one header, which grows a
    bucket twice.
- **Templater:**
  - templates of up to three pieces, the pieces being each variable, a
    variable in capitals, a lone `$`, a text character, and two
    near-variables;
  - values that are missing, empty, 1 character and 5 characters long;
  - a growth amount of 4, so both growth branches happen.
- **Parser:**
  - six require lists: none, supported, unsupported, unknown, two failing in
    a row, and everything the tests need;
  - every action and test once. Each one appears with and without its
    require, with a duplicate tag, and with a bad address, header name,
    regex or comparator;
  - header names at every bound of ftext (bytes 32, 33, 57, 58, 59, 126,
    127) and the empty name, which `static_verify_header` lets through
    although its comment asks for at least one character;
  - nesting in IF/ELSIF/ELSE, NOT and ANYOF, and an error followed by a
    command that must survive it;
  - a host supporting fileinto, vacation, subaddress and envelope, but not
    reject or notify.

- **Vacation window:** subjects `"Re: Re: hi"`, `"rE: RE:hi"` (a prefix
  without its space is not stripped), `"Re:"`, and 126 bytes. With the added
  `"Re: "` the last exceeds 127 bytes. A `:subject` of 130 bytes is cut as
  well. Two messages to one address, and a restart between them, present the
  same fingerprint to the oracle again within the window.
- **LR driver:** 192 token streams. Each is a require part (none, one
  require, a bracketed list) followed by one of nine command fragments, or,
  after a require, by two of them. The
  fragments cover keep, reject, fileinto with `:flags`, vacation with a
  repeated `:days`, notify, `if header :comparator`, anyof/else, not
  size/elsif hasflag, and envelope `:regex`. Three streams are malformed: a
  missing `;`, a stray `}`, and a require after a command. Every semantic action that can `YYERROR` may
  fail, so recovery starts from every command and test rule the fragments
  reach.

## Fairness and liveness

- `SieveExecute` assumes `WF_vars(Step)`. Once called, the loop and
  `error:` run to completion, because nothing in them waits. A new call is
  up to the host and is not fair.
- `MailDisposition` has weak fairness on `Return`. The refinement property
  therefore also checks that every busy call returns or crashes.
- `NotifyTemplate` and `SieveParse` assume weak fairness of their single
  loop, and `Terminates` checks that the template scan ends. Under the
  mutant `strcspn(c, "$")` the scan stalls on a `$` that starts no variable.

- `SieveLR` assumes `WF_vars(Next)`: `yyparse` runs to its return once
  called, and no step waits. `Terminates` checks the return. Under the
  mutant that never gives up a look-ahead at the end of input, it loops.

## Not modelled

- **Properties that would restate one line:** the hash's closed form, the
  abort of a failed require (checked on the real tables by
  `RecoveryAsAbstracted` instead), the ftext range test, and a
  reply-once-per-window rule that only mirrors makehash's arguments are not
  stated. Two disagreements with the spec are recorded as hazards rather
  than runs: a failed require reports only its own unsupported names, while
  the spec asks for one error naming every missing requirement (sieve.c
  1702); and `static_verify_header` accepts the empty name, though its
  comment quotes `1*ftext` (sieve.c 2850).

- **The scanner:** `SieveLR` takes token codes, and `SieveParse` takes
  the constructs reduced. The two are joined by `RecoveryAsAbstracted`: the
  outcome of error recovery that SieveParse assumes is checked on the tables.
- **Parser stack growth, `yydestruct` and verbose messages:** the stack
  never nears `YYMAXDEPTH` (200) on these inputs, `yydestruct` only frees,
  and `yysyntax_error` only formats.
- **`script_require`, `sieve_script_buffer`/`parse`/`free`:** they belong to
  an older interface. They call `sieve_parse_buffer` and an `s->err` counter
  that the tree no longer has. Their `envelope` slip at line 73 is
  therefore not the check the parser uses.
- **The hand-off of the parse tree:** `libsieve_sieve_parse_buffer` returns
  `context->sieve_ret`, which nothing in the tree sets. `sieveinc.h` is stale
  (its prototypes do not match `sieve.c`). The model takes the tree the
  actions build.
- **The relational match types and the `envelope` require:** `:value` and
  `:count` are never gated on `relational`, and ENVELOPE is never gated on
  `envelope`. The model leaves them ungated, as the code does.
- **HASFLAG:** it has no case in `evaltest`. The model follows the code.
- **Address parts:** `get_address` is outside the tree, so only `:all` is
  modelled; `:localpart`, `:domain`, `:user` and `:detail` would need the
  address structure.
- **What a wild pointer points at:** a read through an uninitialised body is
  modelled as a crash, not as whatever array the stack happened to hold.
- **Out of scope:**
  - the comparator registry and the address parser, which are not in the
    tree (equality, a known-name set, and a parsable set stand for them);
  - error texts and formatting;
  - memory ownership (`free_action_list` is not in the tree);
  - two threads parsing at once through the file-static `ret`.
