------------------------------- MODULE SieveLR -------------------------------
(***************************************************************************)
(* The LR driver of yyparse in src/sv_parser/sieve.c (bison 2.3's yacc.c  *)
(* skeleton) over the parser tables generated from sieve.y: shift, reduce, *)
(* the goto after a reduction, and the error recovery of yyerrlab,         *)
(* yyerrorlab and yyerrlab1.                                                *)
(*                                                                         *)
(* The input is the token sequence the lexer returns.  A semantic action   *)
(* is abstracted to whether it ends in YYERROR: the rules whose action has *)
(* a check that may (Failing) do so or not, nondeterministically; every    *)
(* other action only builds a value.  The tables are those of sieve.c,     *)
(* as C arrays indexed from 0.                                             *)
(***************************************************************************)
EXTENDS Integers, Sequences, TLC

CONSTANTS
  Inputs,       \* the token sequences the lexer may return
  Malformed     \* those of them that are not sentences of the grammar

ASSUME Malformed \subseteq Inputs

(* A C array: index 0 is the first element.                                *)
Table(s) == [i \in 0..(Len(s) - 1) |-> s[i + 1]]

YYFINAL      == 8
YYLAST       == 176
YYNTOKENS    == 71
YYPACT_NINF  == -104
YYTABLE_NINF == -8
YYTERROR     == 1
YYEOF        == 0
YYEMPTY      == -2

(* YYTRANSLATE: the characters the grammar uses, the token codes 258-317   *)
(* (NUMBER ... MESSAGE, symbols 3-62) and YYUNDEFTOK (2) for the rest.     *)
CharSymbol == (40 :> 69) @@ (41 :> 70) @@ (44 :> 66) @@ (59 :> 63) @@
              (91 :> 64) @@ (93 :> 65) @@ (123 :> 67) @@ (125 :> 68)
YYTRANSLATE(x) ==
  CASE x = 0                -> 0
    [] x = 256              -> 1
    [] x \in 258..317       -> x - 255
    [] x \in DOMAIN CharSymbol -> CharSymbol[x]
    [] OTHER                -> 2

(* The tables of sieve.c: yypact, yydefact, yytable, yycheck (the action  *)
(* of a state on a look-ahead), yyr1 and yyr2 (a rule's left-hand symbol   *)
(* and length), yypgoto and yydefgoto (the state after a reduction).       *)
yypact == Table(<<
    36,   26,   14,  145,   28, -104,   44,  -11, -104,   -8,  110,   52,    4,   53,   37,
  -104, -104, -104,   26,   26,   26, -104,   26, -104,   10,   -2, -104,   -4,   15, -104,
  -104, -104, -104,   -6,   -6,   26, -104, -104, -104,  110,  -29, -104, -104,   12, -104,
  -104, -104,   26, -104,   26,   42, -104, -104, -104,  114, -104, -104, -104,   44, -104,
     1,  110, -104, -104, -104,   85, -104, -104, -104,   78,   59,   43,   70,   80, -104,
  -104,   83,   26,   84, -104,   87,   94,   96,   98,   26, -104, -104, -104,   99, -104,
  -104,  100, -104, -104, -104, -104,  101,  108, -104, -104,   21,   50,  122,   26, -104,
  -104, -104,   62,  110,   12, -104,  127, -104, -104, -104, -104, -104,   26, -104, -104,
  -104, -104, -104, -104, -104, -104, -104, -104, -104, -104, -104, -104, -104,  110, -104,
  -104, -104, -104,   12, -104, -104, -104, -104,   43, -104 >>)
yydefact == Table(<<
     4,    0,    0,    0,    4,   49,    0,    0,    1,    0,    0,    0,    0,    0,   17,
    21,   22,   41,    0,    0,    0,   29,    0,    3,    0,    0,    5,   50,    0,    6,
    11,   64,   35,    0,    0,    0,   57,   58,   71,    0,    0,   65,   66,    0,   67,
    15,   19,    0,   20,    0,    0,   24,   25,   26,   27,   28,    8,    9,    0,   48,
     0,    0,   54,   55,   56,    0,   62,   85,   86,    0,    0,   12,    0,    0,   16,
    23,    0,    0,    0,   47,    0,    0,    0,    0,    0,   38,   39,   40,    0,   33,
    51,    0,   79,   82,   83,   84,    0,    0,   59,   36,   88,    0,    0,    0,   72,
    63,   53,    0,    0,    0,   10,    0,   74,   75,   76,   77,   78,    0,   68,   69,
    18,   42,   43,   44,   46,   45,   31,   30,   32,   34,   37,   81,   80,    0,   87,
    73,   60,   52,    0,   14,   70,   61,   89,   12,   13 >>)
yytable == Table(<<
    51,   52,   53,   43,   55,    5,  139,   56,   46,  104,   -7,    9,   67,   68,    8,
    10,  119,   64,   11,   12,   13,   14,   15,   16,   17,   47,   18,   19,   20,   73,
     5,   74,   66,   21,   22,  143,   -2,   91,   92,   93,   94,   95,   98,    1,   96,
    97,   75,  103,   27,  108,  109,    1,   29,  107,  117,   30,   45,   48,   49,  122,
     9,   57,   58,   61,   10,    6,  128,   11,   12,   13,   14,   15,   16,   17,    5,
    18,   19,   20,   -7,   70,   59,  105,   21,   22,  120,  136,  121,  133,  123,    5,
     6,  124,   76,   77,   78,   79,   80,   81,  125,  141,  126,  138,  127,  129,  130,
   131,  111,   92,   93,   94,   95,   31,  132,   96,   97,  112,  113,  114,  115,  116,
   134,  102,   92,   93,   94,   95,  135,  106,   96,   97,  137,  140,   32,   26,    6,
    90,   33,   34,   35,   36,   37,   38,   39,   40,   41,   42,    9,   63,  144,    6,
    10,  142,    0,   11,   12,   13,   14,   15,   16,   17,    0,   18,   19,   20,    0,
     0,    0,    0,   21,   22,   82,   83,   84,   85,   86,   87,   88 >>)
yycheck == Table(<<
    18,   19,   20,   10,   22,    4,  109,   24,    4,   65,    0,    1,   41,   42,    0,
     5,   72,   35,    8,    9,   10,   11,   12,   13,   14,   21,   16,   17,   18,   47,
     4,   49,   39,   23,   24,  138,    0,   36,   37,   38,   39,   40,   60,   15,   43,
    44,    4,   65,    4,    6,    7,   15,   63,   70,   72,   63,    4,    4,   21,   77,
     1,   63,   66,   69,    5,   64,   84,    8,    9,   10,   11,   12,   13,   14,    4,
    16,   17,   18,   68,   67,   65,    3,   23,   24,    4,  103,    3,   66,    4,    4,
    64,    4,   50,   51,   52,   53,   54,   55,    4,  117,    4,  108,    4,    4,    4,
     4,   36,   37,   38,   39,   40,    1,    4,   43,   44,   45,   46,   47,   48,   49,
    70,   36,   37,   38,   39,   40,    4,   68,   43,   44,   68,    4,   22,    4,   64,
    58,   26,   27,   28,   29,   30,   31,   32,   33,   34,   35,    1,   34,  143,   64,
     5,  133,   -1,    8,    9,   10,   11,   12,   13,   14,   -1,   16,   17,   18,   -1,
    -1,   -1,   -1,   23,   24,   56,   57,   58,   59,   60,   61,   62 >>)
yyr1 == Table(<<
     0,   71,   72,   72,   73,   73,   74,   75,   75,   76,   76,   76,   77,   77,   77,
    78,   78,   78,   78,   78,   78,   78,   78,   78,   78,   78,   78,   78,   78,   79,
    79,   79,   79,   79,   79,   80,   80,   80,   81,   81,   81,   82,   82,   82,   82,
    82,   82,   82,   83,   83,   84,   84,   85,   85,   86,   86,   86,   86,   86,   86,
    86,   86,   86,   86,   86,   87,   87,   88,   88,   88,   88,   89,   89,   89,   90,
    90,   90,   90,   90,   91,   91,   91,   91,   91,   91,   92,   92,   93,   94,   94 >>)
yyr2 == Table(<<
     0,    2,    0,    2,    0,    2,    3,    1,    2,    2,    4,    2,    0,    4,    2,
     2,    3,    1,    4,    2,    2,    1,    1,    3,    2,    2,    2,    2,    2,    0,
     3,    3,    3,    2,    3,    0,    2,    3,    1,    1,    1,    0,    3,    3,    3,
     3,    3,    2,    3,    1,    1,    3,    3,    2,    2,    2,    2,    1,    1,    3,
     4,    4,    2,    3,    1,    1,    1,    0,    2,    2,    3,    0,    2,    3,    1,
     1,    1,    1,    1,    1,    2,    2,    1,    1,    1,    1,    1,    3,    1,    3 >>)
yypgoto == Table(<<
  -104, -104,  129, -104,  -17, -104,    5, -104, -104, -104, -104, -104,  -18,   77, -103,
    -7, -104, -104, -104, -104,  -56, -104,  113,   18 >>)
yydefgoto == Table(<<
    -1,    2,    3,    4,   23,   24,  110,   25,   54,   60,   89,   50,    7,   28,   71,
   100,   44,   72,   65,  118,   99,   69,   62,  101 >>)

(* The rules whose action may end in YYERROR (cases 6, 15-28, 30-34, 37,   *)
(* 42-47, 59-61, 68-70, 72, 73, 77, 78, 84 of the switch).                 *)
Failing == {6} \cup (15..28) \cup (30..34) \cup {37} \cup (42..47) \cup (59..61)
           \cup (68..70) \cup {72, 73, 77, 78, 84}

(* The nonterminals a failing action belongs to: a command's (action,      *)
(* ntags, vtags), a test's (hftags, test, aetags, htags, addrparttag,      *)
(* comptag), or a require.                                                 *)
CommandPart == {78, 79, 82}
TestPart    == {80, 86, 88, 89, 90, 91}

(* The rule SieveParse takes the place of a failed construct to be: the    *)
(* STOP of "command: error ';'" (rule 11), the NULL of "test: error" (rule *)
(* 64); none for a require.                                                *)
Recovery(r) ==
  CASE yyr1[r] \in CommandPart -> 11
    [] yyr1[r] \in TestPart    -> 64
    [] OTHER                   -> 0

VARIABLES
  script,     \* the whole token sequence, for the properties
  input,      \* the tokens the lexer has not returned yet
  yychar,     \* the look-ahead: a token, YYEOF or YYEMPTY
  yyss,       \* the state stack; its top is yystate
  yyerrstatus,
  yynerrs,    \* the syntax errors reported through yyerror
  yyn,        \* the rule yyreduce is about to reduce
  label,      \* the label control is at: "backup", "reduce", "errlab",
              \* "errlab1", "accept" or "abort"
  expect      \* ghost: the rule SieveParse expects to be reduced next, 0 for
              \* none, -1 (abort) after a failed require

vars == <<script, input, yychar, yyss, yyerrstatus, yynerrs, yyn, label, expect>>

yystate == yyss[Len(yyss)]
Pop(n) == SubSeq(yyss, 1, Len(yyss) - n)

Init ==
  /\ script \in Inputs
  /\ input = script
  /\ yychar = YYEMPTY
  /\ yyss = <<0>>
  /\ yyerrstatus = 0
  /\ yynerrs = 0
  /\ yyn = 0
  /\ label = "backup"
  /\ expect = 0

-----------------------------------------------------------------------------
(* yylex when a look-ahead is needed: the next token, 0 at the end.        *)
Lex == IF input = <<>> THEN 0 ELSE Head(input)
LookAhead == IF yychar = YYEMPTY THEN Lex ELSE yychar
Consumed == IF yychar = YYEMPTY /\ input # <<>> THEN Tail(input) ELSE input

(* yydefault: reduce by yydefact[yystate], or report an error.            *)
Default ==
  IF yydefact[yystate] = 0 THEN label' = "errlab" /\ UNCHANGED yyn
  ELSE label' = "reduce" /\ yyn' = yydefact[yystate]

(* Mutant of CountDown: the test of yyerrstatus left out.                 *)
CountDownUnguarded(n) == n - 1

(* A shift counts down the tokens left before errors are reported again. *)
CountDown(n) == IF n > 0 THEN n - 1 ELSE 0

(* yybackup: with yypact[yystate] + yytoken checked against yycheck, the   *)
(* table says shift, reduce or error; outside it the default applies.      *)
(* yychar <= YYEOF makes the look-ahead YYEOF.                             *)
Backup ==
  /\ label = "backup"
  /\ IF yypact[yystate] = YYPACT_NINF
     THEN Default /\ UNCHANGED <<script, input, yychar, yyss, yyerrstatus>>
     ELSE LET ch  == IF LookAhead <= YYEOF THEN YYEOF ELSE LookAhead
              tok == IF ch = YYEOF THEN YYEOF ELSE YYTRANSLATE(ch)
              k   == yypact[yystate] + tok
          IN  /\ input' = Consumed
              /\ IF k < 0 \/ YYLAST < k \/ yycheck[k] # tok
                 THEN Default /\ yychar' = ch /\ UNCHANGED <<yyss, yyerrstatus>>
                 ELSE LET t == yytable[k] IN
                      CASE t = 0 \/ t = YYTABLE_NINF ->
                             label' = "errlab" /\ yychar' = ch
                             /\ UNCHANGED <<yyss, yyerrstatus, yyn>>
                        [] t < 0 ->
                             label' = "reduce" /\ yyn' = -t /\ yychar' = ch
                             /\ UNCHANGED <<yyss, yyerrstatus>>
                        [] t = YYFINAL ->
                             label' = "accept" /\ yychar' = ch
                             /\ UNCHANGED <<yyss, yyerrstatus, yyn>>
                        [] OTHER ->
                             /\ yyerrstatus' = CountDown(yyerrstatus)
                             /\ yychar' = IF ch = YYEOF THEN YYEOF ELSE YYEMPTY
                             /\ yyss' = Append(yyss, t)
                             /\ UNCHANGED <<label, yyn>>
  /\ UNCHANGED <<script, yynerrs, expect>>

(* Mutant of Goto: the yycheck test of the yypgoto entry left out.         *)
GotoUnchecked(lhs, below) ==
  LET g == yypgoto[lhs - YYNTOKENS] + below
  IN  IF 0 <= g /\ g <= YYLAST THEN yytable[g] ELSE yydefgoto[lhs - YYNTOKENS]

(* The state a reduction to lhs goes to from the state below it.          *)
Goto(lhs, below) ==
  LET g == yypgoto[lhs - YYNTOKENS] + below
  IN  IF 0 <= g /\ g <= YYLAST /\ yycheck[g] = below THEN yytable[g]
      ELSE yydefgoto[lhs - YYNTOKENS]

(* yyreduce: the action, then YYPOPSTACK(yylen) and the goto.  An action   *)
(* that ends in YYERROR goes to yyerrorlab, which pops the rule's symbols  *)
(* and continues at yyerrlab1.                                             *)
Reduce ==
  /\ label = "reduce"
  /\ LET rest == Pop(yyr2[yyn]) IN
     \/ /\ yyss' = Append(rest, Goto(yyr1[yyn], rest[Len(rest)]))
        /\ label' = "backup"
        /\ expect' = 0
     \/ /\ yyn \in Failing
        /\ yyss' = rest
        /\ label' = "errlab1"
        /\ expect' = IF Recovery(yyn) = 0 THEN -1 ELSE Recovery(yyn)
  /\ UNCHANGED <<script, input, yychar, yyerrstatus, yynerrs, yyn>>

(* Mutant of ErrLab: a look-ahead at the end of input is never given up.  *)
ErrLabKeepsEof ==
  /\ label = "errlab"
  /\ yynerrs' = IF yyerrstatus = 0 THEN yynerrs + 1 ELSE yynerrs
  /\ yychar' = IF yyerrstatus = 3 /\ yychar > YYEOF THEN YYEMPTY ELSE yychar
  /\ label' = "errlab1"
  /\ UNCHANGED <<script, input, yyss, yyerrstatus, yyn, expect>>

(* yyerrlab: report through yyerror unless recovering; three tokens after  *)
(* an error, a look-ahead that fails again is discarded, and at the end of *)
(* input the parse aborts.                                                 *)
ErrLab ==
  /\ label = "errlab"
  /\ yynerrs' = IF yyerrstatus = 0 THEN yynerrs + 1 ELSE yynerrs
  /\ IF yyerrstatus = 3 /\ yychar = YYEOF
     THEN label' = "abort" /\ UNCHANGED yychar
     ELSE /\ yychar' = IF yyerrstatus = 3 /\ yychar > YYEOF THEN YYEMPTY ELSE yychar
          /\ label' = "errlab1"
  /\ UNCHANGED <<script, input, yyss, yyerrstatus, yyn, expect>>

(* One iteration of the for loop of yyerrlab1: shift the error token if    *)
(* yystate has an action on it, else pop yystate, aborting at the bottom.  *)
ErrLab1 ==
  /\ label = "errlab1"
  /\ yyerrstatus' = 3
  /\ LET k == yypact[yystate] + YYTERROR
          shifts == yypact[yystate] # YYPACT_NINF /\ 0 <= k /\ k <= YYLAST
                    /\ yycheck[k] = YYTERROR /\ yytable[k] > 0
     IN  CASE shifts /\ yytable[k] = YYFINAL -> label' = "accept" /\ UNCHANGED yyss
           [] shifts -> yyss' = Append(yyss, yytable[k]) /\ label' = "backup"
           [] Len(yyss) = 1 -> label' = "abort" /\ UNCHANGED yyss
           [] OTHER -> yyss' = Pop(1) /\ UNCHANGED label
  /\ UNCHANGED <<script, input, yychar, yynerrs, yyn, expect>>

Next == Backup \/ Reduce \/ ErrLab \/ ErrLab1

(* yyparse runs to its return once called.                                 *)
Spec == Init /\ [][Next]_vars /\ WF_vars(Next)

-----------------------------------------------------------------------------
(* Properties.                                                             *)

TypeOK ==
  /\ \A i \in DOMAIN yyss : yyss[i] \in 0..144
  /\ yyerrstatus \in 0..3
  /\ label \in {"backup", "reduce", "errlab", "errlab1", "accept", "abort"}
  /\ yyn \in 0..89

(* The error recovery SieveParse assumes, on the real tables: after an     *)
(* action of a command or of a test ends in YYERROR, the very next rule    *)
(* reduced is "command: error ';'" or "test: error" respectively, so the   *)
(* construct becomes STOP or NULL and the constructs around it are built   *)
(* as usual; after a require's, nothing is reduced and yyparse aborts.  A  *)
(* well-formed script is only ever aborted by a failed require.           *)
RecoveryAsAbstracted ==
  /\ [][label = "reduce" /\ label' = "backup" => expect \in {0, yyn}]_vars
  /\ [](label = "abort" /\ script \notin Malformed => expect = -1)

(* yyparse returns: error recovery discards tokens or pops states, and     *)
(* gives up at the end of input or the bottom of the stack.                *)
Terminates == <>(label \in {"accept", "abort"})

=============================================================================
