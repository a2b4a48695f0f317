------------------------------ MODULE MCSieveLR ------------------------------
(***************************************************************************)
(* Model-checking instance of SieveLR: scripts as the lexer returns them,  *)
(* built from requires and commands that reach every kind of failing      *)
(* action, inside blocks, anyof, not and elsif, and a few broken ones.     *)
(***************************************************************************)
EXTENDS SieveLR

(* The lexer's codes: 255 + the symbol number for the named tokens, the    *)
(* character itself for punctuation.                                       *)
tNUMBER == 258   tSTRING == 259   tIF == 260       tELSIF == 261
tELSE == 262     tREJCT == 263    tFILEINTO == 264 tREDIRECT == 265
tKEEP == 266     tSTOP == 267     tDISCARD == 268  tVACATION == 269
tREQUIRE == 270  tSETFLAG == 271  tFLAGS == 276    tHASFLAG == 277
tNOTIFY == 278   tANYOF == 281    tEXISTS == 283   tHEADER == 286
tNOT == 287      tSIZE == 288     tADDRESS == 289  tENVELOPE == 290
tCOMPARATOR == 291 tREGEX == 295  tOVER == 296     tALL == 300
tUSER == 303     tDAYS == 305     tMETHOD == 311   tLOW == 314
SEMI == 59  LBRACK == 91  RBRACK == 93  COMMA == 44
LBRACE == 123  RBRACE == 125  LPAREN == 40  RPAREN == 41

Requires ==
  { <<>>, <<tREQUIRE, tSTRING, SEMI>>,
    <<tREQUIRE, LBRACK, tSTRING, COMMA, tSTRING, RBRACK, SEMI>> }

Commands ==
  { <<tKEEP, SEMI>>,
    <<tREJCT, tSTRING, SEMI>>,
    <<tFILEINTO, tFLAGS, tSTRING, tSTRING, SEMI>>,
    <<tVACATION, tDAYS, tNUMBER, tDAYS, tNUMBER, tSTRING, SEMI>>,
    <<tNOTIFY, tMETHOD, tSTRING, tLOW, SEMI>>,
    <<tIF, tHEADER, tCOMPARATOR, tSTRING, tSTRING, tSTRING, LBRACE, tKEEP, SEMI, RBRACE>>,
    <<tIF, tANYOF, LPAREN, tEXISTS, tSTRING, COMMA, tADDRESS, tUSER, tSTRING, tSTRING,
      RPAREN, LBRACE, tDISCARD, SEMI, RBRACE, tELSE, LBRACE, tSTOP, SEMI, RBRACE>>,
    <<tIF, tNOT, tSIZE, tOVER, tNUMBER, LBRACE, tSETFLAG, tSTRING, SEMI, RBRACE,
      tELSIF, tHASFLAG, tCOMPARATOR, tSTRING, tSTRING, LBRACE, RBRACE>>,
    <<tIF, tENVELOPE, tREGEX, tALL, tSTRING, tSTRING, LBRACE, tREDIRECT, tSTRING, SEMI, RBRACE>> }

(* A missing ';' at the end, a stray '}', and a require after a command.   *)
MCMalformed ==
  { <<tKEEP>>, <<tKEEP, RBRACE, SEMI>>,
    <<tKEEP, SEMI, tREQUIRE, tSTRING, SEMI>> }

MCInputs ==
  {r \o c : r \in Requires, c \in Commands}
  \cup {r \o c1 \o c2 : r \in Requires \ {<<>>}, c1 \in Commands, c2 \in Commands}
  \cup MCMalformed

=============================================================================
