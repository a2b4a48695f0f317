--------------------------- MODULE NotifyTemplate ---------------------------
(***************************************************************************)
(* fillin_headers and add_header of src/sv_interface/script.c: the text   *)
(* of a NOTIFY message with $from$, $env-from$ and $subject$ replaced by   *)
(* the first line of the header (or envelope field) they name.            *)
(*                                                                         *)
(* One step is one iteration of the while-loop over c.  Text is a sequence   *)
(* of one-character strings.  The buffer is modelled by its contents out,  *)
(* the length the code believes it has (outlen) and its allocation.       *)
(***************************************************************************)
EXTENDS Naturals, Sequences, SequencesExt

CONSTANTS
  Templates,     \* notify->message texts
  Values,        \* the first lines a header may have, or Missing
  Missing,       \* no such header: h or h[0] is NULL
  GrowAmount,    \* GROW_AMOUNT
  HostEnvelope   \* the host registered a getenvelope callback

ASSUME GrowAmount \in Nat \ {0} /\ HostEnvelope \in BOOLEAN

VARIABLES
  tmpl,     \* the template, for the properties
  hdr,      \* the first line of From, the envelope From and Subject
  c,        \* the text not scanned yet
  out,      \* the characters written before the terminating NUL
  outlen,   \* *outlen
  alloc,    \* allocsize
  phase     \* "scan", "done" or "crashed"

vars == <<tmpl, hdr, c, out, outlen, alloc, phase>>

-----------------------------------------------------------------------------
(* The variables, in the order the if / else if chain tries them.  The     *)
(* text is matched with strncasecmp.                                       *)
Fold == ("F" :> "f") @@ ("R" :> "r") @@ ("O" :> "o") @@ ("M" :> "m") @@
        ("S" :> "s") @@ ("E" :> "e")
Lower(ch) == IF ch \in DOMAIN Fold THEN Fold[ch] ELSE ch

Tokens ==
  << [text |-> <<"$", "f", "r", "o", "m", "$">>, field |-> "from"],
     [text |-> <<"$", "e", "n", "v", "-", "f", "r", "o", "m", "$">>, field |-> "envfrom"],
     [text |-> <<"$", "s", "u", "b", "j", "e", "c", "t", "$">>, field |-> "subject"] >>

StartsWith(s, tok) ==
  Len(s) >= Len(tok) /\ \A i \in 1..Len(tok) : Lower(s[i]) = tok[i]

(* The first variable the text starts with, or 0.                          *)
TokenAt(s) == SelectInSeq(Tokens, LAMBDA t : StartsWith(s, t.text))

(* Mutant of PlainLen: strcspn(c, "$"), the opening '$' not skipped.      *)
PlainLenNoSkip(s) ==
  LET k == SelectInSeq(s, LAMBDA ch : ch = "$")
  IN  IF k = 0 THEN Len(s) ELSE k - 1

(* strcspn(c + 1, "$") + 1: the plain text up to the next '$', at least    *)
(* one character.                                                          *)
PlainLen(s) ==
  LET k == SelectInSeq(Tail(s), LAMBDA ch : ch = "$")
  IN  IF k = 0 THEN Len(s) ELSE k

-----------------------------------------------------------------------------
Init ==
  /\ tmpl \in Templates
  /\ hdr \in [{"from", "envfrom", "subject"} -> Values]
  /\ c = tmpl
  /\ out = <<>>
  /\ outlen = 0
  /\ alloc = GrowAmount
  /\ phase = "scan"

(* Mutant of AddHeader: the buffer is never grown for a header value.      *)
AddHeaderNoGrow(v) ==
  /\ out' = out \o v
  /\ outlen' = outlen + Len(v) + 1
  /\ UNCHANGED alloc

(* add_header with a value: grow when outlen + addlen >= outalloc, then    *)
(* strcat.  addlen counts the value's NUL too, so outlen runs ahead of     *)
(* strlen(out) by one for every value added.                               *)
AddHeader(v) ==
  /\ out' = out \o v
  /\ outlen' = outlen + Len(v) + 1
  /\ alloc' = IF outlen + Len(v) + 1 >= alloc THEN outlen + Len(v) + 1 + GrowAmount
              ELSE alloc

(* Mutant of SkipLen: every variable is skipped as if it were "$from$".     *)
SkipLenFrom(t) == 6

(* c += 6, 10 or 9: the length of the variable matched.                    *)
SkipLen(t) == Len(t.text)

(* A variable: add_header, unless there is no such header.  Without a      *)
(* getenvelope callback, message2_getenvelope leaves h as it was, and h is *)
(* an uninitialised local: NULL or a wild pointer.                         *)
Substitute ==
  /\ phase = "scan"
  /\ c # <<>>
  /\ TokenAt(c) # 0
  /\ LET t == Tokens[TokenAt(c)]
         v == hdr[t.field]
     IN  /\ c' = SubSeq(c, SkipLen(t) + 1, Len(c))
         /\ IF t.field = "envfrom" /\ ~HostEnvelope
            THEN \/ UNCHANGED <<out, outlen, alloc, phase>>
                 \/ phase' = "crashed" /\ UNCHANGED <<out, outlen, alloc>>
            ELSE /\ IF v = Missing THEN UNCHANGED <<out, outlen, alloc>> ELSE AddHeader(v)
                 /\ UNCHANGED phase
  /\ UNCHANGED <<tmpl, hdr>>

(* Plain text: grow when outlen + n + 1 >= allocsize, strncat n chars,     *)
(* then out[outlen + n] = NUL.                                             *)
CopyPlain ==
  /\ phase = "scan"
  /\ c # <<>>
  /\ TokenAt(c) = 0
  /\ LET n == PlainLen(c)
     IN  /\ alloc' = IF outlen + n + 1 >= alloc THEN outlen + n + 1 + GrowAmount ELSE alloc
         /\ out' = out \o SubSeq(c, 1, n)
         /\ outlen' = outlen + n
         /\ c' = SubSeq(c, n + 1, Len(c))
  /\ UNCHANGED <<tmpl, hdr, phase>>

Done ==
  /\ phase = "scan"
  /\ c = <<>>
  /\ phase' = "done"
  /\ UNCHANGED <<tmpl, hdr, c, out, outlen, alloc>>

Next == Substitute \/ CopyPlain \/ Done

Spec == Init /\ [][Next]_vars /\ WF_vars(Next)

-----------------------------------------------------------------------------
(* Properties.                                                             *)

(* Spec section 4.6: the text with every variable (case aside) replaced by *)
(* the first line of its field, or nothing when the field is missing, and  *)
(* everything else copied as it stands.                                    *)
RECURSIVE Render(_)
Render(s) ==
  IF s = <<>> THEN <<>>
  ELSE IF TokenAt(s) = 0 THEN <<Head(s)>> \o Render(Tail(s))
  ELSE LET t == Tokens[TokenAt(s)]
           v == IF hdr[t.field] = Missing THEN <<>> ELSE hdr[t.field]
       IN  v \o Render(SubSeq(s, Len(t.text) + 1, Len(s)))

(* fillin_headers produces the rendering of its template.                 *)
OutputIsRendering == phase = "done" => out = Render(tmpl)

(* Every terminating NUL the code writes falls inside the buffer: strcat's *)
(* and strncat's after the text, and the explicit one at out[outlen].      *)
WritesInBounds == Len(out) < alloc /\ outlen < alloc

(* The scan loop ends: every iteration consumes some of the text.    *)
Terminates == <>(phase # "scan")

(* Spec section 4.6: a missing field renders as nothing; reading it never  *)
(* brings the host down.                                                   *)
NoCrash == phase # "crashed"

=============================================================================
