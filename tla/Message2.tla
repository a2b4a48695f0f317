------------------------------ MODULE Message2 ------------------------------
(***************************************************************************)
(* The Sieve 2 message structure of src/sv_interface/message2.c: the      *)
(* header cache libsieve_message2_headercache fills from the parsed header *)
(* list, the hash it probes with, and the lookup libsieve_message2_-      *)
(* getheader does on it.                                                   *)
(*                                                                         *)
(* A header name is a sequence of byte values (0..255).  A bucket is a     *)
(* header_t: the name, the values stored so far (contents[0..count-1]),    *)
(* space as the code counts it, and cap, the slots contents really has.    *)
(* The header parser (not in the source tree) hands over each header_t     *)
(* with one value; its space is ParserSpace and, charitably, its array has *)
(* one more slot for the terminator.                                       *)
(***************************************************************************)
EXTENDS Integers, Sequences, SequencesExt

CONSTANTS
  HashSize,     \* m->hashsize
  ParserSpace,  \* the space of a header_t fresh from the header parser
  SignedChar,   \* whether plain char is signed in this build
  Inputs        \* the parsed header lists (name, value) a message may have

ASSUME HashSize \in Nat \ {0} /\ ParserSpace \in Nat \ {0} /\ SignedChar \in BOOLEAN

Slots == 0..(HashSize - 1)
Empty == [name |-> <<>>, vals |-> <<>>, space |-> 0, cap |-> 0]

VARIABLES
  input,   \* m->header as parsed: the whole list, for the properties
  hl,      \* the header_list_t not cached yet
  hash,    \* m->hash
  phase    \* "parse", "caching", "cached" (hashfull = 1), "failed", "crashed"

vars == <<input, hl, hash, phase>>

-----------------------------------------------------------------------------
(* A char as the build reads it, and C's remainder, which keeps the sign   *)
(* of the dividend.                                                        *)
CharVal(b) == IF SignedChar /\ b > 127 THEN b - 256 ELSE b
CRem(a, n) == IF a >= 0 THEN a % n ELSE -((-a) % n)

(* The loop stops at a control character, ' ' or ':'.  iscntrl of a       *)
(* negative char is taken as false, as glibc's table answers.              *)
StopsHash(b) == b < 32 \/ b = 127 \/ b = 32 \/ b = 58

(* libsieve_message2_hashheader: x = (x * 256 + *header) % hashsize over   *)
(* the name up to the first stop character.                                *)
HashHeader(name) ==
  LET n == SelectInSeq(name, StopsHash)
      key == IF n = 0 THEN name ELSE SubSeq(name, 1, n - 1)
  IN  FoldLeft(LAMBDA x, b : CRem(x * 256 + CharVal(b), HashSize), 0, key)

(* libsieve_strtolower, which getheader applies to the name it is asked.   *)
ToLower(name) == [i \in DOMAIN name |-> IF name[i] \in 65..90 THEN name[i] + 32 ELSE name[i]]

(* Mutant of Probe: a taken slot is skipped even when it holds the name.  *)
ProbeIgnoresName(h, name, cl) ==
  LET RECURSIVE Go(_)
      Go(c) == IF h[c] = Empty THEN c
               ELSE IF (c + 1) % HashSize = cl THEN (c + 1) % HashSize
               ELSE Go((c + 1) % HashSize)
  IN  Go(cl)

(* The probe both functions do: from the hash slot, step on while the slot *)
(* is taken by another name, and give up where it started.                 *)
Probe(h, name, cl) ==
  LET RECURSIVE Go(_)
      Go(c) == IF h[c] = Empty \/ h[c].name = name THEN c
               ELSE IF (c + 1) % HashSize = cl THEN (c + 1) % HashSize
               ELSE Go((c + 1) % HashSize)
  IN  Go(cl)

(* libsieve_message2_getheader: SIEVE2_OK with the value list under the    *)
(* lowered name, or a failure with body NULL.  A negative hash indexes     *)
(* before m->hash: "CRASH".                                                *)
GetHeader(h, chead) ==
  LET head == ToLower(chead)
      cl   == HashHeader(head)
      c    == Probe(h, head, cl)
  IN  CASE cl < 0 -> [res |-> "CRASH", body |-> <<>>]
        [] h[c] # Empty /\ h[c].name = head -> [res |-> "OK", body |-> h[c].vals]
        [] OTHER -> [res |-> "FAIL", body |-> <<>>]

-----------------------------------------------------------------------------
Init ==
  /\ input \in Inputs
  /\ hl = <<>>
  /\ hash = [c \in Slots |-> Empty]
  /\ phase = "parse"

(* libsieve_header_parse_buffer returns NULL for a header with no fields: *)
(* headercache returns SIEVE2_ERROR_EXEC.                                  *)
Parse ==
  /\ phase = "parse"
  /\ hl' = input
  /\ phase' = IF input = <<>> THEN "failed" ELSE "caching"
  /\ UNCHANGED <<input, hash>>

(* Add to an occupied bucket: contents[count++] = value, then              *)
(* contents[count] = NULL.  A full bucket is first grown by 8 slots.       *)
StoreValue(b, v) ==
  IF Len(b.vals) < b.space
  THEN [b EXCEPT !.vals = Append(@, v)]
  ELSE [b EXCEPT !.vals = Append(@, v), !.space = @ + 8, !.cap = b.space + 8]

(* One iteration of the while (hl != NULL) loop.  size_t c makes a         *)
(* negative hash an index far past the table.                              *)
CacheHeader ==
  /\ phase = "caching"
  /\ hl # <<>>
  /\ LET h  == Head(hl)
         cl == HashHeader(h.name)
         c  == Probe(hash, h.name, cl)
     IN  CASE cl < 0 -> phase' = "crashed" /\ UNCHANGED <<hash, hl>>
           [] hash[c] # Empty /\ Len(hash[c].vals) >= hash[c].space ->
                \/ hash' = [hash EXCEPT ![c] = StoreValue(@, h.val)]
                   /\ hl' = Tail(hl) /\ UNCHANGED phase
                \/ phase' = "failed" /\ UNCHANGED <<hash, hl>>   \* realloc NULL
           [] hash[c] # Empty ->
                /\ hash' = [hash EXCEPT ![c] = StoreValue(@, h.val)]
                /\ hl' = Tail(hl) /\ UNCHANGED phase
           [] OTHER ->
                /\ hash' = [hash EXCEPT ![c] = [name |-> h.name, vals |-> <<h.val>>,
                                                space |-> ParserSpace,
                                                cap |-> ParserSpace + 1]]
                /\ hl' = Tail(hl) /\ UNCHANGED phase
  /\ UNCHANGED input

(* The list is used up: m->hashfull = 1.                                   *)
CacheDone ==
  /\ phase = "caching"
  /\ hl = <<>>
  /\ phase' = "cached"
  /\ UNCHANGED <<input, hl, hash>>

Next == Parse \/ CacheHeader \/ CacheDone

Spec == Init /\ [][Next]_vars /\ WF_vars(Next)

-----------------------------------------------------------------------------
(* Properties.                                                             *)

(* The names of the message's headers, and their values in message order. *)
Names == {input[i].name : i \in DOMAIN input}
ValuesOf(n) == [i \in 1..Len(SelectSeq(input, LAMBDA e : e.name = n)) |->
                  SelectSeq(input, LAMBDA e : e.name = n)[i].val]

(* A name with its first letter upper-cased, as a script may ask for it.   *)
Capitalised(n) == [n EXCEPT ![1] = IF @ \in 97..122 THEN @ - 32 ELSE @]

(* Once the cache is full (hashfull), getheader returns for every header   *)
(* name of the message, in any letter case, exactly its values in order:   *)
(* the probing of headercache and getheader must agree however the names   *)
(* collide.                                                                *)
CacheFaithful ==
  phase = "cached" =>
    \A n \in Names :
      \A q \in {n, Capitalised(n)} : GetHeader(hash, q) = [res |-> "OK", body |-> ValuesOf(n)]

(* contents[count] = NULL, written after every store, is inside the array  *)
(* headercache allocated.                                                  *)
TerminatorInBounds ==
  \A c \in Slots : hash[c] # Empty => Len(hash[c].vals) < hash[c].cap

=============================================================================
