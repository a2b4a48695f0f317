---------------------------- MODULE MCSieveParse ----------------------------
(***************************************************************************)
(* Scripts for SieveParse: every action and test of the grammar once, with *)
(* and without the require it needs, with a duplicate tag, a bad address,  *)
(* header name or regex and an unknown comparator; some nested in IF,      *)
(* ELSIF, NOT and ANYOF, some followed by a command that must survive the  *)
(* error before it.  The host supports fileinto, vacation, subaddress and  *)
(* envelope, not reject or notify.                                         *)
(***************************************************************************)
EXTENDS SieveParse

MCSupport     == {"fileinto", "vacation", "subaddress", "envelope"}
MCComparators == {"i;ascii-casemap", "i;octet"}
MCBadAddrs    == {"bad@"}

(* Header names as bytes: "s", "from", the ftext bounds "!9;~", names      *)
(* holding a colon, a space or DEL, and the empty name.                    *)
Subj   == <<115>>
From   == <<102, 114, 111, 109>>
Bounds == <<33, 57, 59, 126>>
Colon  == <<115, 58>>
Space  == <<32>>
Del    == <<127>>
Empty  == <<>>
MCBadRegexes  == {"(("}

Tag(k, v)         == [k |-> k, v |-> v]
Tagged(type, tgs) == [Command(type) EXCEPT !.tags = tgs]
Flagged(type)     == [Command(type) EXCEPT !.flags = TRUE]
Redirect(a)       == [Command("REDIRECT") EXCEPT !.arg = a]
If(t, th, el)     == [Command("IF") EXCEPT !.test = t, !.then = th, !.else = el]
Header(tgs, n, q) == [Test("HEADER") EXCEPT !.tags = tgs, !.names = <<n>>, !.pats = <<q>>]
Address(type, tgs) == [Test(type) EXCEPT !.tags = tgs, !.names = <<From>>, !.pats = <<"x">>]
Of(type, ks)      == [Test(type) EXCEPT !.kids = ks]

Actions ==
  { Command("REJECT"), Command("KEEP"), Flagged("KEEP"), Command("FILEINTO"),
    Flagged("FILEINTO"), Redirect("a@b"), Redirect("bad@"), Command("STOP"),
    Command("DISCARD"), Tagged("VACATION", <<>>),
    Tagged("VACATION", <<Tag("days", "3"), Tag("mime", "MIME")>>),
    Tagged("VACATION", <<Tag("days", "3"), Tag("days", "4")>>),
    Tagged("VACATION", <<Tag("addresses", "bad@")>>),
    Command("SETFLAG"), Command("ADDFLAG"), Command("REMOVEFLAG"),
    Tagged("NOTIFY", <<Tag("priority", "low")>>), Command("VALIDNOTIF") }

Unknown == Header(<<Tag("comparator", "x-unknown")>>, Subj, "x")

Tests ==
  { Test("TRUE"), Header(<<>>, Subj, "x"),
    Header(<<Tag("comparator", "i;octet")>>, Subj, "x"), Unknown,
    Header(<<Tag("comptag", "REGEX")>>, Subj, "a.*"),
    Header(<<Tag("comptag", "REGEX")>>, Subj, "(("),
    Header(<<Tag("comptag", "IS"), Tag("comptag", "CONTAINS")>>, Subj, "x"),
    Header(<<Tag("comparator", "i;octet"), Tag("comparator", "i;octet")>>, Subj, "x"),
    Header(<<>>, Colon, "x"), Header(<<>>, Space, "x"), Header(<<>>, Del, "x"),
    Header(<<>>, Bounds, "x"), Header(<<>>, Empty, "x"),
    Address("ADDRESS", <<Tag("addrpart", "USER")>>),
    Address("ADDRESS", <<Tag("addrpart", "ALL"), Tag("addrpart", "DOMAIN")>>),
    Address("ENVELOPE", <<Tag("comparator", "x-unknown")>>),
    [Test("HASFLAG") EXCEPT !.tags = <<Tag("comptag", "IS"), Tag("comptag", "CONTAINS")>>],
    Of("NOT", <<Unknown>>), Of("ANYOF", <<Test("TRUE"), Header(<<>>, Colon, "x")>>) }

CmdLists ==
  {<<a>> : a \in Actions} \cup {<<If(t, <<Command("KEEP")>>, <<>>)>> : t \in Tests} \cup
  { <<Redirect("bad@"), Command("KEEP")>>,
    <<If(Test("FALSE"), <<Tagged("VACATION", <<>>)>>,
         <<If(Address("ADDRESS", <<Tag("addrpart", "DETAIL")>>), <<Command("DISCARD")>>,
              <<Flagged("FILEINTO")>>)>>)>> }

ReqLists ==
  { <<>>, <<<<"fileinto", "imap4flags">>>>, <<<<"reject">>, <<"vacation", "regex">>>>,
    <<<<"subaddress", "notify">>>>, <<<<"foo">>, <<"notify">>>>,
    <<<<"imap4flags", "regex">>, <<"subaddress", "vacation", "comparator-i;octet">>>> }

MCScripts ==
  {[reqs |-> r, cmds |-> c] : r \in ReqLists, c \in CmdLists} \cup
  {[reqs |-> <<<<"fileinto">>>>, cmds |-> <<>>], [reqs |-> <<>>, cmds |-> <<>>]}

=============================================================================
