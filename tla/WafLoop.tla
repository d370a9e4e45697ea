------------------------------ MODULE WafLoop ------------------------------
(***************************************************************************)
(* How the operators close gaps in the web ACL during a contest:           *)
(*                                                                         *)
(*   tuning/waf_header_stats.py asks the web ACL's log for the headers of  *)
(*   the last hour's requests, with one query per position of a header,    *)
(*   and prints what passed that should not have;                          *)
(*   the page "WAF analysis" of tools/dashboard.py takes the printed rows  *)
(*   and answers with rules for terraform/waf.tf, or "nothing to block";   *)
(*   the operators apply the rules and start again.                        *)
(*                                                                         *)
(* A header's value is a sequence of words; commas and quotes are words of *)
(* their own.  Clients keep sending the same kinds of requests.  How often *)
(* is left out: where the most frequent rows are kept, any may be.  The    *)
(* managed rule groups, which never change, are left out too.              *)
(***************************************************************************)
EXTENDS Naturals, Sequences, FiniteSets

CONSTANTS
    Request,     \* the kinds of requests: [path, headers], headers a sequence of [name, value]
    MaxIndex,    \* --max-index: the last position of a header that is asked for
    Limit,       \* --limit: a query returns at most so many rows
    Top,         \* --top: the printed table has at most so many rows
    ShownWords   \* so many words of a value fit the printed table

Action == {"ALLOW", "BLOCK"}

ASSUME WafLoopAssumption ==
    /\ MaxIndex \in Nat
    /\ Limit \in Nat
    /\ Top \in Nat
    /\ ShownWords \in Nat \ {0}
    /\ \A r \in Request :
          /\ r.headers \in Seq([name : STRING, value : Seq(STRING)])
          /\ r.path \in STRING

VARIABLES
    rules,    \* the web ACL's rules about headers
    log,      \* what its log holds of the last hour: <<request, action>>
    at,       \* where the operators are
    asked,    \* the log when the script fixed the period it asks for
    pending,  \* the queries that have not ended
    whole,    \* all queries that have ended have returned all their rows
    rows,     \* the rows they have returned
    pasted    \* what the page was given: the rows, and in which form

loopVars == <<rules, log, at, asked, pending, whole, rows, pasted>>

NoPaste == [how |-> "csv", rows |-> {}]

HasWord(value, words) == \E n \in DOMAIN value : value[n] \in words

-----------------------------------------------------------------------------
(***************************************************************************)
(* terraform/waf.tf.  "127.0.0.2" and "110.0.0.1" stand for an address     *)
(* that the page's pattern takes for internal and its rule's does not, and *)
(* for one of which it is the other way round.                             *)
(***************************************************************************)
SCANNERS == {"sqlmap", "nikto", "nmap", "masscan", "acunetix", "havij", "attack"}

RulesAtFirst == [agents |-> SCANNERS, forwarded |-> {"127.0.0.1"}, headers |-> {"x-junk"}]

BlockedBy(h) ==
    \/ h.name = "user-agent" /\ HasWord(h.value, rules.agents)
    \/ h.name = "x-forwarded-for" /\ HasWord(h.value, rules.forwarded)
    \/ h.name \in rules.headers /\ h.value # <<>>

Decision(r) == IF \E n \in DOMAIN r.headers : BlockedBy(r.headers[n]) THEN "BLOCK" ELSE "ALLOW"

\* Before waf.tf was applied everything passed, and the log tells so.
LoopInit ==
    /\ rules = RulesAtFirst
    /\ log = Request \X {"ALLOW"}
    /\ at = "idle"
    /\ asked = {}
    /\ pending = {}
    /\ whole = TRUE
    /\ rows = {}
    /\ pasted = NoPaste

script == <<at, asked, pending, whole, rows, pasted>>

\* A request of every kind is sent again and again, and logged.
Send(r) ==
    /\ <<r, Decision(r)>> \notin log
    /\ log' = log \cup {<<r, Decision(r)>>}
    /\ UNCHANGED <<rules, script>>

\* Variant: each query has a period of its own.
ForgetAnyTime(r, a) ==
    /\ <<r, a>> \in log /\ a # Decision(r)
    /\ log' = log \ {<<r, a>>}
    /\ UNCHANGED <<rules, script>>

\* An hour after the last request that was decided like this.  The period of a
\* script that runs is fixed.
Forget(r, a) ==
    /\ at # "querying"
    /\ <<r, a>> \in log /\ a # Decision(r)
    /\ log' = log \ {<<r, a>>}
    /\ UNCHANGED <<rules, script>>

-----------------------------------------------------------------------------
(***************************************************************************)
(* waf_header_stats.py                                                     *)
(***************************************************************************)
\* Positions count from 1 here.
\* Variant: range(max_index).
IndicesBelow == 1 .. MaxIndex

Indices == 1 .. MaxIndex + 1

Start ==
    /\ at = "idle"
    /\ at' = "querying"
    /\ asked' = log
    /\ pending' = Indices
    /\ whole' = TRUE
    /\ UNCHANGED <<rules, log, rows, pasted>>

Row(r, i, a) ==
    [header |-> r.headers[i].name, value |-> r.headers[i].value, path |-> r.path, action |-> a]

RowsAt(i, records) == {Row(x[1], i, x[2]) : x \in {y \in records : i \in DOMAIN y[1].headers}}

\* Sorted by count and cut off: all, or the so many most frequent.
Most(all, n) ==
    {part \in SUBSET all : IF Cardinality(all) <= n THEN part = all ELSE Cardinality(part) = n}

\* Requests from before the period's end may be logged while queries run.  That
\* the limit was reached is told nowhere.
Complete(i) ==
    /\ i \in pending
    /\ \E part \in Most(RowsAt(i, log), Limit) :
          /\ rows' = rows \cup part
          /\ whole' = (whole /\ part = RowsAt(i, log))
    /\ pending' = pending \ {i}
    /\ UNCHANGED <<rules, log, at, asked, pasted>>

\* Failed, Cancelled, Timeout, or cancelled by the script: what there is, if
\* anything, is taken, and only standard error tells.
BreakOff(i) ==
    /\ i \in pending
    /\ \E records \in {{}, asked} : \E part \in Most(RowsAt(i, records), Limit) :
          rows' = rows \cup part
    /\ whole' = FALSE
    /\ pending' = pending \ {i}
    /\ UNCHANGED <<rules, log, at, asked, pasted>>

\* boto3 raises an exception; it is raised again by fut.result().
Crash ==
    /\ at = "querying"
    /\ at' = "idle"
    /\ asked' = {} /\ pending' = {} /\ rows' = {} /\ whole' = TRUE
    /\ UNCHANGED <<rules, log, pasted>>

VALID_EP == {"/v1/user", "/v1/product", "/v1/stress", "/healthcheck", "/images/x"}

verdict(row) ==
    IF row.path \notin VALID_EP THEN "404"
    ELSE IF row.header = "user-agent" /\ HasWord(row.value, SCANNERS) THEN "403-UA"
    ELSE IF row.header = "x-forwarded-for" /\ HasWord(row.value, {"127.0.0.1"}) THEN "403-XFF"
    ELSE IF row.header = "x-junk" THEN "403-HDR"
    ELSE "OK"

Abnormal == {"403-UA", "403-XFF", "403-HDR"}

\* "Not blocked yet"; if this is empty the report says that all is blocked.
gaps == {row \in rows : verdict(row) \in Abnormal /\ row.action # "BLOCK"}

-----------------------------------------------------------------------------
(***************************************************************************)
(* What is pasted: the table, with values cut off, or the file, where a    *)
(* value with a comma or a quote is in quotes.                             *)
(***************************************************************************)
_short(value) ==
    IF Len(value) <= ShownWords THEN value
    ELSE Append(SubSeq(value, 1, ShownWords - 1), "...")

Quoted(value) == IF HasWord(value, {",", "quote"}) THEN <<"quote">> \o value \o <<"quote">> ELSE value

Line(how, row) ==
    [verdict |-> verdict(row), action |-> row.action, path |-> row.path, header |-> row.header,
     value |-> IF how = "table" THEN _short(row.value) ELSE Quoted(row.value)]

\* The table has the most frequent rows, the file all.
PrintedRows(how) == IF how = "table" THEN Most(rows, Top) ELSE {rows}

-----------------------------------------------------------------------------
(***************************************************************************)
(* dashboard.py, the page's script (wafxRun and what it calls).            *)
(***************************************************************************)
\* A line of the table with five commas or more is taken for one of the file: the
\* pieces of its value that stand for path and header are none.
Misread == [verdict |-> "", action |-> "", path |-> "", header |-> "", value |-> <<>>]

Commas(value) == Cardinality({n \in DOMAIN value : value[n] = ","})

wafxParse(how, line) == IF how = "table" /\ Commas(line.value) >= 5 THEN Misread ELSE line

Read == {wafxParse(pasted.how, Line(pasted.how, row)) : row \in pasted.rows}

\* Paths below an endpoint count, too.
WAFX_VALID == VALID_EP \cup {"/v1/user/x"}

\* As far as they occur in the instances.
WAFX_SCAN == SCANNERS \cup {"wpscan", "dirbuster", "nuclei", "gobuster", "zgrab"}
WAFX_NORMHDR == {"host", "accept", "user-agent", "x-forwarded-for"}
Internal == {"127.0.0.1", "127.0.0.2", "10.0.0.1"}

\* The address must come first, or after a blank or a comma.
InternalAddress(value) ==
    \E n \in DOMAIN value : value[n] \in Internal /\ (n > 1 => value[n - 1] # "quote")

\* Agents that are not known, and those of browsers, are left alone; other headers
\* are junk from 24 characters on, of the 30 that are printed, or if one of these
\* is repeated.
Suspect(p) ==
    \/ p.header = "user-agent" /\ (HasWord(p.value, WAFX_SCAN) \/ p.value = <<>>)
    \/ p.header = "x-forwarded-for" /\ InternalAddress(p.value)
    \/ p.header \notin WAFX_NORMHDR /\ (5 * Len(p.value) >= 4 * ShownWords \/ HasWord(p.value, {"xxxxxxxx"}))

wafxClassify(p) ==
    /\ p.path \in WAFX_VALID
    /\ p.action # "BLOCK"
    /\ p.verdict \in Abnormal \/ Suspect(p)

\* Variant: agents are known by their name too.
KeyByName(p) == [header |-> p.header, agent |-> <<>>]

\* What a find is known by, and all that its rule depends on: agents differ by
\* their value, all other headers by their name.
Key(p) == [header |-> p.header, agent |-> IF p.header = "user-agent" THEN p.value ELSE <<>>]

\* "Blocked already, what passed is older than the rule."
blocked == {Key(p) : p \in {q \in Read : q.action = "BLOCK" /\ q.path \in WAFX_VALID}}

\* What the page says should be blocked.
finds == {Key(p) : p \in {q \in Read : wafxClassify(q)}} \ blocked

Analyse(how) ==
    /\ at = "querying" /\ pending = {}
    /\ at' = "analysed"
    /\ \E part \in PrintedRows(how) : pasted' = [how |-> how, rows |-> part]
    /\ UNCHANGED <<rules, log, asked, pending, whole, rows>>

\* The word for the agents' pattern: the value up to its first character that is
\* neither a letter nor a digit.
Token(agent) == IF agent = <<>> \/ agent[1] \in {",", "quote", "..."} THEN "badtool" ELSE agent[1]

\* Variant: the printed pattern, which has the first words and the new, replaces
\* the one in use.
wafxRuleReplacing(found) ==
    LET agents == {f \in found : f.header = "user-agent"}
    IN  [rules EXCEPT !.agents = IF agents = {} THEN @
                                 ELSE SCANNERS \cup {"nuclei"} \cup {Token(f.agent) : f \in agents}]

\* The new words are added to the pattern; the one for forwarded-for replaces
\* the old and finds "10." anywhere in the value; other headers are blocked by
\* name if they have a value.
wafxRule(found) ==
    LET agents == {f \in found : f.header = "user-agent"}
        forwarded == {f \in found : f.header = "x-forwarded-for"}
    IN  [agents |-> rules.agents \cup {Token(f.agent) : f \in agents}
                        \cup (IF agents = {} THEN {} ELSE {"nuclei"}),
         forwarded |-> IF forwarded = {} THEN rules.forwarded
                       ELSE {"127.0.0.1", "10.0.0.1", "110.0.0.1"},
         headers |-> rules.headers \cup {f.header : f \in found \ (agents \cup forwarded)}]

\* The operators take all the rules over and apply them; or there are none.
Apply ==
    /\ at = "analysed"
    /\ rules' = wafxRule(finds)
    /\ at' = "idle"
    /\ asked' = {} /\ pending' = {} /\ rows' = {} /\ whole' = TRUE /\ pasted' = NoPaste
    /\ UNCHANGED log

-----------------------------------------------------------------------------
Work == Start \/ (\E i \in Indices : Complete(i)) \/ (\E how \in {"table", "csv"} : Analyse(how)) \/ Apply

LoopNext ==
    \/ \E r \in Request : Send(r) \/ \E a \in Action : Forget(r, a)
    \/ Work
    \/ \E i \in Indices : BreakOff(i)
    \/ Crash

LoopSpec == LoopInit /\ [][LoopNext]_loopVars

\* Clients keep sending.
FairLoopSpec == LoopSpec /\ \A r \in Request : WF_loopVars(Send(r))

-----------------------------------------------------------------------------
\* The names of headers that there are.
Name == {"x-junk"} \cup UNION {{r.headers[n].name : n \in DOMAIN r.headers} : r \in Request}

LoopTypeOK ==
    /\ rules.headers \subseteq Name
    /\ log \subseteq Request \X Action
    /\ asked \subseteq Request \X Action
    /\ at = "querying" => asked \subseteq log
    /\ at \in {"idle", "querying", "analysed"}
    /\ pending \subseteq Indices
    /\ whole \in BOOLEAN

Ready == at # "idle" /\ pending = {}

\* "None: all that should be blocked is" (waf_header_stats.py:174) is true of the
\* period that was asked for if no query was broken off or reached its limit:
\* although queries run one by one while the log grows, no request that was let
\* through had a header with such a verdict at a position that was looked at.
NoneIsTrue ==
    Ready /\ whole /\ gaps = {} =>
        \A r \in Request, i \in 1 .. MaxIndex + 1 :
            <<r, "ALLOW">> \in asked /\ i \in DOMAIN r.headers =>
                verdict(Row(r, i, "ALLOW")) \notin Abnormal

\* The page says "nothing to block", and not that it could read no row.
AllClear == at = "analysed" /\ Read # {} /\ finds = {}

\* A row as the page reads it in the form in which it is pasted.
Seen(row) == wafxParse(pasted.how, Line(pasted.how, row))

\* What the page says (dashboard.py:253: of the abnormal requests on valid paths
\* none is let through) is true of what was logged when the script began, if all
\* queries returned all their rows and the table was not cut, with one exception:
\* a header that was let through may go by unmentioned if a request with the same
\* header - for agents, with the same value as read - was blocked.  Abnormal is
\* what the page finds fault with as it reads it: a table line with five commas,
\* and an address after a quote, it does not understand.
ClearUnlessBlocked ==
    AllClear /\ whole /\ pasted.rows = rows =>
        \A r \in Request, i \in Indices :
            LET row == Row(r, i, "ALLOW")
            IN  <<r, "ALLOW">> \in asked /\ i \in DOMAIN r.headers /\ wafxClassify(Seen(row)) =>
                    \E q \in rows :
                        /\ q.action = "BLOCK" /\ q.path \in WAFX_VALID
                        /\ q.header = row.header
                        /\ q.header = "user-agent" => Seen(q).value = Seen(row).value

\* Attackers that the loop must get rid of: their agent is asked for, found fault
\* with, made of words only - one with a comma is quoted in the file, and its
\* pattern is "badtool" - and no other kind of request has the same one.
Lone(r) ==
    \E i \in Indices \cap DOMAIN r.headers :
        LET h == r.headers[i]
        IN  /\ h.name = "user-agent" /\ h.value # <<>> /\ ~HasWord(h.value, {",", "quote"})
            /\ wafxClassify(Line("csv", Row(r, i, "ALLOW")))
            /\ \A s \in Request \ {r} : \A j \in DOMAIN s.headers :
                   s.headers[j].name = "user-agent" => s.headers[j].value # h.value

\* If again and again the file of a whole report is pasted, then whatever else is
\* pasted, breaks off or crashes in between, and though records of what was let
\* through and of what was blocked lie about for an hour, going round the loop
\* leads to rules that block every such attacker for good.
AgentsGetBlocked ==
    []<><<whole /\ Analyse("csv")>>_loopVars =>
        \A r \in Request : Lone(r) => <>[](Decision(r) = "BLOCK")
=============================================================================
