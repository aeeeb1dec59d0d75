------------------------------ MODULE EdgeRules -------------------------------
(***************************************************************************)
(* What the security edge is told to do with a request: the tables of one  *)
(* organization (its policy, its deny rules, its trusted sources), the     *)
(* loader that reads them one after the other (edge-loaders.ts), and the   *)
(* compiler that turns them into a list of directives and a challenge      *)
(* (security-edge.ts).  A request is the set of what can be matched about  *)
(* it: its address, words of its user agent, the name its address was      *)
(* confirmed to have, the internal header; and the score the core rules    *)
(* give it.  A rule is the set of those it matches, so that an address, a  *)
(* block and an agent are one case.  The walk of the directives stands for *)
(* the external engine: it follows the chain semantics the compiler's      *)
(* comments state, an unset marker being different from one.               *)
(***************************************************************************)
EXTENDS Naturals, SequencesExt

CONSTANTS
  Addresses, Words,     \* what a request carries
  Internal,             \* the header of the deployment's own requests
  Bots,                 \* the directory: a sequence of [word, name]
  DenyChoices,          \* rules a customer may add
  TrustChoices,         \* sources a customer may trust
  PolicyChoices,        \* policies a customer may save: [risk, action, attack]
  Scores,
  MaxRuleChanges        \* bound: changes while a load is under way

ASSUME RulesAssumption ==
  /\ Bots \in Seq([word : Words, name : {Bots[i].name : i \in DOMAIN Bots}])
  /\ IsFiniteSet(DenyChoices) /\ IsFiniteSet(TrustChoices)

VARIABLES
  table,     \* what is stored: [policy, rules, trusted]
  load,      \* the loader's place and what it has read
  moments,   \* history: what was stored during the load
  undone     \* history: a policy was saved or a row removed during the load

rulesVars == <<table, load, moments, undone>>

ConfirmedNames == {Bots[i].name : i \in DOMAIN Bots}
Traffic ==
  {[traits |-> {a} \cup words \cup name \cup internal, score |-> n] :
     a \in Addresses, words \in SUBSET Words, name \in {{}} \cup {{x} : x \in ConfirmedNames},
     internal \in SUBSET {Internal}, n \in Scores}

-----------------------------------------------------------------------------
(* The compiler. *)

\* A directive; a member of a chain follows the line that has chain set.
Line == [test |-> "always", on |-> {}, sets |-> {}, threshold |-> 0, chain |-> FALSE, deny |-> FALSE]
Carries(traits) == [Line EXCEPT !.test = "carries", !.on = traits]
Unmarked(marker) == [Line EXCEPT !.test = "unmarked", !.on = {marker}]

\* Faulty: the marker on the starter, which acts before the name is checked.
MarksOnWord(bot) ==
  <<[Carries({bot.word}) EXCEPT !.chain = TRUE, !.sets = {"bot"}], Carries({bot.name})>>

\* verifiedBotDirectives: the member sets the marker, once the whole chain matched.
BotChain(bot) ==
  <<[Carries({bot.word}) EXCEPT !.chain = TRUE],
    [Carries({bot.name}) EXCEPT !.sets = {"bot"}]>>

InternalLine == [Carries({Internal}) EXCEPT !.sets = {"internal"}]
TrustedLine(source) == [Carries(source) EXCEPT !.sets = {"trusted"}]

\* Faulty: the chain as it was before internal requests were exempt.
DeniesInternal(rule) ==
  <<[Carries(rule) EXCEPT !.chain = TRUE, !.deny = TRUE],
    [Unmarked("trusted") EXCEPT !.chain = TRUE], Unmarked("bot")>>

DenyChain(rule) ==
  <<[Carries(rule) EXCEPT !.chain = TRUE, !.deny = TRUE],
    [Unmarked("trusted") EXCEPT !.chain = TRUE],
    [Unmarked("internal") EXCEPT !.chain = TRUE],
    Unmarked("bot")>>

Threshold(risk) == CASE risk = "critical" -> 1 [] risk = "high" -> 3 [] OTHER -> 5
Denies(action) == action \in {"challenge", "block", "quarantine"}

WafLines(policy) ==
  <<[Line EXCEPT !.threshold = Threshold(policy.risk)],
    [Line EXCEPT !.test = "score", !.deny = Denies(policy.action)]>>

Each(Lines(_), items) == FlattenSeq([i \in DOMAIN items |-> Lines(items[i])])
One(Each1(_), items) == [i \in DOMAIN items |-> Each1(items[i])]

\* compileEdge; the lines that only record an intent are left out.
Directives(t) ==
  Each(BotChain, Bots) \o <<InternalLine>> \o One(TrustedLine, SetToSeq(t.trusted))
    \o Each(DenyChain, SetToSeq(t.rules)) \o WafLines(t.policy)

\* The addresses Envoy must not challenge; it also skips the crawlers it confirmed.
SkipChallengeAddresses(t) == UNION t.trusted

-----------------------------------------------------------------------------
(* The edge: a walk of the directives. *)

Matches(line, request, walk) ==
  CASE line.test = "always"   -> TRUE
    [] line.test = "carries"  -> line.on \cap request.traits # {}
    [] line.test = "unmarked" -> line.on \cap walk.markers = {}
    [] line.test = "score"    -> request.score >= walk.threshold

Entered == [markers |-> {}, threshold |-> 5, deny |-> FALSE, linked |-> FALSE, hit |-> TRUE,
            denied |-> FALSE]

\* A line that is not a chain's member starts afresh; one that is counts only
\* if all before it matched, and the starter's action is taken at the end.
Take(line, request, walk) ==
  LET hit  == (walk.linked => walk.hit) /\ Matches(line, request, walk)
      deny == IF walk.linked THEN walk.deny ELSE line.deny
  IN [markers   |-> walk.markers \cup (IF hit THEN line.sets ELSE {}),
      threshold |-> IF hit /\ line.threshold > 0 THEN line.threshold ELSE walk.threshold,
      deny      |-> deny,
      linked    |-> line.chain,
      hit       |-> hit,
      denied    |-> walk.denied \/ (hit /\ deny /\ ~line.chain)]

Denied(directives, request) ==
  LET walk[n \in 0 .. Len(directives)] ==
        IF n = 0 THEN Entered ELSE Take(directives[n], request, walk[n - 1])
  IN walk[Len(directives)].denied

IsConfirmedBot(request) ==
  \E i \in DOMAIN Bots : {Bots[i].word, Bots[i].name} \subseteq request.traits

\* Envoy serves the challenge before the directives are walked.
Challenged(t, request) ==
  /\ t.policy.attack
  /\ request.traits \cap SkipChallengeAddresses(t) = {}
  /\ ~IsConfirmedBot(request)

Stopped(t) ==
  LET directives == Directives(t)
  IN {q \in Traffic : Challenged(t, q) \/ Denied(directives, q)}

-----------------------------------------------------------------------------
(* The tables and the loader. *)

Tables == [policy : PolicyChoices, rules : SUBSET DenyChoices, trusted : SUBSET TrustChoices]
NotLoading == [at |-> 0, read |-> [policy |-> CHOOSE p \in PolicyChoices : TRUE,
                                   rules |-> {}, trusted |-> {}]]

RulesInit ==
  /\ table \in Tables
  /\ load = NotLoading
  /\ moments = {}
  /\ undone = FALSE

\* Saves of the policy, and rules and sources added and removed, by their id.
Change(new, undoes) ==
  /\ load # NotLoading /\ Cardinality(moments) <= MaxRuleChanges
  /\ new # table
  /\ table' = new
  /\ moments' = moments \cup {new}
  /\ undone' = (undone \/ undoes)
  /\ UNCHANGED load

SavesPolicy(p) == Change([table EXCEPT !.policy = p], TRUE)
AddSecurityRule(r) == Change([table EXCEPT !.rules = @ \cup {r}], FALSE)
RemoveSecurityRule(r) == Change([table EXCEPT !.rules = @ \ {r}], TRUE)
AddTrustedSource(s) == Change([table EXCEPT !.trusted = @ \cup {s}], FALSE)
RemoveTrustedSource(s) == Change([table EXCEPT !.trusted = @ \ {s}], TRUE)

\* loadPolicy reads one table after the other.
\* Faulty: the trusted sources before the rules.
TrustedFirst == <<"trusted", "rules">>

ReadOrder == <<"rules", "trusted">>

LoadBegins ==
  /\ load = NotLoading
  /\ load' = [load EXCEPT !.at = 1, !.read.policy = table.policy]
  /\ moments' = {table}
  /\ UNCHANGED <<table, undone>>

LoadReads ==
  /\ load.at \in DOMAIN ReadOrder
  /\ LET what == ReadOrder[load.at]
     IN load' = [load EXCEPT !.at = @ + 1, !.read[what] = table[what]]
  /\ UNCHANGED <<table, moments, undone>>

Compiled == load.at = Len(ReadOrder) + 1

\* The artifact is sent (EdgePolicy) and the next load begins with a new one.
ArtifactSent ==
  /\ Compiled
  /\ load' = NotLoading
  /\ moments' = {}
  /\ undone' = FALSE
  /\ UNCHANGED table

RulesNext ==
  \/ \E p \in PolicyChoices : SavesPolicy(p)
  \/ \E r \in DenyChoices : AddSecurityRule(r) \/ RemoveSecurityRule(r)
  \/ \E s \in TrustChoices : AddTrustedSource(s) \/ RemoveTrustedSource(s)
  \/ LoadBegins \/ LoadReads \/ ArtifactSent

RulesSpec == RulesInit /\ [][RulesNext]_rulesVars

-----------------------------------------------------------------------------
RulesType ==
  /\ table \in Tables
  /\ load.at \in 0 .. Len(ReadOrder) + 1 /\ load.read \in Tables
  /\ moments \subseteq Tables
  /\ undone \in BOOLEAN

\* What the tables mean: a deny rule stops a request unless its address is
\* trusted, it is the deployment's own or a crawler confirmed by name; the
\* policy stops what scores too high, whoever sends it.
Meant(t, request) ==
  \/ /\ \E r \in t.rules : r \cap request.traits # {}
     /\ \A s \in t.trusted : s \cap request.traits = {}
     /\ Internal \notin request.traits
     /\ ~IsConfirmedBot(request)
  \/ Denies(t.policy.action) /\ request.score >= Threshold(t.policy.risk)

\* The directives of an artifact stop exactly the requests its tables mean to
\* stop (security-edge.ts:640).
DirectivesMeanRules ==
  Compiled =>
    LET directives == Directives(load.read)
    IN \A q \in Traffic : Denied(directives, q) <=> Meant(load.read, q)

\* An artifact put together while rules and trusted sources are added treats
\* every request as the tables did at some moment of its load: adding a source
\* and then a rule that would stop it never stops it (edge-loaders.ts:220).
ArtifactOfAMoment ==
  Compiled /\ ~undone =>
    LET artifact == Stopped(load.read)
        then     == {Stopped(t) : t \in moments}
    IN \A q \in Traffic : \E stopped \in then : q \in artifact <=> q \in stopped

EdgeDoesAsStored == DirectivesMeanRules /\ ArtifactOfAMoment
=============================================================================
