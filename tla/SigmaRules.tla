----------------------------- MODULE SigmaRules -----------------------------
(* The Sigma engine (sigma_engine.py): rule files on disk, reloads and         *)
(* switches, and what the process sensor feeds: every enabled rule is tried,   *)
(* and a rule is reported once for a process.                                  *)
(* An operator that stands right above another one with the same parameters    *)
(* and is used nowhere is a faulty variant of it (PROJECT.json, "mutants").    *)
EXTENDS SocClock, Integers, Sequences, FiniteSets, SequencesExt

CONSTANTS SigmaFiles,     \* how many *.yml names, in sorted order
          SigmaDocs,      \* what a file may hold: rules, documents without "detection", Broken
          Broken,         \* a file that cannot be read or parsed
          Bundled,        \* the file contents _bundle_default_rules writes
          Compares,           \* Compares[modifier]: the pairs <<have, want>> it accepts
          ProcessEvents, Feeders, Reloaders, SigmaSeenCap,
          MaxFeeds, MaxEdits   \* events fed; edits, switches and restarts (bounds)

ASSUME SigmaAssumption ==
    /\ SigmaFiles \in Nat /\ SigmaSeenCap \in Nat
    /\ Bundled \in [1..SigmaFiles -> SigmaDocs \cup {None}]
    /\ {"contains", "startswith", "endswith", "re", "equals"} \subseteq DOMAIN Compares

VARIABLES ruleFiles, rules, reload, feeds, sigmaSeen, matched, swallowed, sigmaReports, unreported, fed, edits
sigmaVars == <<now, ruleFiles, rules, reload, feeds, sigmaSeen, matched, swallowed, sigmaReports, unreported, fed, edits>>

-----------------------------------------------------------------------------
(* Matching. An event maps fields to values, a missing one to None. A map of a *)
(* selection is a set of tests [field, mods, wants]; a selection is the set of *)
(* its maps, a single map a set of one.                                        *)

\* The first of these modifiers counts, whatever their order in the key.
Comparison(mods) ==
    CASE "contains" \in mods -> "contains"
      [] "startswith" \in mods -> "startswith"
      [] "endswith" \in mods -> "endswith"
      [] "re" \in mods -> "re"
      [] OTHER -> "equals"

MatchScalar(have, want, mods) == <<have, want>> \in Compares[Comparison(mods)]

MatchField(have, wants, mods) ==
    /\ have # None
    /\ IF "all" \in mods THEN \A w \in wants : MatchScalar(have, w, mods)
                         ELSE \E w \in wants : MatchScalar(have, w, mods)

MatchSelection(selection, event) ==
    \E map \in selection : \A t \in map : MatchField(event.fields[t.field], t.wants, t.mods)

\* A condition is empty, "<need> of <them or a pattern>" over the names the
\* pattern fits, or a Boolean expression, here a set of alternatives that are
\* sets of <<name, sign>>. A name that is no selection makes it false.
EvalCondition(condition, holds) ==
    LET true(names) == {n \in names \cap DOMAIN holds : holds[n]}
        fitting == IF condition.kind = "them" THEN DOMAIN holds ELSE condition.names \cap DOMAIN holds
    IN CASE condition.kind = "empty" -> true(DOMAIN holds) # {}
         [] condition.kind \in {"them", "some"} /\ condition.need = "all" ->
                /\ condition.kind = "some" => fitting # {}
                /\ true(fitting) = fitting
         [] condition.kind \in {"them", "some"} -> Cardinality(true(fitting)) >= condition.need
         [] OTHER -> /\ \A alternative \in condition.expr : \A l \in alternative : l[1] \in DOMAIN holds
                     /\ \E alternative \in condition.expr : \A l \in alternative : holds[l[1]] = l[2]

MatchRule(doc, event) ==
    EvalCondition(doc.condition, [n \in DOMAIN doc.selections |-> MatchSelection(doc.selections[n], event)])

-----------------------------------------------------------------------------
(* Rules. *)

IsRule(content) == content \notin {None, Broken} /\ "selections" \in DOMAIN content
RuleDocs == {d \in SigmaDocs : IsRule(d)}

\* A file that is broken or has no "detection" is passed over; the rest are on,
\* in the order of their files.
LoadedFrom(files) ==
    [n \in {m \in DOMAIN files : IsRule(files[m])} |-> [doc |-> files[n], enabled |-> TRUE]]

EditFile(n, content) ==
    /\ edits < MaxEdits /\ ruleFiles[n] # content
    /\ edits' = edits + 1
    /\ ruleFiles' = [ruleFiles EXCEPT ![n] = content]
    /\ UNCHANGED <<now, rules, reload, feeds, sigmaSeen, matched, swallowed, sigmaReports, unreported, fed>>

\* load_rules reads outside the lock and replaces the list under it.
ReadRules(r) ==
    /\ reload[r] = None
    /\ reload' = [reload EXCEPT ![r] = LoadedFrom(ruleFiles)]
    /\ UNCHANGED <<now, ruleFiles, rules, feeds, sigmaSeen, matched, swallowed, sigmaReports, unreported, fed, edits>>

ReplaceRules(r) ==
    /\ reload[r] # None
    /\ rules' = reload[r]
    /\ reload' = [reload EXCEPT ![r] = None]
    /\ UNCHANGED <<now, ruleFiles, feeds, sigmaSeen, matched, swallowed, sigmaReports, unreported, fed, edits>>

\* The first rule with that id.
ToggleRule(n) ==
    /\ n \in DOMAIN rules /\ edits < MaxEdits
    /\ edits' = edits + 1
    /\ \A m \in DOMAIN rules : m < n => rules[m].doc.id # rules[n].doc.id
    /\ rules' = [rules EXCEPT ![n].enabled = ~@]
    /\ UNCHANGED <<now, ruleFiles, reload, feeds, sigmaSeen, matched, swallowed, sigmaReports, unreported, fed>>

\* The process starts again: nothing of what was seen is kept. With no rule file
\* the bundled ones are written (a directory that holds *.yaml only counts as empty
\* in the code; the names here are *.yml).
SigmaRestart ==
    /\ edits < MaxEdits
    /\ edits' = edits + 1
    /\ ruleFiles' = IF \A n \in DOMAIN ruleFiles : ruleFiles[n] = None THEN Bundled ELSE ruleFiles
    /\ rules' = LoadedFrom(ruleFiles')
    /\ reload' = [r \in Reloaders |-> None] /\ feeds' = [f \in Feeders |-> None]
    /\ sigmaSeen' = {} /\ matched' = {} /\ swallowed' = {} /\ sigmaReports' = {} /\ unreported' = {}
    /\ UNCHANGED <<now, fed>>

-----------------------------------------------------------------------------
(* Events. A feed holds the event and the rules that matched and are not       *)
(* recorded yet; "told" is the match whose report is still to be made.         *)

\* _pid, or the first forty characters of the command line where there is none.
Subject(event) == IF event.pid = 0 THEN <<"command", event.command>> ELSE <<"pid", event.pid>>
KeyWithoutRule(doc, event) == Subject(event)
SigmaKey(doc, event) == <<doc.id, Subject(event)>>
SigmaKeys == {SigmaKey(d, e) : d \in RuleDocs, e \in ProcessEvents}

Lefts == UNION {[places -> RuleDocs] : places \in (SUBSET (1..SigmaFiles)) \ {{}}}
SigmaFeed == [event : ProcessEvents, left : Lefts, told : {None} \cup SigmaKeys]
ASSUME NoneIsNoFeed == None \notin SigmaFeed \cup SigmaKeys

\* evaluate: the enabled rules are taken under the lock and tried outside it.
FeedProcess(f, event) ==
    /\ feeds[f] = None /\ fed < MaxFeeds
    /\ fed' = fed + 1
    /\ LET hits == {n \in DOMAIN rules : rules[n].enabled /\ MatchRule(rules[n].doc, event)}
       IN feeds' = IF hits = {} THEN feeds
                   ELSE [feeds EXCEPT ![f] = [event |-> event, left |-> [n \in hits |-> rules[n].doc], told |-> None]]
    /\ UNCHANGED <<now, ruleFiles, rules, reload, sigmaSeen, matched, swallowed, sigmaReports, unreported, edits>>

First(feed) == Min(DOMAIN feed.left)
After(feed) ==
    LET rest == DOMAIN feed.left \ {First(feed)}
    IN IF rest = {} THEN None ELSE [feed EXCEPT !.left = Restrict(@, rest), !.told = None]

Severe == {"high", "critical"}

\* _record_match: test and mark in one critical section; a full set is emptied,
\* the new key included.
RecordMatch(f) ==
    /\ feeds[f] # None /\ feeds[f].told = None
    /\ LET doc == feeds[f].left[First(feeds[f])]
           key == SigmaKey(doc, feeds[f].event)
           match == <<doc.id, Subject(feeds[f].event)>>
           marked == sigmaSeen \cup {key}
       IN IF key \in sigmaSeen
          THEN /\ swallowed' = swallowed \cup {match}
               /\ feeds' = [feeds EXCEPT ![f] = After(@)]
               /\ UNCHANGED <<sigmaSeen, matched>>
          ELSE /\ sigmaSeen' = IF Cardinality(marked) > SigmaSeenCap THEN {} ELSE marked
               /\ matched' = matched \cup {<<match, doc.level>>}
               /\ feeds' = [feeds EXCEPT ![f] = IF doc.level \in Severe THEN [@ EXCEPT !.told = match]
                                                ELSE After(@)]
               /\ UNCHANGED swallowed
    /\ UNCHANGED <<now, ruleFiles, rules, reload, sigmaReports, unreported, fed, edits>>

\* report_alert, outside the lock; its exception is logged and forgotten.
ReportMatch(f, fails) ==
    /\ feeds[f] # None /\ feeds[f].told # None
    /\ sigmaReports' = IF fails THEN sigmaReports ELSE sigmaReports \cup {feeds[f].told}
    /\ unreported' = IF fails THEN unreported \cup {feeds[f].told} ELSE unreported
    /\ feeds' = [feeds EXCEPT ![f] = After(@)]
    /\ UNCHANGED <<now, ruleFiles, rules, reload, sigmaSeen, matched, swallowed, fed, edits>>

SigmaInit ==
    /\ ruleFiles = Bundled /\ rules = LoadedFrom(Bundled)
    /\ reload = [r \in Reloaders |-> None] /\ feeds = [f \in Feeders |-> None]
    /\ sigmaSeen = {} /\ matched = {} /\ swallowed = {} /\ sigmaReports = {} /\ unreported = {}
    /\ fed = 0 /\ edits = 0

SigmaNext ==
    \/ \E n \in 1..SigmaFiles, content \in SigmaDocs \cup {None} : EditFile(n, content)
    \/ \E n \in 1..SigmaFiles : ToggleRule(n)
    \/ \E r \in Reloaders : ReadRules(r) \/ ReplaceRules(r)
    \/ \E f \in Feeders, event \in ProcessEvents : FeedProcess(f, event)
    \/ \E f \in Feeders : RecordMatch(f) \/ \E fails \in BOOLEAN : ReportMatch(f, fails)
    \/ SigmaRestart

SigmaSpec == SigmaInit /\ [][SigmaNext]_sigmaVars

-----------------------------------------------------------------------------
BeingTold == {feeds[f].told : f \in {g \in Feeders : feeds[g] # None}}
\* The report of a match has been made, has failed, or is being made by a feed.
ToldOf(match) == match \in sigmaReports \cup unreported \cup BeingTold
\* The levels at which a rule has matched a process.
LevelsOf(match) == {m[2] : m \in {n \in matched : n[1] = match}}

\* What _seen passes over as told before, of this rule and this process, was dealt
\* with: it has matched, and if it has ever matched at a severe level its report was
\* made, has failed or is being made.  (The mark does not hold the level: a rule made
\* severe and reloaded, or another file with the same id, is silent about a process
\* that was marked at a mild level.)
SwallowedWasTold ==
    \A match \in swallowed :
       /\ LevelsOf(match) # {}
       /\ LevelsOf(match) \cap Severe # {} => ToldOf(match)

=============================================================================
