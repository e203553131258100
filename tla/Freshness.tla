----------------------------- MODULE Freshness ------------------------------
(***************************************************************************)
(* engine/confidence.py and its callers: how far an article is trusted and *)
(* how stale it is.  A compile replaces the claims of the article in two   *)
(* commits and scores it in a third; a reader's refresh and the passing of *)
(* time come between.  The score shown decays with the days since, and     *)
(* three pieces of code each judge staleness for themselves: the article   *)
(* page, the facets and filters of the search, and the linter.             *)
(*                                                                         *)
(* Scores are fixed-point numbers, One standing for 1.0, rounded down where *)
(* the code's floats are; time is counted in half days, so that the whole  *)
(* days of the decay and the fractions of the staleness differ.            *)
(***************************************************************************)
EXTENDS Naturals, Sequences, SequencesExt, FiniteSetsExt

CONSTANTS Scorings,     \* compiles that replace the article
          ClaimSets,    \* lists of claims an LLM may return
          Jumps,        \* half days that may pass at once
          MaxClock,     \* bound on the time that passes
          MaxContras,   \* bound on incoming CONTRADICTS links
          Never         \* no time: a NULL column

VARIABLES clock,        \* utcnow_naive(), in half days
          art,          \* confidence_score, last_reinforced_at and source_newest_at
          claimRows,    \* confidence_score of the CompiledClaim rows
          contras,      \* incoming CONTRADICTS backlinks
          events,       \* occurred_at of the ReinforcementEvent rows
          scoring,      \* control state of each compile
          torn          \* history: a compile died with claims changed and the score not

freshVars == <<clock, art, claimRows, contras, events, scoring, torn>>

One == 12000
DecayRate == 2                  \* StalenessConfig.decay_rate, in thousandths a day
LintThreshold == One \div 2     \* StalenessConfig.lint_threshold
Levels == {"sourced", "mixed", "inferred", "opinion"}

ASSUME FreshAssumption ==
    /\ \A s \in ClaimSets : s \in Seq([level : Levels, sources : Nat])
    /\ Jumps \subseteq Nat \ {0} /\ MaxClock \in Nat /\ MaxContras \in Nat /\ Never \notin Nat

LeastOf(a, b) == IF a < b THEN a ELSE b
AtLeast0(a, b) == IF a > b THEN a - b ELSE 0

----------------------------------------------------------------------------
(* engine/confidence.py *)

_clamp01(v) == LeastOf(One, v)

(* 40% number of sources, 30% recency, 20% a constant quality of 0.7 and 10% *)
(* for what contradicts the article.                                         *)
compute_confidence(sources, ageDays, contradictions) ==
    _clamp01( (One * 4 * LeastOf(4, sources)) \div 40
            + (One * 3 * AtLeast0(365, ageDays)) \div 3650
            + (One * 14) \div 100
            + (One * AtLeast0(4, contradictions)) \div 40)

compute_staleness(halfDays) == _clamp01((halfDays * DecayRate * One) \div 2000)

(* The multiplier is max(0.5, 1 - 0.3 * days / 365). *)
apply_decay(base, days) ==
    LET kept == 7300 - LeastOf(6 * days, 3650)
    IN  _clamp01((base * kept) \div 7300)

Baseline == [sourced |-> 8, mixed |-> 5, inferred |-> 3, opinion |-> 2]

compute_claim_confidence(claim) ==
    _clamp01((One * Baseline[claim.level]) \div 10 + (One * LeastOf(4, claim.sources)) \div 20)

aggregate_claim_confidence(scores) ==
    IF scores = <<>> THEN One \div 2 ELSE _clamp01(FoldSeq(+, 0, scores) \div Len(scores))

----------------------------------------------------------------------------
(* Readers. *)

HalfDays(r) == clock - r.at

(* services/wiki.py, and the citations of services/query.py. *)
_effective_confidence(r) ==
    IF r.at = Never THEN r.score ELSE apply_decay(r.score, HalfDays(r) \div 2)

(* services/wiki.py: the article page and lists. *)
_staleness_score(r) == IF r.at = Never THEN One ELSE compute_staleness(HalfDays(r))

(* services/search.py: the filter by bucket, and the facet that counts them. *)
_matches_staleness_bucket(bucket, s) ==
    \/ bucket = "low" /\ 10 * s < 3 * One
    \/ bucket = "medium" /\ 3 * One <= 10 * s /\ 10 * s <= 7 * One
    \/ bucket = "high" /\ 10 * s > 7 * One

_facet_staleness(s) ==
    CASE 10 * s < 3 * One -> "low"
      [] 10 * s >= 3 * One /\ 10 * s <= 7 * One -> "medium"
      [] OTHER -> "high"

(* engine/linter/staleness.py: a finding for what is above the threshold. *)
detect_stale_articles(r) == _staleness_score(r) > LintThreshold

----------------------------------------------------------------------------
(* A stub or an article from before the columns: scored by default. *)
FreshInit ==
    /\ clock = 0
    /\ art = [score |-> One \div 2, at |-> Never, newest |-> Never]
    /\ claimRows = <<>>
    /\ contras = 0
    /\ events = {}
    /\ scoring = [c \in Scorings |-> [pc |-> "idle", claims |-> <<>>]]
    /\ torn = FALSE

(* _upsert_article's commit of a replaced row: the old claims are gone.      *)
ClearClaims(c, claims) ==
    /\ scoring[c].pc = "idle"
    /\ scoring' = [scoring EXCEPT ![c] = [pc |-> "persist", claims |-> claims]]
    /\ claimRows' = <<>>
    /\ UNCHANGED <<clock, art, contras, events, torn>>

(* A claim that names no source is backed by the source compiled. *)
BackedBy(claim) == [claim EXCEPT !.sources = IF @ = 0 THEN 1 ELSE @]

_persist_claims(c) ==
    /\ scoring[c].pc = "persist"
    /\ claimRows' = claimRows \o [i \in DOMAIN scoring[c].claims |->
                                     compute_claim_confidence(BackedBy(scoring[c].claims[i]))]
    /\ scoring' = [scoring EXCEPT ![c].pc = "refresh"]
    /\ UNCHANGED <<clock, art, contras, events, torn>>

(* The mean of the claims in the table, else a score from the article's one  *)
(* source, ingested at time 0, and the contradictions.                       *)
ScoreNow ==
    IF claimRows # <<>> THEN aggregate_claim_confidence(claimRows)
    ELSE compute_confidence(1, clock \div 2, contras)

_refresh_confidence_score(c) ==
    /\ scoring[c].pc = "refresh"
    /\ art' = [score |-> ScoreNow, at |-> clock, newest |-> 0]
    /\ events' = events \cup {clock}
    /\ scoring' = [scoring EXCEPT ![c] = [pc |-> "done", claims |-> <<>>]]
    /\ torn' = FALSE
    /\ UNCHANGED <<clock, claimRows, contras>>

(* The process dies, or a commit fails, between the commits. *)
ScoringDies(c) ==
    /\ scoring[c].pc \in {"persist", "refresh"}
    /\ scoring' = [scoring EXCEPT ![c] = [pc |-> "done", claims |-> <<>>]]
    /\ torn' = TRUE
    /\ UNCHANGED <<clock, art, claimRows, contras, events>>

(* services/wiki.py: the reader says that the article is still current. *)
refresh_article ==
    /\ art' = [art EXCEPT !.at = clock]
    /\ events' = events \cup {clock}
    /\ UNCHANGED <<clock, claimRows, contras, scoring, torn>>

(* The linter links a contradicting article. *)
Contradict ==
    /\ contras < MaxContras
    /\ contras' = contras + 1
    /\ UNCHANGED <<clock, art, claimRows, events, scoring, torn>>

Pass(d) ==
    /\ clock + d <= MaxClock
    /\ clock' = clock + d
    /\ UNCHANGED <<art, claimRows, contras, events, scoring, torn>>

FreshNext ==
    \/ \E c \in Scorings :
          \/ \E claims \in ClaimSets : ClearClaims(c, claims)
          \/ _persist_claims(c) \/ _refresh_confidence_score(c) \/ ScoringDies(c)
    \/ refresh_article \/ Contradict \/ \E d \in Jumps : Pass(d)

FreshSpec == FreshInit /\ [][FreshNext]_freshVars

----------------------------------------------------------------------------
FreshTypeOK ==
    /\ art.score \in 0 .. One /\ art.at \in {Never} \cup 0 .. clock
    /\ \A i \in DOMAIN claimRows : claimRows[i] \in 0 .. One

(* Whatever compiles overlap, once none is between its commits the score is  *)
(* the mean of the claims the reader is shown below it (GET                  *)
(* /wiki/articles/{id}/claims: "the aggregate (weighted mean)"), unless one  *)
(* died half way and none has scored the article since.                      *)
ScoreIsOfClaims ==
    (\A c \in Scorings : scoring[c].pc \notin {"persist", "refresh"}) /\ ~torn /\ claimRows # <<>>
        => /\ art.score * Len(claimRows) <= FoldSeq(+, 0, claimRows)
           /\ FoldSeq(+, 0, claimRows) - art.score * Len(claimRows) < Len(claimRows)

(* models/tables/wiki.py: last_reinforced_at is "the max of all events",     *)
(* whichever of compiles and refreshes came last.                            *)
ReinforcedLast == art.at = IF events = {} THEN Never ELSE Max(events)

(* What a reader is shown of the score falls as the days go by, and never    *)
(* below half of it.                                                         *)
DecayBounded ==
    /\ 2 * _effective_confidence(art) + 1 >= art.score /\ _effective_confidence(art) <= art.score
    /\ art.at # Never => \A d \in 0 .. HalfDays(art) \div 2 :
                            apply_decay(art.score, d) >= _effective_confidence(art)

(* The search filter finds an article in the one bucket its facet counts it  *)
(* in, and the linter reports none that search calls low, and all it calls   *)
(* high.                                                                     *)
StaleViewsAgree ==
    LET s == _staleness_score(art) IN
    /\ \A b \in {"low", "medium", "high"} : _matches_staleness_bucket(b, s) <=> _facet_staleness(s) = b
    /\ detect_stale_articles(art) => _facet_staleness(s) # "low"
    /\ _facet_staleness(s) = "high" => detect_stale_articles(art)
=============================================================================
