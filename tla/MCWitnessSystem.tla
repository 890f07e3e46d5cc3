---------------------------- MODULE MCWitnessSystem ----------------------------
(***************************************************************************)
(* Small instances of WitnessSystem: the subjects of MCAutomaticWitness,   *)
(* with the requests, and the row of an earlier release, that lead to the  *)
(* grants of two scenarios.                                                *)
(***************************************************************************)
EXTENDS MCAutomaticWitness, WitnessSystem

\* A first grant for both kinds and a renewal, signed later than it was
\* requested, that drops kind 1416.
SystemOffers ==
  {Offer(0, 0, 3, {1415, 1416}, "system"), Offer(1, 2, 4, {1415}, "system")}
\* A bounded grant, and a renewal for the operational profile.
ProfileOffers ==
  {Offer(0, 0, 3, {1415}, "bounded"), Offer(1, 1, 3, {1415}, "operational")}

ScenarioOffers == SystemOffers \cup ProfileOffers
MCOffers == Lifecycle!Offers

Term(validFor, kinds, profile) == [validFor |-> validFor, kinds |-> kinds, profile |-> profile]

MCTerms == {
  Term(3, {1415, 1416}, "system"), Term(3, {1415}, "system"),
  Term(3, {1415}, "bounded"), Term(2, {1415}, "operational")}

\* The first grant of the second scenario, imported by an earlier release.
MCLegacyRows ==
  {[type |-> "grant", created |-> 0,
    request |-> [type |-> "request", nonce |-> 0, sequence |-> 1, start |-> 0,
                 terms |-> Term(3, {1415}, "bounded")]]}

\* An adapter with two uncertainties, the operational monitor, and a failure.
MixedOutcomes ==
  {[synchronized |-> TRUE, uncertainty |-> u, syncAge |-> Null] : u \in 0 .. MaxUncertainty}
  \cup {[synchronized |-> TRUE, uncertainty |-> Null, syncAge |-> 1],
        [synchronized |-> FALSE, uncertainty |-> Null, syncAge |-> Null]}

BackAndForth == {-1, 2}

\* Two scenarios in one run, told apart by the first clock mode.  A system
\* clock is stepped, and nobody monitors it; a monitored clock is not stepped,
\* starts from the earlier release's grant and has a chain one event shorter.
\* Shutdowns and broadcasts are left to the other runs.
Monitored == mode # "system"
Granted(chain) == {chain[i].profile : i \in {j \in 1 .. Len(chain) : chain[j].type = "grant"}}

OneScenario ==
  /\ Monitored' = Monitored /\ ~stopping' /\ worker'.pc # "flag"
  /\ IF Monitored
     THEN /\ current # Null
          /\ step' = 0 /\ section'.subject # s3
          /\ Len(history') < MaxHistory
          /\ "system" \notin Granted(history')
     ELSE health' = health /\ Granted(history') \subseteq {"system"}

\* Only requests that lead to a grant of the scenarios are made, a request is
\* not replaced by another, and a control changes what it finds.
Requested(r) ==
  \E g \in ScenarioOffers :
    /\ r.start = g.start /\ r.terms = Term(g.end - g.start, g.kinds, g.profile)
    /\ Monitored <=> g.profile # "system"

OneSystem ==
  /\ OneScenario
  /\ \E s \in Subjects : section'.subject \in {s, Null} /\ \A i \in EventIds : stored'[i] \in {s, Null}
  /\ \A i \in 1 .. Len(history') : history'[i].type = "grant" => history'[i] \in ScenarioOffers
  /\ (made' # made) => (current = Null \/ current.type = "grant") /\ Requested(current')
  /\ (controls' # controls) => suspended' # suspended /\ ~Monitored

=============================================================================
