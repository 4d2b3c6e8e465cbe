------------------------- MODULE ReleaseFleetProofs -------------------------
(* What holds of a managed release for every fleet, any number of releases    *)
(* and of Macs, and any number of troubles: the files stay readable, what is  *)
(* reported as current runs, an outcome is final, and the release implements  *)
(* its intent.                                                                *)
(*                                                                            *)
(* The argument goes from the inside out.  A job is well (JobWell) when its   *)
(* fields agree with each other and its current rows with the software; a     *)
(* file is well (FileWell) when its jobs are, and stand where they may.  Each *)
(* transaction keeps a file well; each step of a run, of the rest of the      *)
(* Controller, of the Agents and of the updaters is made of transactions, and *)
(* no step moves software back.                                               *)
EXTENDS ReleaseFleet, FiniteSetTheorems, TLAPS

-----------------------------------------------------------------------------
(* What holds of a job, and of a file whose jobs stand where they may.  The   *)
(* software is a parameter, real: what each component of each Mac really runs. *)

(* A current row runs the release, or a later one. *)
RowsTrue(job, r, real) ==
    \A m \in Macs, c \in Components : job.rows[m][c] = "current" => real[m][c] >= r
(* There is something left to try. *)
Trying(job) == Unsettled(job) \/ job.catalog \in Retryable
(* The fields of a job agree, whatever the job stands at. *)
Shaped(job, r, real) ==
    /\ job \in JobSet /\ \E m \in Macs : Member(job, m)
    /\ \A m \in Macs : job.opgen[m] <= job.supplement
    /\ \A m \in job.failed : Member(job, m)
    /\ \A m \in Macs : ~Member(job, m) => \A c \in Components : job.rows[m][c] = "outside"
    /\ RowsTrue(job, r, real)
(* The state of a job, and what its rows and its catalog say, agree. *)
Standing(job) ==
    /\ Trying(job) => job.state \in {"degraded", "blocked"}
    /\ job.state = "degraded" => Trying(job)
    /\ job.state = "complete" => Converged(job) /\ job.catalog = "acknowledged"
    /\ job.state \in Terminal => job.lease = "none"
JobWell(job, r, real) == Shaped(job, r, real) /\ Standing(job)
(* Where a job may stand in the file. *)
JobPlaced(f, id) ==
    /\ id[2] <= f.jobs[id].supplement /\ id[1] <= f.desired
    /\ Live(f, << id[1], 0 >>)
    /\ id[1] = f.desired => f.active # NoActive /\ id[2] <= f.active[2]
    /\ f.jobs[id].lease # "none" => f.active = id
    /\ id[2] > 0 => Live(f, << id[1], id[2] - 1 >>) /\ f.jobs[<< id[1], id[2] - 1 >>].state = "complete"
FileSet == [desired : Releases \cup {0}, active : JobIds \cup {NoActive},
    jobs : [JobIds -> JobSet \cup {NoJob}]]
FileWell(f, real) ==
    /\ f \in FileSet
    /\ f.active # NoActive => f.active[1] = f.desired /\ Live(f, f.active)
    /\ \A id \in JobIds : Live(f, id) => JobWell(f.jobs[id], id[1], real) /\ JobPlaced(f, id)
(* What has run, as a function; the types of it and of the rows. *)
Real == [m \in Macs |-> [c \in Components |-> Ran(m, c)]]
RealSet == [Macs -> [Components -> Nat]]
RowsSet == [Macs -> [Components -> RowStates]]

(* A job is known from its fields. *)
LEMMA JobFields ==
    /\ NoJob \notin JobSet
    /\ \A job \in JobSet :
        /\ job.state \in JobStates /\ job.lease \in Leases /\ job.gen \in Nat /\ job.failed \in SUBSET Macs
        /\ job.rows \in RowsSet /\ job.child \in SUBSET Macs /\ job.opgen \in [Macs -> 0 .. MaxSupplement]
        /\ job.supplement \in 0 .. MaxSupplement /\ job.catalog \in CatalogStates
<1>1. \A job \in JobSet : job.state \in JobStates
  BY DEF JobSet
<1>2. NoJob.state \notin JobStates
  BY DEF NoJob, JobStates, Terminal
<1> QED BY <1>1, <1>2 DEF JobSet, RowsSet

(* One field at a time, an update keeps a job a job. *)
LEMMA JobUpdates ==
    ASSUME NEW job \in JobSet
    PROVE  /\ \A x \in JobStates : /\ [job EXCEPT !.state = x] \in JobSet
           /\ \A x \in Leases : [job EXCEPT !.lease = x] \in JobSet
           /\ \A x \in Nat : [job EXCEPT !.gen = x] \in JobSet
           /\ \A x \in SUBSET Macs : [job EXCEPT !.failed = x] \in JobSet /\ [job EXCEPT !.child = x] \in JobSet
           /\ \A x \in RowsSet : [job EXCEPT !.rows = x] \in JobSet
           /\ \A x \in [Macs -> 0 .. MaxSupplement] : [job EXCEPT !.opgen = x] \in JobSet
           /\ \A x \in 0 .. MaxSupplement : [job EXCEPT !.supplement = x] \in JobSet
           /\ \A x \in CatalogStates : [job EXCEPT !.catalog = x] \in JobSet
  BY DEF JobSet, RowsSet

(* What the identities of jobs are. *)
LEMMA IdFacts ==
    ASSUME SoftwareAssumption
    PROVE  /\ NoActive \notin JobIds
           /\ \A id \in JobIds : /\ id[1] \in Releases /\ id[2] \in 0 .. MaxSupplement
                                 /\ id = << id[1], id[2] >>
                                 /\ id[1] \in Nat \ {0} /\ id[2] \in Nat
           /\ \A r \in Releases, k \in 0 .. MaxSupplement : << r, k >> \in JobIds
<1>1. ASSUME NEW id \in JobIds
      PROVE  id[1] \in Releases /\ id[2] \in 0 .. MaxSupplement /\ id = << id[1], id[2] >>
  BY DEF JobIds
<1>2. NoActive \notin JobIds
  BY DEF JobIds, NoActive
<1>3. \A r \in Releases, k \in 0 .. MaxSupplement : << r, k >> \in JobIds
  BY DEF JobIds
<1>4. \A r \in Releases : r \in Nat \ {0}
  BY DEF SoftwareAssumption
<1>5. \A k \in 0 .. MaxSupplement : k \in Nat
  OBVIOUS
<1> QED BY <1>1, <1>2, <1>3, <1>4, <1>5

(* A file with one job replaced *)
LEMMA PutFacts ==
    ASSUME NEW f \in FileSet, NEW id \in JobIds, NEW job \in JobSet
    PROVE  /\ Put(f, id, job) \in FileSet
           /\ Put(f, id, job).desired = f.desired /\ Put(f, id, job).active = f.active
           /\ Put(f, id, job).jobs[id] = job
           /\ \A x \in JobIds \ {id} : Put(f, id, job).jobs[x] = f.jobs[x]
  BY DEF Put, FileSet

-----------------------------------------------------------------------------
(* Tidying: rows that wait come due, or are taken up again. *)

(* A change of rows that only a run or a time-out makes. *)
TidyRows(old, new) == \A m \in Macs, c \in Components :
    new[m][c] = old[m][c] \/ (old[m][c] \in Retryable /\ new[m][c] \in Retryable \cup {"checking"})
(* A job whose rows and catalog are tidied so. *)
Tidy(job, next) ==
    /\ TidyRows(job.rows, next.rows)
    /\ next.catalog = job.catalog \/ (job.catalog # "acknowledged" /\ next.catalog # "acknowledged")
(* New rows that a job can take without a false report. *)
SafeRows(old, new, r, real) == \A m \in Macs, c \in Components :
    new[m][c] # old[m][c] =>
        /\ new[m][c] # "outside" /\ (new[m][c] = "current" => real[m][c] >= r)
        /\ new[m]["hub"] # "outside"

(* The type of one row. *)
LEMMA RowFacts ==
    /\ "hub" \in Components
    /\ \A rows \in RowsSet : \A m \in Macs : /\ rows[m] \in [Components -> RowStates]
                                             /\ \A c \in Components : rows[m][c] \in RowStates
  BY DEF RowsSet, Components

(* New safe rows leave the fields of a job in agreement. *)
LEMMA Reshaped ==
    ASSUME NEW job, NEW r, NEW real, Shaped(job, r, real), NEW rows \in RowsSet,
           SafeRows(job.rows, rows, r, real)
    PROVE  Shaped([job EXCEPT !.rows = rows], r, real)
<1> DEFINE next == [job EXCEPT !.rows = rows]
<1>1. job \in JobSet /\ "hub" \in Components
  BY RowFacts DEF Shaped
<1>2. next \in JobSet
  BY <1>1, JobUpdates
<1>3. next.rows = rows /\ next.opgen = job.opgen /\ next.failed = job.failed /\ next.supplement = job.supplement
  BY <1>1 DEF JobSet
<1> HIDE DEF next
<1>4. \A m \in Macs : Member(job, m) => Member(next, m)
  BY <1>1, <1>3 DEF Member, SafeRows
<1>5. \A m \in Macs : ~Member(next, m) => \A c \in Components : next.rows[m][c] = "outside"
  BY <1>1, <1>3 DEF Member, SafeRows, Shaped
<1>6. RowsTrue(next, r, real)
  BY <1>3 DEF RowsTrue, SafeRows, Shaped
<1>7. job.failed \subseteq Macs
  BY <1>1, JobFields
<1> QED BY <1>2, <1>3, <1>4, <1>5, <1>6, <1>7 DEF Shaped, next

(* Refreshing a job gives it the state its rows and its catalog call for. *)
LEMMA RefreshedFacts ==
    ASSUME NEW job, NEW r, NEW real, Shaped(job, r, real), job.state \notin Terminal
    PROVE  /\ JobWell(Refreshed(job), r, real)
           /\ Refreshed(job).state \notin Terminal
           /\ Refreshed(job).rows = job.rows /\ Refreshed(job).lease = job.lease
           /\ Refreshed(job).supplement = job.supplement /\ Refreshed(job).catalog = job.catalog
           /\ Refreshed(job).opgen = job.opgen
<1>1. job \in JobSet /\ job.state \in JobStates
  BY JobFields DEF Shaped
<1>2. PICK x \in {"degraded", "running"} :
         Refreshed(job) = [job EXCEPT !.state = x] /\ (x = "degraded" <=> Trying(job))
  BY <1>1 DEF Refreshed, Trying, Terminal
<1> DEFINE next == [job EXCEPT !.state = x]
<1>3. next \in JobSet
  BY <1>1, JobUpdates DEF JobStates
<1>4. /\ next.state = x /\ next.rows = job.rows /\ next.lease = job.lease /\ next.supplement = job.supplement
      /\ next.opgen = job.opgen /\ next.failed = job.failed /\ next.catalog = job.catalog
  BY <1>1 DEF JobSet
<1> HIDE DEF next
<1>5. Shaped(next, r, real)
  BY <1>3, <1>4 DEF Shaped, Member, RowsTrue
<1>6. Trying(next) <=> Trying(job)
  BY <1>4 DEF Trying, Unsettled
<1>7. Standing(next)
  BY <1>2, <1>4, <1>6 DEF Standing, Terminal
<1> QED BY <1>2, <1>4, <1>5, <1>7 DEF JobWell, next, Terminal

(* A job that still has something to try still stands. *)
LEMMA StillStanding ==
    ASSUME NEW job \in JobSet, NEW next \in JobSet, Standing(job), next.state = job.state,
           job.state \notin Terminal,
           Trying(next) <=> Trying(job)
    PROVE  Standing(next)
  BY DEF Standing, Terminal

(* What a tidied job has in common with the job. *)
ScopeOf(job) == {p \in Places : job.rows[p[1]][p[2]] \notin {"outside", "absent", "excluded"}}
Acked(job) == job.catalog = "acknowledged" \/ ~Converged(job)
LEMMA TidyFacts ==
    ASSUME NEW job, NEW next, Tidy(job, next)
    PROVE  ScopeOf(next) = ScopeOf(job) /\ (Acked(job) => Acked(next))
<1>1. \A m \in Macs, c \in Components :
         /\ next.rows[m][c] \notin {"outside", "absent", "excluded"}
            <=> job.rows[m][c] \notin {"outside", "absent", "excluded"}
         /\ next.rows[m][c] \in {"outside", "absent", "current", "excluded"}
            => job.rows[m][c] \in {"outside", "absent", "current", "excluded"}
  BY DEF Tidy, TidyRows, Retryable
<1>2. ScopeOf(next) = ScopeOf(job)
  <2>1. \A p \in Places : p[1] \in Macs /\ p[2] \in Components
    BY DEF Places
  <2> QED BY <2>1, <1>1 DEF ScopeOf
<1>3. Acked(job) => Acked(next)
  BY <1>1 DEF Acked, Converged, Tidy
<1> QED BY <1>2, <1>3

(* Tidied rows are safe; tidying twice is tidying. *)
LEMMA TidySafe ==
    ASSUME NEW job, NEW r, NEW real, Shaped(job, r, real), NEW rows \in RowsSet, TidyRows(job.rows, rows)
    PROVE  SafeRows(job.rows, rows, r, real)
<1>1. job \in JobSet /\ "hub" \in Components /\ job.rows \in RowsSet
  BY RowFacts, JobFields DEF Shaped
<1> SUFFICES ASSUME NEW m \in Macs, NEW c \in Components, rows[m][c] # job.rows[m][c]
             PROVE  /\ rows[m][c] # "outside" /\ (rows[m][c] = "current" => real[m][c] >= r)
                    /\ rows[m]["hub"] # "outside"
  BY DEF SafeRows
<1>2. rows[m][c] \in Retryable \cup {"checking"} /\ job.rows[m][c] \in Retryable
  BY DEF TidyRows
<1>3. Member(job, m)
  BY <1>2 DEF Shaped, Retryable
<1>4. rows[m]["hub"] # "outside"
  BY <1>1, <1>3 DEF TidyRows, Member, Retryable
<1> QED BY <1>2, <1>4 DEF Retryable

LEMMA TidyTrans ==
    ASSUME NEW a, NEW b, NEW c, Tidy(a, b), Tidy(b, c)
    PROVE  Tidy(a, c)
<1>1. \A m \in Macs, k \in Components :
         c.rows[m][k] = a.rows[m][k]
         \/ (a.rows[m][k] \in Retryable /\ c.rows[m][k] \in Retryable \cup {"checking"})
  BY DEF Tidy, TidyRows, Retryable
<1> QED BY <1>1 DEF Tidy, TidyRows

(* The rows and the catalog that have come due are taken up. *)
LEMMA TakenFacts ==
    ASSUME NEW job, NEW r, NEW real, JobWell(job, r, real), job.state \notin Terminal
    PROVE  /\ JobWell(Taken(job), r, real) /\ Tidy(job, Taken(job))
           /\ Taken(job).lease = job.lease /\ Taken(job).supplement = job.supplement
           /\ Taken(job).state \notin Terminal
<1> DEFINE rows == [m \in Macs |-> [c \in Components |->
                       IF job.rows[m][c] = "due" THEN "checking" ELSE job.rows[m][c]]]
           cat == IF job.catalog = "due" THEN "pending" ELSE job.catalog
           one == [job EXCEPT !.rows = rows]
           two == [one EXCEPT !.catalog = cat]
<1>1. job \in JobSet /\ job.rows \in RowsSet /\ job.catalog \in CatalogStates /\ Shaped(job, r, real)
  BY JobFields DEF JobWell, Shaped
<1>2. rows \in RowsSet
  BY <1>1, RowFacts DEF RowsSet, RowStates
<1>3. TidyRows(job.rows, rows)
  BY DEF TidyRows, Retryable
<1>4. cat \in CatalogStates
  BY <1>1 DEF CatalogStates
<1> HIDE DEF rows, cat
<1>5. Shaped(one, r, real)
  BY <1>1, <1>2, <1>3, TidySafe, Reshaped
<1>6. one \in JobSet
  BY <1>5 DEF Shaped
<1>7. two \in JobSet
  BY <1>4, <1>6, JobUpdates
<1>8. /\ two.state = job.state /\ two.rows = rows /\ two.lease = job.lease /\ two.supplement = job.supplement
      /\ two.opgen = job.opgen /\ two.failed = job.failed /\ two.catalog = cat
      /\ one.rows = rows /\ one.opgen = job.opgen /\ one.failed = job.failed /\ one.supplement = job.supplement
  BY <1>1, <1>6 DEF JobSet
<1>9. Taken(job) = Refreshed(two)
  BY <1>1, <1>6 DEF Taken, JobSet, rows, cat
<1> HIDE DEF one, two
<1>10. Shaped(two, r, real)
  BY <1>5, <1>7, <1>8 DEF Shaped, Member, RowsTrue
<1>11. Tidy(job, Refreshed(two))
  BY <1>3, <1>8, <1>10, RefreshedFacts DEF Tidy, cat
<1> QED BY <1>8, <1>9, <1>10, <1>11, RefreshedFacts

-----------------------------------------------------------------------------
(* A replay, and a job that begins *)

(* An update that only hurries what waits leaves the job as it stands. *)
Hurries(old, new) == \A m \in Macs, c \in Components :
    new[m][c] = old[m][c] \/ (old[m][c] \in Retryable /\ new[m][c] \in Retryable)
HurriedJob(job, rows, cat) == [[job EXCEPT !.rows = rows] EXCEPT !.catalog = cat]
LEMMA HurriedFacts ==
    ASSUME NEW job, NEW r, NEW real, JobWell(job, r, real), job.state \notin Terminal,
           NEW rows \in RowsSet, Hurries(job.rows, rows),
           NEW cat \in CatalogStates, cat = job.catalog \/ (cat \in Retryable /\ job.catalog \in Retryable)
    PROVE  LET next == HurriedJob(job, rows, cat) IN
           /\ JobWell(next, r, real) /\ Tidy(job, next)
           /\ next.lease = job.lease /\ next.supplement = job.supplement /\ next.state = job.state
<1> DEFINE one == [job EXCEPT !.rows = rows]
           next == HurriedJob(job, rows, cat)
<1>1. job \in JobSet /\ job.rows \in RowsSet /\ Shaped(job, r, real) /\ Standing(job)
  BY JobFields DEF JobWell, Shaped
<1>2. TidyRows(job.rows, rows)
  BY DEF TidyRows, Hurries
<1>3. Shaped(one, r, real)
  BY <1>1, <1>2, TidySafe, Reshaped
<1>4. one \in JobSet
  BY <1>3 DEF Shaped
<1>5. next \in JobSet
  BY <1>4, JobUpdates DEF HurriedJob
<1>6. /\ next.state = job.state /\ next.rows = rows /\ next.lease = job.lease
      /\ next.supplement = job.supplement
      /\ next.opgen = job.opgen /\ next.failed = job.failed /\ next.catalog = cat
      /\ one.rows = rows /\ one.opgen = job.opgen /\ one.failed = job.failed /\ one.supplement = job.supplement
  BY <1>1, <1>4 DEF JobSet, HurriedJob
<1> HIDE DEF one, next
<1>7. Shaped(next, r, real)
  BY <1>3, <1>5, <1>6 DEF Shaped, Member, RowsTrue
<1>8. Unsettled(next) <=> Unsettled(job)
  BY <1>6 DEF Unsettled, Hurries
<1>9. Trying(next) <=> Trying(job)
  BY <1>6, <1>8 DEF Trying
<1>10. Standing(next)
  BY <1>1, <1>5, <1>6, <1>9, StillStanding
<1>11. Tidy(job, next)
  BY <1>2, <1>6 DEF Tidy, Retryable
<1> QED BY <1>6, <1>7, <1>10, <1>11 DEF JobWell, next

(* Equal fields make equal jobs. *)
LEMMA SameFields ==
    ASSUME NEW job \in JobSet
    PROVE  /\ [job EXCEPT !.rows = job.rows] = job /\ [job EXCEPT !.catalog = job.catalog] = job
  BY DEF JobSet

(* A replay of a job hurries what waits, and keeps the job well. *)
LEMMA ReofferedFacts ==
    ASSUME NEW job, NEW r, NEW real, JobWell(job, r, real)
    PROVE  /\ JobWell(Reoffered(job), r, real) /\ Tidy(job, Reoffered(job))
           /\ Reoffered(job).lease = job.lease /\ Reoffered(job).supplement = job.supplement
           /\ Reoffered(job).state = job.state
           /\ (job.state \in Terminal => Reoffered(job) = job)
<1>1. job \in JobSet /\ job.rows \in RowsSet /\ job.catalog \in CatalogStates
  BY JobFields DEF JobWell, Shaped
<1>2. CASE job.state # "degraded"
  <2>1. Reoffered(job) = job
    BY <1>2 DEF Reoffered
  <2>2. Tidy(job, job)
    BY DEF Tidy, TidyRows
  <2> QED BY <2>1, <2>2
<1>3. CASE job.state = "degraded"
  <2> DEFINE rows == Hurried(job.rows)
             cat == HurriedCatalog(job)
             next == HurriedJob(job, rows, cat)
  <2>1. rows \in RowsSet
    BY <1>1, RowFacts DEF RowsSet, RowStates, Hurried, Retryable
  <2>2. Hurries(job.rows, rows)
    BY DEF Hurries, Hurried, Retryable
  <2>3. cat \in CatalogStates /\ (cat = job.catalog \/ (cat \in Retryable /\ job.catalog \in Retryable))
    BY <1>1 DEF HurriedCatalog, CatalogStates, Retryable
  <2>4. job.state \notin Terminal
    BY <1>3 DEF Terminal
  <2>5. Reoffered(job) = next
    BY <1>1, <1>3 DEF Reoffered, JobSet, HurriedJob
  <2> HIDE DEF rows, cat
  <2>6. /\ JobWell(next, r, real) /\ Tidy(job, next)
        /\ next.lease = job.lease /\ next.supplement = job.supplement /\ next.state = job.state
    BY <2>1, <2>2, <2>3, <2>4, HurriedFacts
  <2> QED BY <2>4, <2>5, <2>6
<1> QED BY <1>2, <1>3

(* A Mac that is heard again, and a row or a catalog that comes due. *)
LEMMA MacHurried ==
    ASSUME NEW job, NEW r, NEW real, JobWell(job, r, real), job.state \notin Terminal,
           NEW m \in Macs, NEW row \in [Components -> RowStates],
           \A c \in Components : row[c] = job.rows[m][c]
           \/ (job.rows[m][c] \in Retryable /\ row[c] \in Retryable),
           NEW next, next = [job EXCEPT !.rows = [job.rows EXCEPT ![m] = row]]
    PROVE  /\ JobWell(next, r, real) /\ Tidy(job, next)
           /\ next.lease = job.lease /\ next.supplement = job.supplement /\ next.state = job.state
<1> DEFINE rows == [job.rows EXCEPT ![m] = row]
<1>1. job \in JobSet /\ job.rows \in RowsSet /\ job.catalog \in CatalogStates
  BY JobFields DEF JobWell, Shaped
<1>2. rows \in RowsSet
  BY <1>1 DEF RowsSet
<1>6. \A k \in Macs : rows[k] = IF k = m THEN row ELSE job.rows[k]
  BY <1>1 DEF RowsSet
<1>7. Hurries(job.rows, rows)
  BY <1>6 DEF Hurries
<1> HIDE DEF rows
<1>3. [job EXCEPT !.rows = rows] \in JobSet
  BY <1>1, <1>2, JobUpdates
<1>4. [job EXCEPT !.rows = rows].catalog = job.catalog
  BY <1>1 DEF JobSet
<1>5. next = HurriedJob(job, rows, job.catalog)
  BY <1>3, <1>4, SameFields DEF rows, HurriedJob
<1> QED BY <1>1, <1>2, <1>5, <1>7, HurriedFacts

(* What a fresh inventory holds. *)
FleetSet == [enabled : SUBSET Macs, fitted : [Macs -> SUBSET Fittings]]
(* The rows of an inventory: a row for each fitted component. *)
LEMMA InventoryFacts ==
    ASSUME NEW now
    PROVE  /\ Inventory(now) \in RowsSet
           /\ \A m \in Macs, c \in Components :
                /\ Inventory(now)[m][c] \in {"outside", "checking", "absent"}
                /\ Inventory(now)[m][c] = "outside" <=> m \notin now.enabled
                /\ Inventory(now)[m]["hub"] = "outside" <=> m \notin now.enabled
                /\ Inventory(now)[m]["hub"] = "checking" <=> m \in now.enabled
<1>1. \A m \in Macs, c \in Components : Inventory(now)[m][c] =
         IF m \notin now.enabled THEN "outside"
         ELSE IF c = "hub" \/ c \in now.fitted[m] THEN "checking" ELSE "absent"
  BY DEF Inventory
<1>2. Inventory(now) \in RowsSet
  BY DEF Inventory, RowsSet, RowStates
<1> QED BY <1>1, <1>2, RowFacts

(* A job that begins is well, and has reached nothing. *)
LEMMA NewJobFacts ==
    ASSUME SoftwareAssumption, NEW r, NEW real, fleet \in FleetSet, fleet.enabled # {}
    PROVE  /\ JobWell(NewJob, r, real) /\ NewJob \in JobSet /\ Acked(NewJob)
           /\ NewJob.lease = "none" /\ NewJob.supplement = 0 /\ NewJob.state = "queued"
           /\ \A m \in Macs, c \in Components : NewJob.rows[m][c] # "current"
<1>1. PICK a \in fleet.enabled : a \in Macs
  BY DEF FleetSet
<1>2. [m \in Macs |-> 0] \in [Macs -> 0 .. MaxSupplement] /\ 0 \in 0 .. MaxSupplement
  BY DEF SoftwareAssumption
<1> DEFINE zero == [m \in Macs |-> 0]
<1>3. \A m \in Macs : zero[m] = 0
  OBVIOUS
<1> HIDE DEF zero
<1>4. /\ NewJob.state = "queued" /\ NewJob.lease = "none" /\ NewJob.failed = {}
      /\ NewJob.rows = Inventory(fleet)
      /\ NewJob.supplement = 0 /\ NewJob.catalog = "pending" /\ NewJob.opgen = zero
  BY DEF NewJob, zero
<1>5. NewJob \in JobSet
  BY <1>2, InventoryFacts DEF NewJob, JobSet, RowsSet, JobStates, Leases, CatalogStates
<1>10. Inventory(fleet)[a]["hub"] = "checking"
  BY <1>1, InventoryFacts, RowFacts
<1>11. \A m \in Macs : Inventory(fleet)[m]["hub"] = "outside"
       => \A c \in Components : Inventory(fleet)[m][c] = "outside"
  BY InventoryFacts
<1>12. \A m \in Macs, c \in Components : Inventory(fleet)[m][c] # "current"
  BY InventoryFacts
<1>13. \A m \in Macs : NewJob.opgen[m] <= NewJob.supplement
  BY <1>3, <1>4
<1>6. Shaped(NewJob, r, real)
  BY <1>1, <1>4, <1>5, <1>10, <1>11, <1>12, <1>13 DEF Shaped, Member, RowsTrue
<1>7. ~Trying(NewJob)
  BY <1>4, InventoryFacts DEF Trying, Unsettled, Retryable
<1>8. Standing(NewJob)
  BY <1>4, <1>7 DEF Standing, Terminal
<1>9. ~Converged(NewJob)
  BY <1>1, <1>4, <1>10, RowFacts DEF Converged
<1> QED BY <1>4, <1>5, <1>6, <1>8, <1>9, InventoryFacts DEF JobWell, Acked

-----------------------------------------------------------------------------
(* Growth, and what is put aside *)

(* Growth adds rows to settle, and takes nothing away. *)
LEMMA SupplementedFacts ==
    ASSUME SoftwareAssumption, NEW job, NEW r, NEW real, Shaped(job, r, real),
           NEW now, Growth(job, now) # {}, job.supplement < MaxSupplement
    PROVE  LET next == Supplemented(job, now) IN
           /\ Shaped(next, r, real) /\ next.state = job.state /\ next.lease = job.lease
           /\ next.supplement = job.supplement + 1 /\ next.catalog = "pending"
           /\ ~Converged(next)
           /\ ScopeOf(job) \subseteq ScopeOf(next) /\ ScopeOf(next) # ScopeOf(job)
<1> DEFINE grown == {p[1] : p \in Growth(job, now)}
           g == job.supplement + 1
           rows == [m \in Macs |-> IF m \in grown /\ ~Member(job, m) THEN Inventory(now)[m]
                                   ELSE [c \in Components |->
                                        IF << m, c >> \in Growth(job, now) THEN "checking" ELSE job.rows[m][c]]]
           opgen == [m \in Macs |-> IF m \in grown THEN g ELSE job.opgen[m]]
           child == job.child \ grown
           next == Supplemented(job, now)
           one == [job EXCEPT !.rows = rows]
           two == [one EXCEPT !.child = child]
           three == [two EXCEPT !.opgen = opgen]
           four == [three EXCEPT !.supplement = g]
           five == [four EXCEPT !.catalog = "pending"]
<1>1. /\ job \in JobSet /\ job.rows \in RowsSet /\ job.opgen \in [Macs -> 0 .. MaxSupplement]
      /\ job.supplement \in 0 .. MaxSupplement /\ job.child \in SUBSET Macs
  BY JobFields DEF Shaped
<1>2. /\ \A p \in Growth(job, now) : /\ p \in Macs \X Components /\ p[1] \in Macs /\ p[2] \in Components
                                     /\ p = << p[1], p[2] >> /\ Inventory(now)[p[1]][p[2]] = "checking"
                                     /\ job.rows[p[1]][p[2]] \in {"outside", "absent", "excluded"}
      /\ \A m \in Macs, c \in Components : << m, c >> \in Growth(job, now) => m \in grown
  BY DEF Growth
<1>3. \A m \in grown : m \in Macs /\ Inventory(now)[m]["hub"] = "checking"
  <2>1. \A p \in Growth(job, now) : Inventory(now)[p[1]]["hub"] = "checking"
    BY <1>2, InventoryFacts
  <2> QED BY <2>1, <1>2
<1>4. \A m \in Macs, c \in Components : << m, c >> \notin Growth(job, now) \/ m \in grown
  BY <1>2
<1>5. g \in 0 .. MaxSupplement
  BY <1>1 DEF SoftwareAssumption
<1> HIDE DEF grown
<1>6. opgen \in [Macs -> 0 .. MaxSupplement] /\ \A m \in Macs : opgen[m] <= g
  <2>1. \A m \in Macs : opgen[m] \in 0 .. MaxSupplement
    BY <1>1, <1>5
  <2>2. \A m \in Macs : job.opgen[m] \in Nat /\ job.opgen[m] <= job.supplement
    BY <1>1 DEF Shaped
  <2>3. g \in Nat /\ job.supplement \in Nat
    BY <1>1
  <2>4. \A m \in Macs : opgen[m] <= g
    BY <2>2, <2>3
  <2> QED BY <2>1, <2>4
<1> HIDE DEF g, opgen
<1>7. \A m \in Macs, c \in Components :
        rows[m][c] = IF m \in grown /\ ~Member(job, m) THEN Inventory(now)[m][c]
                     ELSE IF << m, c >> \in Growth(job, now) THEN "checking" ELSE job.rows[m][c]
  OBVIOUS
<1>8. rows \in RowsSet
  <2>1. ASSUME NEW m \in Macs
        PROVE  rows[m] \in [Components -> RowStates]
    <3>1. Inventory(now)[m] \in [Components -> RowStates]
      BY InventoryFacts DEF RowsSet
    <3>2. [c \in Components |-> IF << m, c >> \in Growth(job, now) THEN "checking" ELSE job.rows[m][c]]
             \in [Components -> RowStates]
      BY <1>1, RowFacts DEF RowStates
    <3> QED BY <3>1, <3>2
  <2> QED BY <2>1 DEF RowsSet
<1>9. child \in SUBSET Macs
  BY <1>1
<1> HIDE DEF rows, child
<1>10. one \in JobSet
  BY <1>1, <1>8, JobUpdates
<1>11. two \in JobSet
  BY <1>10, <1>9, JobUpdates
<1>12. three \in JobSet
  BY <1>11, <1>6, JobUpdates
<1>13. four \in JobSet
  BY <1>12, <1>5, JobUpdates
<1>14. five \in JobSet
  BY <1>13, JobUpdates DEF CatalogStates
<1>26. next = [job EXCEPT !.rows = rows, !.child = child, !.opgen = opgen, !.supplement = g,
           !.catalog = "pending"]
  BY DEF Supplemented, rows, child, opgen, g, grown
<1>15. next = five
  <2> HIDE DEF next
  <2> QED BY <1>1, <1>26 DEF JobSet
<1>16. /\ five.state = job.state /\ five.lease = job.lease /\ five.rows = rows /\ five.supplement = g
       /\ five.catalog = "pending" /\ five.opgen = opgen /\ five.failed = job.failed
  BY <1>1, <1>10, <1>11, <1>12, <1>13 DEF JobSet
<1> HIDE DEF one, two, three, four, five
<1>17. \A m \in Macs : Member(job, m) => Member(five, m)
  BY <1>7, <1>16, RowFacts DEF Member
<1>18. ASSUME NEW m \in Macs, ~Member(five, m)
       PROVE  \A c \in Components : rows[m][c] = "outside"
  <2>1. ~Member(job, m)
    BY <1>17, <1>18
  <2>2. m \notin grown
    BY <2>1, <1>3, <1>7, <1>16, <1>18, RowFacts DEF Member
  <2> QED BY <2>1, <2>2, <1>4, <1>7 DEF Shaped
<1>27. \A m \in Macs, c \in Components : Inventory(now)[m][c] # "current"
  BY InventoryFacts
<1>28. \A m \in Macs, c \in Components : rows[m][c] = "current" => job.rows[m][c] = "current"
  BY <1>7, <1>27
<1>19. RowsTrue(five, r, real)
  BY <1>16, <1>28 DEF RowsTrue, Shaped
<1>20. Shaped(five, r, real)
  <2>1. job.failed \subseteq Macs
    BY <1>1, JobFields
  <2> QED BY <2>1, <1>6, <1>14, <1>16, <1>17, <1>18, <1>19 DEF Shaped
<1>21. PICK p \in Growth(job, now) : TRUE
  OBVIOUS
<1>22. rows[p[1]][p[2]] = "checking" /\ p[1] \in Macs /\ p[2] \in Components /\ p \in Places
  BY <1>2, <1>7 DEF Places
<1>23. ~Converged(five)
  BY <1>22, <1>16 DEF Converged
<1>24. p \in ScopeOf(five) /\ p \notin ScopeOf(job)
  BY <1>2, <1>16, <1>22 DEF ScopeOf
<1>25. ScopeOf(job) \subseteq ScopeOf(five)
  <2>1. ASSUME NEW q \in ScopeOf(job)
        PROVE  q \in ScopeOf(five)
    <3>1. /\ q \in Places /\ q[1] \in Macs /\ q[2] \in Components /\ q = << q[1], q[2] >>
          /\ job.rows[q[1]][q[2]] \notin {"outside", "absent", "excluded"}
      BY DEF ScopeOf, Places
    <3>2. Member(job, q[1]) /\ << q[1], q[2] >> \notin Growth(job, now)
      BY <3>1, <1>2 DEF Shaped
    <3>3. rows[q[1]][q[2]] = job.rows[q[1]][q[2]]
      BY <3>1, <3>2, <1>7
    <3> QED BY <3>1, <3>3, <1>16 DEF ScopeOf
  <2> QED BY <2>1
<1> QED BY <1>15, <1>16, <1>20, <1>23, <1>24, <1>25 DEF g

(* A disabled, a silent or a blocked Mac: what is not current is put aside. *)
LEMMA BarredFacts ==
    ASSUME NEW rows \in RowsSet, NEW state \in {"waiting", "excluded", "blocked"}, NEW m \in Macs
    PROVE  /\ Barred(rows, m, state) \in [Components -> RowStates]
           /\ \A c \in Components : Barred(rows, m, state)[c] # rows[m][c] =>
                 rows[m][c] # "outside" /\ Barred(rows, m, state)[c] = state
           /\ \A c \in Components : Barred(rows, m, state)[c] = "outside" => rows[m][c] = "outside"
  BY RowFacts DEF Barred, RowStates, Retryable, Installed

(* Barring a Mac reports nothing new. *)
LEMMA BarredSafe ==
    ASSUME NEW job, NEW r, NEW real, Shaped(job, r, real), NEW state \in {"waiting", "excluded", "blocked"},
           NEW which \in SUBSET Macs, NEW rows,
           rows = [m \in Macs |-> IF m \in which THEN Barred(job.rows, m, state) ELSE job.rows[m]]
    PROVE  rows \in RowsSet /\ SafeRows(job.rows, rows, r, real)
<1>1. job \in JobSet /\ job.rows \in RowsSet
  BY JobFields DEF Shaped
<1>2. rows \in RowsSet
  BY <1>1, BarredFacts, RowFacts DEF RowsSet
<1>3. ASSUME NEW m \in Macs, NEW c \in Components, rows[m][c] # job.rows[m][c]
      PROVE  /\ rows[m][c] # "outside" /\ (rows[m][c] = "current" => real[m][c] >= r)
             /\ rows[m]["hub"] # "outside"
  <2>1. rows[m] = Barred(job.rows, m, state)
    BY <1>3
  <2>2. rows[m][c] = state /\ job.rows[m][c] # "outside"
    BY <1>1, <1>3, <2>1, BarredFacts
  <2>3. Member(job, m)
    BY <2>2 DEF Shaped
  <2>4. rows[m]["hub"] # "outside"
    BY <1>1, <2>1, <2>3, BarredFacts, RowFacts DEF Member
  <2> QED BY <2>2, <2>4
<1> QED BY <1>2, <1>3 DEF SafeRows

(* A blocked Mac keeps the job well. *)
LEMMA BlockedFacts ==
    ASSUME NEW job, NEW r, NEW real, Shaped(job, r, real)
    PROVE  /\ JobWell(Blocked(job), r, real) /\ Blocked(job).state = "blocked"
           /\ Blocked(job).lease = "none" /\ Blocked(job).supplement = job.supplement
<1> DEFINE rows == [m \in Macs |-> Barred(job.rows, m, "blocked")]
           one == [job EXCEPT !.rows = rows]
           two == [one EXCEPT !.state = "blocked"]
           three == [two EXCEPT !.lease = "none"]
<1>1. job \in JobSet /\ job.rows \in RowsSet
  BY JobFields DEF Shaped
<1>2. rows = [m \in Macs |-> IF m \in Macs THEN Barred(job.rows, m, "blocked") ELSE job.rows[m]]
  OBVIOUS
<1>3. rows \in RowsSet /\ SafeRows(job.rows, rows, r, real)
  <2> HIDE DEF rows
  <2> QED BY <1>2, BarredSafe
<1> HIDE DEF rows
<1>4. Shaped(one, r, real) /\ one \in JobSet
  BY <1>3, Reshaped DEF Shaped
<1>5. two \in JobSet
  BY <1>4, JobUpdates DEF JobStates, Terminal
<1>6. three \in JobSet
  BY <1>5, JobUpdates DEF Leases
<1>7. Blocked(job) = three
  BY <1>1 DEF Blocked, JobSet, rows
<1>8. /\ three.state = "blocked" /\ three.lease = "none" /\ three.rows = one.rows /\ three.opgen = one.opgen
      /\ three.failed = one.failed /\ three.supplement = one.supplement /\ one.supplement = job.supplement
  BY <1>1, <1>4, <1>5 DEF JobSet
<1> HIDE DEF one, two, three
<1>9. Shaped(three, r, real)
  BY <1>4, <1>6, <1>8 DEF Shaped, Member, RowsTrue
<1>10. Standing(three)
  BY <1>8 DEF Standing, Terminal
<1> QED BY <1>7, <1>8, <1>9, <1>10 DEF JobWell

(* Parked, Excluded and WithoutDisabled *)
LEMMA PutAsideFacts ==
    ASSUME NEW job, NEW r, NEW real, JobWell(job, r, real), job.state \notin Terminal,
           NEW state \in {"waiting", "excluded", "blocked"}, NEW which \in SUBSET Macs
    PROVE  LET next == Refreshed([job EXCEPT !.rows =
                          [m \in Macs |-> IF m \in which THEN Barred(job.rows, m, state) ELSE job.rows[m]]]) IN
           /\ JobWell(next, r, real) /\ next.state \notin Terminal
           /\ next.lease = job.lease /\ next.supplement = job.supplement
<1> DEFINE rows == [m \in Macs |-> IF m \in which THEN Barred(job.rows, m, state) ELSE job.rows[m]]
           one == [job EXCEPT !.rows = rows]
<1>1. job \in JobSet /\ Shaped(job, r, real)
  BY DEF JobWell, Shaped
<1>2. rows \in RowsSet /\ SafeRows(job.rows, rows, r, real)
  BY <1>1, BarredSafe
<1> HIDE DEF rows
<1>3. Shaped(one, r, real)
  BY <1>1, <1>2, Reshaped
<1>4. one.state = job.state /\ one.lease = job.lease /\ one.supplement = job.supplement
  BY <1>1 DEF JobSet
<1> HIDE DEF one
<1>5. /\ JobWell(Refreshed(one), r, real) /\ Refreshed(one).state \notin Terminal
      /\ Refreshed(one).lease = job.lease /\ Refreshed(one).supplement = job.supplement
  BY <1>3, <1>4, RefreshedFacts
<1> QED BY <1>5 DEF one, rows

-----------------------------------------------------------------------------
(* One job of a file put forward *)

(* What a step that neither grows, publishes, withdraws nor activates may do. *)
Keeps(f, g) ==
    /\ g.desired = f.desired /\ g.active = f.active
    /\ \A id \in JobIds : /\ Live(g, id) <=> Live(f, id)
                          /\ Live(f, id) /\ f.jobs[id].state \in Terminal => g.jobs[id] = f.jobs[id]
(* No other job moves. *)
OnlyAt(f, g, id) == \A x \in JobIds \ {id} : g.jobs[x] = f.jobs[x]

(* What is known of the jobs of a file that is well. *)
LEMMA FileFields ==
    ASSUME SoftwareAssumption, NEW f, NEW real, FileWell(f, real)
    PROVE  /\ f \in FileSet /\ f.desired \in Nat /\ f.desired \in Releases \cup {0}
           /\ f.active \in JobIds \cup {NoActive}
           /\ f.active # NoActive => /\ f.active \in JobIds /\ Live(f, f.active) /\ f.active[1] = f.desired
                                     /\ f.desired # 0 /\ f.active[1] \in Releases
           /\ \A id \in JobIds : Live(f, id) => f.jobs[id] \in JobSet
           /\ \A id \in JobIds : f.jobs[id] \in JobSet \cup {NoJob}
<1>1. f \in FileSet
  BY DEF FileWell
<1>2. /\ f.desired \in Releases \cup {0} /\ f.active \in JobIds \cup {NoActive}
      /\ \A id \in JobIds : f.jobs[id] \in JobSet \cup {NoJob}
  BY <1>1 DEF FileSet
<1>3. \A id \in JobIds : Live(f, id) => f.jobs[id] \in JobSet
  BY <1>2 DEF Live
<1>7. (\A r \in Releases : r \in Nat) /\ 0 \notin Releases /\ 0 \in Nat
  BY DEF SoftwareAssumption
<1>4. f.desired \in Nat /\ 0 \notin Releases
  <2>1. f.desired \in Releases \cup {0}
    BY <1>2
  <2> QED BY <2>1, <1>7
<1>5. f.active # NoActive => /\ f.active \in JobIds /\ Live(f, f.active) /\ f.active[1] = f.desired
  BY <1>2 DEF FileWell
<1>6. f.active # NoActive => f.active[1] \in Releases
  BY <1>5, IdFacts
<1> QED BY <1>1, <1>2, <1>3, <1>4, <1>5, <1>6

(* A job of a file that is well, replaced by one that is well. *)
LEMMA PutWell ==
    ASSUME SoftwareAssumption, NEW f, NEW real, FileWell(f, real), NEW id \in JobIds, Live(f, id),
           f.jobs[id].state \notin Terminal,
           NEW job, JobWell(job, id[1], real), f.jobs[id].supplement <= job.supplement,
           job.lease # "none" => f.active = id
    PROVE  FileWell(Put(f, id, job), real) /\ Keeps(f, Put(f, id, job)) /\ OnlyAt(f, Put(f, id, job), id)
<1> DEFINE g == Put(f, id, job)
<1>1. f \in FileSet /\ job \in JobSet
  BY DEF FileWell, JobWell, Shaped
<1>2. /\ g \in FileSet /\ g.desired = f.desired /\ g.active = f.active /\ g.jobs[id] = job
      /\ \A x \in JobIds \ {id} : g.jobs[x] = f.jobs[x]
  BY <1>1, PutFacts
<1> HIDE DEF g
<1>3. \A x \in JobIds : Live(g, x) <=> Live(f, x)
  BY <1>1, <1>2, JobFields DEF Live
<1>4. f.active # NoActive => f.active \in JobIds
  BY FileFields
<1>5. g.active # NoActive => g.active[1] = g.desired /\ Live(g, g.active)
  BY <1>2, <1>3, <1>4 DEF FileWell
<1>6. ASSUME NEW x \in JobIds, Live(g, x)
      PROVE  JobWell(g.jobs[x], x[1], real) /\ JobPlaced(g, x)
  <2>1. Live(f, x) /\ JobWell(f.jobs[x], x[1], real) /\ JobPlaced(f, x)
    BY <1>3, <1>6 DEF FileWell
  <2>2. JobWell(g.jobs[x], x[1], real)
    BY <1>2, <2>1
  <2>3. x[1] \in Releases /\ x[2] \in 0 .. MaxSupplement /\ x[2] \in Nat
    BY IdFacts
  <2>4. 0 \in 0 .. MaxSupplement /\ (x[2] > 0 => x[2] - 1 \in 0 .. MaxSupplement)
    BY <2>3 DEF SoftwareAssumption
  <2>5. << x[1], 0 >> \in JobIds /\ (x[2] > 0 => << x[1], x[2] - 1 >> \in JobIds)
    BY <2>3, <2>4, IdFacts
  <2>6. Live(g, << x[1], 0 >>)
    BY <1>3, <2>1, <2>5 DEF JobPlaced
  <2>7. x[2] > 0 => Live(g, << x[1], x[2] - 1 >>) /\ g.jobs[<< x[1], x[2] - 1 >>].state = "complete"
    <3>1. SUFFICES ASSUME x[2] > 0
                   PROVE  Live(g, << x[1], x[2] - 1 >>) /\ g.jobs[<< x[1], x[2] - 1 >>].state = "complete"
      OBVIOUS
    <3>2. Live(f, << x[1], x[2] - 1 >>) /\ f.jobs[<< x[1], x[2] - 1 >>].state = "complete"
      BY <2>1, <3>1 DEF JobPlaced
    <3>3. << x[1], x[2] - 1 >> # id
      BY <3>2 DEF Terminal
    <3> QED BY <1>2, <1>3, <2>5, <3>1, <3>2, <3>3
  <2>8. x[2] <= g.jobs[x].supplement
    <3>1. x[2] <= f.jobs[x].supplement
      BY <2>1 DEF JobPlaced
    <3>2. f.jobs[x].supplement \in Nat /\ g.jobs[x].supplement \in Nat
      BY <2>1, <2>2, JobFields DEF JobWell, Shaped
    <3>3. f.jobs[x].supplement <= g.jobs[x].supplement
      BY <1>2, <3>2
    <3> QED BY <2>3, <3>1, <3>2, <3>3
  <2>9. g.jobs[x].lease # "none" => g.active = x
    BY <1>2, <2>1 DEF JobPlaced
  <2>10. x[1] <= g.desired /\ (x[1] = g.desired => g.active # NoActive /\ x[2] <= g.active[2])
    BY <1>2, <2>1 DEF JobPlaced
  <2> QED BY <2>2, <2>6, <2>7, <2>8, <2>9, <2>10 DEF JobPlaced
<1>7. FileWell(g, real)
  BY <1>2, <1>5, <1>6 DEF FileWell
<1>8. Keeps(f, g)
  BY <1>2, <1>3 DEF Keeps
<1> QED BY <1>2, <1>7, <1>8 DEF g, OnlyAt

(* One job put forward, or left as it is. *)
Works1(f, g, id, real) == FileWell(g, real) /\ Keeps(f, g) /\ OnlyAt(f, g, id)
(* Keeping composes. *)
LEMMA KeepsTrans ==
    ASSUME NEW f, NEW g, NEW h, Keeps(f, g), Keeps(g, h)
    PROVE  Keeps(f, h)
  BY DEF Keeps
LEMMA KeepsSame == \A f : Keeps(f, f) /\ \A id : OnlyAt(f, f, id)
  BY DEF Keeps, OnlyAt
LEMMA WorksTrans ==
    ASSUME NEW f, NEW g, NEW h, NEW id, NEW real, Works1(f, g, id, real), Works1(g, h, id, real)
    PROVE  Works1(f, h, id, real)
  BY KeepsTrans DEF Works1, OnlyAt

(* record_component for one component *)
Results == {"none", "current", "restarting", "failed", "clean", "wrong"}
LEMMA RecordWell ==
    ASSUME SoftwareAssumption, NEW f, NEW real, FileWell(f, real), NEW id \in JobIds, Live(f, id),
           NEW m \in Macs, NEW c \in Components, NEW result \in Results,
           result = "current" => real[m][c] >= id[1],
           f.jobs[id].state \notin Terminal /\ result # "none" => c = "hub" \/ Member(f.jobs[id], m)
    PROVE  LET g == Record(f, id, m, c, result) IN
           /\ Works1(f, g, id, real)
           /\ g.jobs[id].state \notin Terminal /\ (result # "none" \/ Member(f.jobs[id], m))
              => Member(g.jobs[id], m)
<1> DEFINE job == f.jobs[id]
           bad == IF result = "clean" THEN job.failed \cup {m} ELSE job.failed
           row == CASE result = "current" -> "current"
                    [] result = "restarting" -> "checking"
                    [] OTHER -> "waiting"
           rows == [job.rows EXCEPT ![m] = [job.rows[m] EXCEPT ![c] = row]]
           one == [job EXCEPT !.rows = rows]
           recorded == [one EXCEPT !.failed = bad]
           g == Record(f, id, m, c, result)
<1>1. JobWell(job, id[1], real) /\ JobPlaced(f, id) /\ f \in FileSet
  BY DEF FileWell
<1>2. Shaped(job, id[1], real) /\ job \in JobSet /\ job.rows \in RowsSet /\ job.failed \in SUBSET Macs
      /\ job.supplement \in Nat
  BY <1>1, JobFields DEF JobWell, Shaped
<1>3. Live(f, id) /\ (job.lease # "none" => f.active = id)
  BY <1>1 DEF JobPlaced
<1>4. CASE job.state \in Terminal \/ result = "none"
  <2>1. g = f
    BY <1>4 DEF Record
  <2> QED BY <1>4, <2>1, KeepsSame DEF Works1
<1>5. CASE job.state \notin Terminal /\ result # "none"
  <2>1. row \in {"current", "checking", "waiting"} /\ (row = "current" => result = "current")
    OBVIOUS
  <2>2. row \in RowStates
    BY <2>1 DEF RowStates, Retryable
  <2> HIDE DEF row
  <2>3. rows \in RowsSet
    BY <1>2, <2>2, RowFacts DEF RowsSet
  <2>4. \A k \in Macs, d \in Components : rows[k][d] = IF k = m /\ d = c THEN row ELSE job.rows[k][d]
    BY <1>2, RowFacts DEF RowsSet
  <2> HIDE DEF rows
  <2>5. rows[m]["hub"] # "outside"
    BY <1>5, <2>1, <2>4, RowFacts DEF Member
  <2>6. SafeRows(job.rows, rows, id[1], real)
    BY <2>1, <2>4, <2>5 DEF SafeRows
  <2>7. Shaped(one, id[1], real)
    BY <1>2, <2>3, <2>6, Reshaped
  <2>8. one \in JobSet
    BY <2>7 DEF Shaped
  <2>9. bad \in SUBSET Macs /\ bad \subseteq job.failed \cup {m}
    BY <1>2
  <2> HIDE DEF bad
  <2>10. recorded \in JobSet
    BY <2>8, <2>9, JobUpdates
  <2>11. /\ one.rows = rows /\ one.opgen = job.opgen /\ one.supplement = job.supplement
         /\ one.failed = job.failed
         /\ recorded.rows = rows /\ recorded.opgen = job.opgen /\ recorded.supplement = job.supplement
         /\ recorded.failed = bad /\ recorded.lease = job.lease /\ recorded.state = job.state
    BY <1>2, <2>8 DEF JobSet
  <2> HIDE DEF one
  <2>12. Member(recorded, m) /\ \A k \in Macs : Member(one, k) <=> Member(recorded, k)
    BY <2>5, <2>11 DEF Member
  <2>13. RowsTrue(recorded, id[1], real)
    BY <2>7, <2>11 DEF RowsTrue, Shaped
  <2>14. Shaped(recorded, id[1], real)
    BY <2>7, <2>9, <2>10, <2>11, <2>12, <2>13 DEF Shaped
  <2>15. recorded = [job EXCEPT !.rows[m][c] = row, !.failed = bad]
    BY <1>2 DEF JobSet, one, rows
  <2>16. g = IF result = "wrong" THEN Put(f, id, Blocked(job))
             ELSE IF result = "clean" /\ Cardinality(bad) >= 2 THEN Put(f, id, Blocked(recorded))
             ELSE Put(f, id, Refreshed(recorded))
    BY <1>5, <2>15 DEF Record, row, bad
  <2> HIDE DEF recorded, g
  <2>17. \A next : JobWell(next, id[1], real) /\ next.supplement = job.supplement
         /\ next.lease \in {job.lease, "none"}
                     => Works1(f, Put(f, id, next), id, real) /\ Put(f, id, next).jobs[id] = next
    <3>1. SUFFICES ASSUME NEW next, JobWell(next, id[1], real), next.supplement = job.supplement,
                          next.lease \in {job.lease, "none"}
                   PROVE  Works1(f, Put(f, id, next), id, real) /\ Put(f, id, next).jobs[id] = next
      OBVIOUS
    <3>2. job.supplement <= next.supplement /\ (next.lease # "none" => f.active = id)
      BY <1>2, <1>3, <3>1
    <3>3. Works1(f, Put(f, id, next), id, real)
      BY <1>3, <1>5, <3>1, <3>2, PutWell DEF Works1
    <3>4. next \in JobSet
      BY <3>1 DEF JobWell, Shaped
    <3> QED BY <1>1, <3>3, <3>4, PutFacts
  <2>18. CASE result = "wrong"
    <3>1. Works1(f, g, id, real) /\ g.jobs[id].state \in Terminal
      BY <1>2, <2>16, <2>17, <2>18, BlockedFacts DEF Terminal
    <3> QED BY <3>1 DEF g
  <2>19. CASE result = "clean" /\ Cardinality(bad) >= 2
    <3>1. Works1(f, g, id, real) /\ g.jobs[id].state \in Terminal
      BY <2>11, <2>14, <2>16, <2>17, <2>19, BlockedFacts DEF Terminal
    <3> QED BY <3>1 DEF g
  <2>20. CASE ~(result = "wrong") /\ ~(result = "clean" /\ Cardinality(bad) >= 2)
    <3>1. /\ JobWell(Refreshed(recorded), id[1], real) /\ Refreshed(recorded).rows = rows
          /\ Refreshed(recorded).lease = job.lease /\ Refreshed(recorded).supplement = job.supplement
      BY <1>5, <2>11, <2>14, RefreshedFacts
    <3>2. Works1(f, g, id, real) /\ g.jobs[id].rows = rows
      BY <2>16, <2>17, <2>20, <3>1
    <3>3. Member(g.jobs[id], m)
      BY <2>5, <3>2 DEF Member
    <3> QED BY <3>2, <3>3 DEF g
  <2> QED BY <2>18, <2>19, <2>20
<1> QED BY <1>4, <1>5

-----------------------------------------------------------------------------
(* The active job, tended or grown, and runs left in peace *)

(* What the transactions outside a run do: they tend the active job, or grow it. *)
Tended(f, g) ==
    /\ Keeps(f, g)
    /\ \A id \in JobIds : Live(f, id) => /\ Tidy(f.jobs[id], g.jobs[id])
                                         /\ g.jobs[id].state \in Terminal <=> f.jobs[id].state \in Terminal
Grown(f, g) ==
    /\ f.active # NoActive /\ Current(f).state = "complete"
    /\ g.desired = f.desired /\ g.active \in JobIds /\ g.active[1] = f.active[1] /\ g.active # NoActive
    /\ Current(g).state \notin Terminal
    /\ ScopeOf(Current(f)) \subseteq ScopeOf(Current(g)) /\ ScopeOf(Current(g)) # ScopeOf(Current(f))
    /\ \A id \in JobIds : Live(f, id) =>
          Live(g, id) /\ (f.jobs[id].state \in Terminal => g.jobs[id] = f.jobs[id])
Calm(f, g) == \A id \in JobIds : Live(g, id) /\ (Live(f, id) => Acked(f.jobs[id])) => Acked(g.jobs[id])
Moves(f, g) == (Keeps(f, g) \/ Grown(f, g)) /\ Calm(f, g)

(* What tends moves; tending composes, with itself and with moves. *)
LEMMA TendedMoves ==
    ASSUME NEW f, NEW g, Tended(f, g)
    PROVE  Moves(f, g)
  BY TidyFacts DEF Moves, Tended, Calm, Keeps
LEMMA TendedSame == \A f : Tended(f, f)
  BY KeepsSame DEF Tended, Tidy, TidyRows
LEMMA TendedTrans ==
    ASSUME NEW f, NEW g, NEW h, Tended(f, g), Tended(g, h)
    PROVE  Tended(f, h)
<1>1. Keeps(f, h)
  BY KeepsTrans DEF Tended
<1>2. ASSUME NEW id \in JobIds, Live(f, id)
      PROVE  Tidy(f.jobs[id], h.jobs[id]) /\ (h.jobs[id].state \in Terminal <=> f.jobs[id].state \in Terminal)
  <2>1. Live(g, id)
    BY <1>2 DEF Tended, Keeps
  <2>2. Tidy(f.jobs[id], g.jobs[id]) /\ (g.jobs[id].state \in Terminal <=> f.jobs[id].state \in Terminal)
    BY <1>2 DEF Tended
  <2>3. Tidy(g.jobs[id], h.jobs[id]) /\ (h.jobs[id].state \in Terminal <=> g.jobs[id].state \in Terminal)
    BY <2>1 DEF Tended
  <2> QED BY <2>2, <2>3, TidyTrans
<1> QED BY <1>1, <1>2 DEF Tended

LEMMA MovesThenTended ==
    ASSUME SoftwareAssumption, NEW f, NEW g, NEW h, NEW real, FileWell(f, real), FileWell(g, real), Moves(f, g),
           Tended(g, h)
    PROVE  Moves(f, h)
<1>1. Calm(f, h)
  <2>1. Calm(g, h)
    BY TendedMoves DEF Moves
  <2>2. ASSUME NEW id \in JobIds, Live(h, id), Live(f, id) => Acked(f.jobs[id])
        PROVE  Acked(h.jobs[id])
    <3>1. Live(g, id)
      BY <2>2 DEF Tended, Keeps
    <3>2. Acked(g.jobs[id])
      BY <2>2, <3>1 DEF Moves, Calm
    <3> QED BY <2>1, <2>2, <3>2 DEF Calm
  <2> QED BY <2>2 DEF Calm
<1>2. CASE Keeps(f, g)
  BY <1>1, <1>2, KeepsTrans DEF Moves, Tended
<1>3. CASE Grown(f, g)
  <2>1. g.active \in JobIds /\ Live(g, g.active) /\ g.active # NoActive
    BY <1>3, FileFields DEF Grown
  <2>2. h.active = g.active /\ h.desired = g.desired
    BY DEF Tended, Keeps
  <2>3. ScopeOf(Current(h)) = ScopeOf(Current(g)) /\ Current(h).state \notin Terminal
    BY <1>3, <2>1, <2>2, TidyFacts DEF Tended, Current, Grown
  <2>4. \A id \in JobIds : Live(f, id) => Live(h, id)
        /\ (f.jobs[id].state \in Terminal => h.jobs[id] = f.jobs[id])
    <3>1. \A id \in JobIds : Live(f, id) => Live(g, id)
          /\ (f.jobs[id].state \in Terminal => g.jobs[id] = f.jobs[id])
      BY <1>3 DEF Grown
    <3>2. \A id \in JobIds : Live(g, id) => Live(h, id)
          /\ (g.jobs[id].state \in Terminal => h.jobs[id] = g.jobs[id])
      BY DEF Tended, Keeps
    <3> QED BY <3>1, <3>2
  <2>5. Grown(f, h)
    BY <1>3, <2>1, <2>2, <2>3, <2>4 DEF Grown
  <2> QED BY <1>1, <2>5 DEF Moves
<1> QED BY <1>2, <1>3 DEF Moves

LEMMA TendedThenMoves ==
    ASSUME SoftwareAssumption, NEW f, NEW g, NEW h, NEW real, FileWell(f, real), FileWell(g, real), Tended(f, g),
           Moves(g, h)
    PROVE  Moves(f, h)
<1>1. Calm(f, h)
  <2>1. Calm(f, g) /\ Calm(g, h)
    BY TendedMoves DEF Moves
  <2>2. \A id \in JobIds : Live(g, id) <=> Live(f, id)
    BY DEF Tended, Keeps
  <2> QED BY <2>1, <2>2 DEF Calm
<1>2. CASE Keeps(g, h)
  BY <1>1, <1>2, KeepsTrans DEF Moves, Tended
<1>3. CASE Grown(g, h)
  <2>1. g.active = f.active /\ g.desired = f.desired /\ f.active \in JobIds /\ Live(f, f.active)
        /\ f.active # NoActive
    BY <1>3, FileFields DEF Grown, Tended, Keeps
  <2>2. Current(g).state \in Terminal
    BY <1>3 DEF Grown, Terminal
  <2>3. Current(f).state \in Terminal
    BY <2>1, <2>2 DEF Tended, Current
  <2>4. Current(g) = Current(f)
    BY <2>1, <2>3 DEF Tended, Keeps, Current
  <2>5. \A id \in JobIds : Live(f, id) => Live(h, id)
        /\ (f.jobs[id].state \in Terminal => h.jobs[id] = f.jobs[id])
    <3>1. \A id \in JobIds : Live(g, id) => Live(h, id)
          /\ (g.jobs[id].state \in Terminal => h.jobs[id] = g.jobs[id])
      BY <1>3 DEF Grown
    <3>2. \A id \in JobIds : Live(f, id) => Live(g, id)
          /\ (f.jobs[id].state \in Terminal => g.jobs[id] = f.jobs[id])
      BY DEF Tended, Keeps
    <3> QED BY <3>1, <3>2
  <2>6. Grown(f, h)
    BY <1>3, <2>1, <2>4, <2>5 DEF Grown
  <2> QED BY <1>1, <2>6 DEF Moves
<1> QED BY <1>2, <1>3 DEF Moves

(* The active job, tended *)
(* The active job, when there is one that is not over. *)
LEMMA ActiveFacts ==
    ASSUME SoftwareAssumption, NEW f, NEW real, FileWell(f, real), f.active # NoActive
    PROVE  /\ f \in FileSet /\ f.active \in JobIds /\ Live(f, f.active)
           /\ JobWell(Current(f), f.active[1], real)
           /\ Shaped(Current(f), f.active[1], real) /\ Current(f) \in JobSet /\ Current(f).supplement \in Nat
           /\ Current(f).rows \in RowsSet /\ Current(f).catalog \in CatalogStates /\ Current(f).gen \in Nat
           /\ Current(f).lease \in Leases
           /\ Current(f).state \in Terminal => Current(f).lease = "none"
<1>1. f \in FileSet /\ f.active \in JobIds /\ Live(f, f.active)
  BY FileFields
<1>2. JobWell(Current(f), f.active[1], real)
  BY <1>1 DEF FileWell, Current
<1>3. Current(f) \in JobSet
  BY <1>2 DEF JobWell, Shaped
<1> QED BY <1>1, <1>2, <1>3, JobFields DEF JobWell, Standing

(* Tending the active job is a transaction. *)
LEMMA TendPut ==
    ASSUME SoftwareAssumption, NEW f, NEW real, FileWell(f, real), f.active # NoActive,
           Current(f).state \notin Terminal,
           NEW next, JobWell(next, f.active[1], real), Tidy(Current(f), next),
           next.supplement = Current(f).supplement, next.state \notin Terminal
    PROVE  FileWell(Put(f, f.active, next), real) /\ Tended(f, Put(f, f.active, next))
<1> DEFINE id == f.active
           g == Put(f, id, next)
<1>1. id \in JobIds /\ Live(f, id) /\ f.jobs[id].supplement <= next.supplement /\ f \in FileSet
  BY ActiveFacts DEF Current
<1>2. FileWell(g, real) /\ Keeps(f, g) /\ OnlyAt(f, g, id)
  BY <1>1, PutWell DEF Current
<1>3. g.jobs[id] = next
  BY <1>1, PutFacts DEF JobWell, Shaped
<1>4. ASSUME NEW x \in JobIds, Live(f, x)
      PROVE  Tidy(f.jobs[x], g.jobs[x]) /\ (g.jobs[x].state \in Terminal <=> f.jobs[x].state \in Terminal)
  <2>1. CASE x = id
    BY <1>3, <2>1 DEF Current
  <2>2. CASE x # id
    <3>1. g.jobs[x] = f.jobs[x]
      BY <1>2, <2>2 DEF OnlyAt
    <3>2. Tidy(f.jobs[x], f.jobs[x])
      BY DEF Tidy, TidyRows
    <3> QED BY <3>1, <3>2
  <2> QED BY <2>1, <2>2
<1> QED BY <1>2, <1>4 DEF Tended

-----------------------------------------------------------------------------
(* Adoption, leases, and what comes due *)

(* A lease, or a generation, changes alone. *)
LEMMA LeaseChange ==
    ASSUME NEW job, NEW r, NEW real, JobWell(job, r, real), job.state \notin Terminal, NEW lease \in Leases
    PROVE  LET next == [job EXCEPT !.lease = lease] IN
           /\ JobWell(next, r, real) /\ Tidy(job, next)
           /\ next.supplement = job.supplement /\ next.state = job.state /\ next.lease = lease
<1> DEFINE next == [job EXCEPT !.lease = lease]
<1>1. job \in JobSet /\ Shaped(job, r, real) /\ Standing(job)
  BY DEF JobWell, Shaped
<1>2. next \in JobSet
  BY <1>1, JobUpdates
<1>3. /\ next.state = job.state /\ next.rows = job.rows /\ next.catalog = job.catalog
      /\ next.supplement = job.supplement
      /\ next.opgen = job.opgen /\ next.failed = job.failed /\ next.lease = lease
  BY <1>1 DEF JobSet
<1> HIDE DEF next
<1>4. Shaped(next, r, real)
  BY <1>1, <1>2, <1>3 DEF Shaped, Member, RowsTrue
<1>5. Trying(next) <=> Trying(job)
  BY <1>3 DEF Trying, Unsettled
<1>6. Standing(next)
  BY <1>1, <1>2, <1>3, <1>5, StillStanding
<1>7. Tidy(job, next)
  BY <1>3 DEF Tidy, TidyRows
<1>8. /\ JobWell(next, r, real) /\ Tidy(job, next)
      /\ next.supplement = job.supplement /\ next.state = job.state /\ next.lease = lease
  BY <1>3, <1>4, <1>6, <1>7 DEF JobWell
<1> QED BY <1>8 DEF next

LEMMA GenChange ==
    ASSUME NEW job, NEW r, NEW real, JobWell(job, r, real), NEW gen \in Nat
    PROVE  LET next == [job EXCEPT !.gen = gen] IN
           /\ JobWell(next, r, real) /\ Tidy(job, next) /\ next.rows = job.rows /\ next.catalog = job.catalog
           /\ next.supplement = job.supplement /\ next.state = job.state /\ next.lease = job.lease
<1> DEFINE next == [job EXCEPT !.gen = gen]
<1>1. job \in JobSet /\ Shaped(job, r, real) /\ Standing(job)
  BY DEF JobWell, Shaped
<1>2. next \in JobSet
  BY <1>1, JobUpdates
<1>3. /\ next.state = job.state /\ next.rows = job.rows /\ next.catalog = job.catalog
      /\ next.supplement = job.supplement
      /\ next.opgen = job.opgen /\ next.failed = job.failed /\ next.lease = job.lease
  BY <1>1 DEF JobSet
<1> HIDE DEF next
<1>4. Shaped(next, r, real)
  BY <1>1, <1>2, <1>3 DEF Shaped, Member, RowsTrue
<1>5. Standing(next)
  BY <1>1, <1>3 DEF Standing, Trying, Unsettled, Converged
<1>6. Tidy(job, next)
  BY <1>3 DEF Tidy, TidyRows
<1>7. /\ JobWell(next, r, real) /\ Tidy(job, next) /\ next.rows = job.rows /\ next.catalog = job.catalog
      /\ next.supplement = job.supplement /\ next.state = job.state /\ next.lease = job.lease
  BY <1>3, <1>4, <1>5, <1>6 DEF JobWell
<1> QED BY <1>7 DEF next

(* Each transaction in turn keeps the file well, and tends the active job. *)
LEMMA AdoptedWell ==
    ASSUME SoftwareAssumption, NEW f, NEW real, FileWell(f, real), Open(f)
    PROVE  /\ FileWell(Adopted(f), real) /\ Tended(f, Adopted(f))
           /\ Current(Adopted(f)).gen \in Nat /\ Current(Adopted(f)).state \notin Terminal
           /\ JobWell(Current(Adopted(f)), f.active[1], real)
<1> DEFINE job == Current(f)
           one == Taken(job)
           two == [one EXCEPT !.gen = NextGeneration(f)]
           three == [two EXCEPT !.lease = "mine"]
<1>1. f.active # NoActive /\ job.state \notin Terminal
  BY DEF Open
<1>2. JobWell(job, f.active[1], real) /\ job.gen \in Nat /\ f.active \in JobIds /\ f \in FileSet
  BY <1>1, ActiveFacts
<1>3. NextGeneration(f) \in Nat
  BY <1>2 DEF NextGeneration
<1>4. /\ JobWell(one, f.active[1], real) /\ Tidy(job, one)
      /\ one.supplement = job.supplement /\ one.state \notin Terminal
  BY <1>1, <1>2, TakenFacts
<1>5. /\ JobWell(two, f.active[1], real) /\ Tidy(one, two)
      /\ two.supplement = one.supplement /\ two.state = one.state
  <2> HIDE DEF one
  <2> QED BY <1>3, <1>4, GenChange
<1>6. /\ JobWell(three, f.active[1], real) /\ Tidy(two, three)
      /\ three.supplement = two.supplement /\ three.state = two.state
  <2> HIDE DEF one, two
  <2> QED BY <1>4, <1>5, LeaseChange DEF Leases
<1>7. one \in JobSet /\ three \in JobSet
  BY <1>4, <1>6 DEF JobWell, Shaped
<1>8. Adopted(f) = Put(f, f.active, three) /\ three.gen = NextGeneration(f)
  <2>1. three = [one EXCEPT !.gen = NextGeneration(f), !.lease = "mine"] /\ three.gen = NextGeneration(f)
    <3> HIDE DEF one
    <3> QED BY <1>7 DEF JobSet
  <2> QED BY <2>1 DEF Adopted
<1> HIDE DEF one, two, three, job
<1>9. Tidy(job, three)
  BY <1>4, <1>5, <1>6, TidyTrans
<1>10. FileWell(Adopted(f), real) /\ Tended(f, Adopted(f))
  BY <1>1, <1>4, <1>5, <1>6, <1>8, <1>9, TendPut DEF job
<1>11. Current(Adopted(f)) = three
  BY <1>2, <1>7, <1>8, PutFacts DEF Current
<1> QED BY <1>3, <1>4, <1>5, <1>6, <1>8, <1>10, <1>11

LEMMA ResumedWell ==
    ASSUME SoftwareAssumption, NEW f, NEW real, FileWell(f, real)
    PROVE  FileWell(ResumedDue(f), real) /\ Tended(f, ResumedDue(f))
<1>1. CASE DueNow(f) /\ Current(f).lease = "none"
  <2>1. f.active # NoActive /\ Current(f).state \notin Terminal
    BY <1>1 DEF DueNow, Open
  <2>2. JobWell(Current(f), f.active[1], real)
    BY <2>1, ActiveFacts
  <2> QED BY <1>1, <2>1, <2>2, TakenFacts, TendPut DEF ResumedDue
<1>2. CASE ~(DueNow(f) /\ Current(f).lease = "none")
  BY <1>2, TendedSame DEF ResumedDue
<1> QED BY <1>1, <1>2

LEMMA MacWell ==
    ASSUME SoftwareAssumption, NEW f, NEW real, FileWell(f, real), Open(f), NEW m \in Macs,
           NEW row \in [Components -> RowStates],
           \A c \in Components : row[c] = Current(f).rows[m][c]
                                 \/ (Current(f).rows[m][c] \in Retryable /\ row[c] \in Retryable)
    PROVE  LET g == Put(f, f.active, [Current(f) EXCEPT !.rows = [Current(f).rows EXCEPT ![m] = row]])
           IN  FileWell(g, real) /\ Tended(f, g)
<1> DEFINE job == Current(f)
           next == [job EXCEPT !.rows = [job.rows EXCEPT ![m] = row]]
<1>1. f.active # NoActive /\ job.state \notin Terminal
  BY DEF Open
<1>2. JobWell(job, f.active[1], real)
  BY <1>1, ActiveFacts
<1> HIDE DEF job
<1>3. /\ JobWell(next, f.active[1], real) /\ Tidy(job, next)
      /\ next.supplement = job.supplement /\ next.state = job.state
  BY <1>1, <1>2, MacHurried DEF job
<1>4. FileWell(Put(f, f.active, next), real) /\ Tended(f, Put(f, f.active, next))
  <2> HIDE DEF next
  <2> QED BY <1>1, <1>3, TendPut DEF job
<1> QED BY <1>4 DEF job

LEMMA NotedWell ==
    ASSUME SoftwareAssumption, NEW f, NEW real, FileWell(f, real), NEW m \in Macs
    PROVE  FileWell(Noted(f, m), real) /\ Tended(f, Noted(f, m))
<1>1. CASE ~Open(f)
  BY <1>1, TendedSame DEF Noted
<1>2. CASE Open(f)
  <2> DEFINE row == [c \in Components |->
                       IF Current(f).rows[m][c] = "waiting" THEN "due" ELSE Current(f).rows[m][c]]
  <2>1. Current(f).rows \in RowsSet /\ Current(f) \in JobSet
    BY <1>2, ActiveFacts DEF Open
  <2>2. row \in [Components -> RowStates]
    BY <2>1, RowFacts DEF RowStates, Retryable
  <2>3. \A c \in Components : row[c] = Current(f).rows[m][c]
                              \/ (Current(f).rows[m][c] \in Retryable /\ row[c] \in Retryable)
    BY DEF Retryable
  <2>4. Noted(f, m) = Put(f, f.active, [Current(f) EXCEPT !.rows = [Current(f).rows EXCEPT ![m] = row]])
    BY <1>2, <2>1 DEF Noted, JobSet
  <2> HIDE DEF row
  <2> QED BY <1>2, <2>2, <2>3, <2>4, MacWell
<1> QED BY <1>1, <1>2

LEMMA RowDueWell ==
    ASSUME SoftwareAssumption, NEW f, NEW real, FileWell(f, real), Open(f), NEW m \in Macs,
           NEW c \in Components,
           Current(f).rows[m][c] = "waiting"
    PROVE  LET g == Put(f, f.active, [Current(f) EXCEPT !.rows[m][c] = "due"])
           IN  FileWell(g, real) /\ Tended(f, g)
<1> DEFINE row == [Current(f).rows[m] EXCEPT ![c] = "due"]
<1>1. Current(f).rows \in RowsSet /\ Current(f) \in JobSet
  BY ActiveFacts DEF Open
<1>2. row \in [Components -> RowStates]
  BY <1>1, RowFacts DEF RowStates, Retryable
<1>3. \A k \in Components : row[k] = Current(f).rows[m][k]
                            \/ (Current(f).rows[m][k] \in Retryable /\ row[k] \in Retryable)
  BY <1>1, RowFacts DEF Retryable
<1>4. [Current(f) EXCEPT !.rows[m][c] = "due"]
         = [Current(f) EXCEPT !.rows = [Current(f).rows EXCEPT ![m] = row]]
  BY <1>1 DEF JobSet
<1> HIDE DEF row
<1> QED BY <1>2, <1>3, <1>4, MacWell

LEMMA CatalogDueWell ==
    ASSUME SoftwareAssumption, NEW f, NEW real, FileWell(f, real), Open(f), Current(f).catalog = "waiting"
    PROVE  LET g == Put(f, f.active, [Current(f) EXCEPT !.catalog = "due"])
           IN  FileWell(g, real) /\ Tended(f, g)
<1> DEFINE job == Current(f)
           next == HurriedJob(job, job.rows, "due")
<1>1. f.active # NoActive /\ job.state \notin Terminal
  BY DEF Open
<1>2. JobWell(job, f.active[1], real) /\ job \in JobSet /\ job.rows \in RowsSet
  BY <1>1, ActiveFacts
<1>3. Hurries(job.rows, job.rows) /\ "due" \in CatalogStates /\ "due" \in Retryable
  BY DEF Hurries, CatalogStates, Retryable
<1>4. [job EXCEPT !.catalog = "due"] = next
  BY <1>2, SameFields DEF HurriedJob
<1> HIDE DEF job
<1>5. /\ JobWell(next, f.active[1], real) /\ Tidy(job, next)
      /\ next.supplement = job.supplement /\ next.state = job.state
  BY <1>1, <1>2, <1>3, HurriedFacts DEF job, Retryable
<1>6. FileWell(Put(f, f.active, next), real) /\ Tended(f, Put(f, f.active, next))
  <2> HIDE DEF next
  <2> QED BY <1>1, <1>5, TendPut DEF job
<1> QED BY <1>4, <1>6 DEF job

LEMMA LeaseWell ==
    ASSUME SoftwareAssumption, NEW f, NEW real, FileWell(f, real), f.active # NoActive, NEW lease \in Leases,
           Current(f).lease = "none" => lease = "none"
    PROVE  LET g == Put(f, f.active, [Current(f) EXCEPT !.lease = lease])
           IN  FileWell(g, real) /\ Tended(f, g)
<1>1. /\ JobWell(Current(f), f.active[1], real) /\ Current(f) \in JobSet /\ f \in FileSet /\ f.active \in JobIds
      /\ Current(f).state \in Terminal => Current(f).lease = "none"
  BY ActiveFacts
<1>2. CASE Current(f).state \notin Terminal
  <2> DEFINE next == [Current(f) EXCEPT !.lease = lease]
  <2>1. /\ JobWell(next, f.active[1], real) /\ Tidy(Current(f), next)
        /\ next.supplement = Current(f).supplement /\ next.state \notin Terminal
    BY <1>1, <1>2, LeaseChange
  <2> HIDE DEF next
  <2>2. FileWell(Put(f, f.active, next), real) /\ Tended(f, Put(f, f.active, next))
    BY <1>2, <2>1, TendPut
  <2> QED BY <2>2 DEF next
<1>3. CASE Current(f).state \in Terminal
  <2>1. [Current(f) EXCEPT !.lease = lease] = Current(f)
    BY <1>1, <1>3 DEF JobSet
  <2>2. Put(f, f.active, Current(f)) = f
    BY <1>1 DEF Put, FileSet, Current
  <2> QED BY <2>1, <2>2, TendedSame
<1> QED BY <1>2, <1>3

LEMMA LeavingsWell ==
    ASSUME SoftwareAssumption, NEW f, NEW real, FileWell(f, real), NEW graceful \in BOOLEAN,
           NEW alike \in BOOLEAN
    PROVE  FileWell(Leavings(f, graceful, alike), real) /\ Tended(f, Leavings(f, graceful, alike))
<1>1. CASE f.active = NoActive
  BY <1>1, TendedSame DEF Leavings
<1>2. CASE f.active # NoActive
  <2> DEFINE lease == LeftLease(Current(f).lease, graceful /\ Busy(f.active[1]), alike)
  <2>1. Current(f).lease \in Leases /\ Current(f) \in JobSet
    BY <1>2, ActiveFacts
  <2>2. lease \in Leases /\ (Current(f).lease = "none" => lease = "none")
    BY <2>1 DEF LeftLease, Leases
  <2>3. Leavings(f, graceful, alike) = Put(f, f.active, [Current(f) EXCEPT !.lease = lease])
    BY <1>2, <2>1 DEF Leavings, JobSet
  <2> HIDE DEF lease
  <2> QED BY <1>2, <2>2, <2>3, LeaseWell
<1> QED BY <1>1, <1>2

-----------------------------------------------------------------------------
(* A job that begins, and growth as a transaction *)

(* A job begun: the activation moves to it. *)
Begun(f, id, job) == [Put(f, id, job) EXCEPT !.active = id]
LEMMA BegunWell ==
    ASSUME SoftwareAssumption, NEW f, NEW real, FileWell(f, real), NEW id \in JobIds, ~Live(f, id),
           id[1] = f.desired,
           \A x \in JobIds : Live(f, x) => f.jobs[x].lease = "none" /\ (x[1] = f.desired => x[2] < id[2]),
           NEW job, JobWell(job, id[1], real), id[2] <= job.supplement,
           id[2] > 0 => /\ Live(f, << id[1], 0 >>) /\ Live(f, << id[1], id[2] - 1 >>)
                        /\ f.jobs[<< id[1], id[2] - 1 >>].state = "complete"
    PROVE  LET g == Begun(f, id, job) IN
           /\ FileWell(g, real) /\ g.desired = f.desired /\ g.active = id /\ g.jobs[id] = job
           /\ \A x \in JobIds : (Live(g, x) <=> Live(f, x) \/ x = id) /\ (x # id => g.jobs[x] = f.jobs[x])
<1> DEFINE p == Put(f, id, job)
           g == Begun(f, id, job)
<1>1. f \in FileSet /\ job \in JobSet
  BY DEF FileWell, JobWell, Shaped
<1>2. /\ p \in FileSet /\ p.desired = f.desired /\ p.jobs[id] = job
      /\ \A x \in JobIds \ {id} : p.jobs[x] = f.jobs[x]
  BY <1>1, PutFacts
<1>3. g \in FileSet /\ g.desired = p.desired /\ g.active = id /\ g.jobs = p.jobs
  <2> HIDE DEF p
  <2>1. g = [p EXCEPT !.active = id]
    BY DEF Begun, p
  <2> QED BY <1>2, <2>1 DEF FileSet
<1>4. /\ g.desired = f.desired /\ g.jobs[id] = job
      /\ \A x \in JobIds : x # id => g.jobs[x] = f.jobs[x]
  BY <1>2, <1>3
<1> HIDE DEF g, p
<1>5. \A x \in JobIds : Live(g, x) <=> Live(f, x) \/ x = id
  BY <1>1, <1>4, JobFields DEF Live
<1>6. id[1] \in Releases /\ id[2] \in Nat /\ id = << id[1], id[2] >> /\ id[2] \in 0 .. MaxSupplement
  BY IdFacts
<1>7. ASSUME NEW x \in JobIds, Live(g, x)
      PROVE  JobWell(g.jobs[x], x[1], real) /\ JobPlaced(g, x)
  <2>1. x[1] \in Releases /\ x[2] \in Nat /\ x[2] \in 0 .. MaxSupplement
    BY IdFacts
  <2>2. 0 \in 0 .. MaxSupplement /\ (x[2] > 0 => x[2] - 1 \in 0 .. MaxSupplement)
    BY <2>1 DEF SoftwareAssumption
  <2>3. << x[1], 0 >> \in JobIds /\ (x[2] > 0 => << x[1], x[2] - 1 >> \in JobIds)
    BY <2>1, <2>2, IdFacts
  <2>4. CASE x = id
    <3>1. JobWell(g.jobs[x], x[1], real) /\ g.jobs[x] = job
      BY <1>4, <2>4
    <3>2. Live(g, << x[1], 0 >>)
      BY <1>5, <1>6, <2>3, <2>4
    <3>3. x[2] > 0 => Live(g, << x[1], x[2] - 1 >>) /\ g.jobs[<< x[1], x[2] - 1 >>].state = "complete"
      BY <1>4, <1>5, <1>6, <2>3, <2>4
    <3>4. x[1] <= g.desired /\ (x[1] = g.desired => g.active # NoActive /\ x[2] <= g.active[2])
      <4>1. id[1] \in Nat /\ NoActive # id
        BY IdFacts
      <4> QED BY <1>3, <1>4, <1>6, <2>4, <4>1
    <3> QED BY <1>3, <2>4, <3>1, <3>2, <3>3, <3>4 DEF JobPlaced
  <2>5. CASE x # id
    <3>1. Live(f, x) /\ JobWell(f.jobs[x], x[1], real) /\ JobPlaced(f, x) /\ g.jobs[x] = f.jobs[x]
      BY <1>4, <1>5, <1>7, <2>5 DEF FileWell
    <3>2. Live(g, << x[1], 0 >>)
      BY <1>5, <2>3, <3>1 DEF JobPlaced
    <3>3. x[2] > 0 => Live(g, << x[1], x[2] - 1 >>) /\ g.jobs[<< x[1], x[2] - 1 >>].state = "complete"
      <4>1. SUFFICES ASSUME x[2] > 0
                     PROVE  Live(g, << x[1], x[2] - 1 >>) /\ g.jobs[<< x[1], x[2] - 1 >>].state = "complete"
        OBVIOUS
      <4>2. Live(f, << x[1], x[2] - 1 >>) /\ f.jobs[<< x[1], x[2] - 1 >>].state = "complete"
        BY <3>1, <4>1 DEF JobPlaced
      <4> QED BY <1>4, <1>5, <2>3, <4>1, <4>2
    <3>4. x[1] <= g.desired /\ (x[1] = g.desired => g.active # NoActive /\ x[2] <= g.active[2])
      <4>1. x[1] <= f.desired /\ (x[1] = f.desired => x[2] < id[2])
        BY <3>1 DEF JobPlaced
      <4>2. NoActive # id
        BY IdFacts
      <4> QED BY <1>3, <1>4, <1>6, <2>1, <4>1, <4>2
    <3>5. g.jobs[x].lease = "none"
      BY <3>1
    <3>6. x[2] <= g.jobs[x].supplement
      BY <3>1 DEF JobPlaced
    <3> QED BY <3>1, <3>2, <3>3, <3>4, <3>5, <3>6 DEF JobPlaced
  <2> QED BY <2>4, <2>5
<1>8. g.active[1] = g.desired /\ Live(g, g.active)
  BY <1>3, <1>4, <1>5
<1>9. FileWell(g, real)
  BY <1>3, <1>7, <1>8 DEF FileWell
<1> QED BY <1>3, <1>4, <1>5, <1>9 DEF g

(* A job that starts over, as a supplement does. *)
Started(job) == [job EXCEPT !.state = "queued", !.gen = 0]
LEMMA NewStart ==
    ASSUME NEW job, NEW r, NEW real, Shaped(job, r, real)
    PROVE  LET next == Started(job) IN
           /\ Shaped(next, r, real) /\ next.state = "queued" /\ next.rows = job.rows /\ next.lease = job.lease
           /\ next.supplement = job.supplement
<1> DEFINE next == Started(job)
<1>1. job \in JobSet
  BY DEF Shaped
<1>2. [job EXCEPT !.state = "queued"] \in JobSet
  BY <1>1, JobUpdates DEF JobStates
<1>3. next = [[job EXCEPT !.state = "queued"] EXCEPT !.gen = 0]
  BY <1>1 DEF JobSet, Started
<1>4. next \in JobSet
  <2> DEFINE one == [job EXCEPT !.state = "queued"]
  <2>1. one \in JobSet
    BY <1>2
  <2> HIDE DEF one
  <2>2. [one EXCEPT !.gen = 0] \in JobSet
    BY <2>1 DEF JobSet
  <2> QED BY <1>3, <2>2 DEF one
<1>5. /\ next.state = "queued" /\ next.rows = job.rows /\ next.lease = job.lease
      /\ next.supplement = job.supplement
      /\ next.opgen = job.opgen /\ next.failed = job.failed
  BY <1>1 DEF JobSet, Started
<1> HIDE DEF next
<1>6. Shaped(next, r, real)
  BY <1>4, <1>5 DEF Shaped, Member, RowsTrue
<1> QED BY <1>5, <1>6 DEF next

(* Reconciliation grows the active job, or tends it. *)
LEMMA ReconciledWell ==
    ASSUME SoftwareAssumption, NEW f, NEW real, FileWell(f, real), NEW now
    PROVE  FileWell(Reconciled(f, now), real) /\ Moves(f, Reconciled(f, now))
<1> DEFINE job == Current(f)
           more == Supplemented(job, now)
           id == f.active
           g == Reconciled(f, now)
<1>1. CASE ~Growable(f, now)
  BY <1>1, TendedSame, TendedMoves DEF Reconciled
<1>2. CASE Growable(f, now)
  <2>1. /\ id # NoActive /\ id[1] = f.desired /\ job.state # "blocked" /\ job.lease = "none"
        /\ Growth(job, now) # {} /\ job.supplement < MaxSupplement
    BY <1>2 DEF Growable
  <2>2. /\ f \in FileSet /\ id \in JobIds /\ Live(f, id) /\ JobWell(job, id[1], real)
        /\ Shaped(job, id[1], real)
        /\ job.supplement \in Nat /\ f.jobs[id] = job
    BY <2>1, ActiveFacts DEF Current
  <2>3. /\ Shaped(more, id[1], real) /\ more.state = job.state /\ more.lease = "none"
        /\ more.supplement = job.supplement + 1 /\ ~Converged(more)
        /\ ScopeOf(job) \subseteq ScopeOf(more) /\ ScopeOf(more) # ScopeOf(job)
    BY <2>1, <2>2, SupplementedFacts
  <2>4. job.state \in JobStates
    BY <2>2, JobFields DEF Shaped
  <2>5. CASE job.state # "complete"
    <3> DEFINE next == Refreshed(more)
    <3>1. job.state \notin Terminal
      BY <2>1, <2>4, <2>5 DEF Terminal
    <3> HIDE DEF more, job
    <3>2. /\ JobWell(next, id[1], real) /\ next.rows = more.rows /\ next.lease = "none"
          /\ next.supplement = job.supplement + 1
      BY <2>3, <3>1, RefreshedFacts
    <3>3. next \in JobSet
      BY <3>2 DEF JobWell, Shaped
    <3>4. ~Converged(next)
      BY <2>3, <3>2 DEF Converged
    <3>5. g = Put(f, id, next)
      BY <1>2, <2>5 DEF Reconciled, job, more
    <3> HIDE DEF next, g
    <3>6. f.jobs[id].supplement <= next.supplement
      BY <2>2, <3>2
    <3>7. FileWell(g, real) /\ Keeps(f, g) /\ OnlyAt(f, g, id)
      BY <2>2, <3>1, <3>2, <3>5, <3>6, PutWell
    <3>8. g.jobs[id] = next
      BY <2>2, <3>3, <3>5, PutFacts
    <3>9. Calm(f, g)
      BY <3>4, <3>7, <3>8 DEF Calm, OnlyAt, Acked, Live
    <3> QED BY <3>7, <3>9 DEF Moves, g
  <2>6. CASE job.state = "complete"
    <3> DEFINE new == << id[1], id[2] + 1 >>
               start == Started(more)
               next == Refreshed(start)
    <3> HIDE DEF job, more
    <3>1. g = Begun(f, new, next)
      BY <1>2, <2>6 DEF Reconciled, Begun, Started, job, more
    <3>2. id[1] \in Releases /\ id[2] \in Nat /\ id = << id[1], id[2] >> /\ id[2] \in 0 .. MaxSupplement
      BY <2>2, IdFacts
    <3>3. id[2] <= job.supplement /\ JobPlaced(f, id)
      <4>1. JobPlaced(f, id)
        BY <2>2 DEF FileWell
      <4> QED BY <2>2, <4>1 DEF JobPlaced
    <3>18. MaxSupplement \in Nat
      BY DEF SoftwareAssumption
    <3>19. job.supplement < MaxSupplement /\ job.supplement \in Nat /\ id[2] <= job.supplement
      BY <2>1, <2>2, <3>3 DEF job
    <3>4. id[2] + 1 \in 0 .. MaxSupplement
      BY <3>2, <3>18, <3>19
    <3>5. new \in JobIds /\ new[1] = id[1] /\ new[2] = id[2] + 1 /\ new # id
      BY <3>2, <3>4, IdFacts
    <3>6. "queued" \in JobStates /\ "queued" \notin Terminal
      BY DEF JobStates, Terminal
    <3>7. Shaped(start, id[1], real) /\ start.state = "queued" /\ start.rows = more.rows /\ start.lease = "none"
          /\ start.supplement = job.supplement + 1
      BY <2>3, <3>6, NewStart
    <3> HIDE DEF start
    <3>8. /\ JobWell(next, id[1], real) /\ next.rows = more.rows /\ next.lease = "none"
          /\ next.supplement = job.supplement + 1 /\ next.state \notin Terminal
      BY <3>6, <3>7, RefreshedFacts
    <3> HIDE DEF next
    <3>9. \A x \in JobIds : Live(f, x) => f.jobs[x].lease = "none" /\ (x[1] = f.desired => x[2] < new[2])
      <4>1. SUFFICES ASSUME NEW x \in JobIds, Live(f, x)
                     PROVE  f.jobs[x].lease = "none" /\ (x[1] = f.desired => x[2] < new[2])
        OBVIOUS
      <4>2. JobPlaced(f, x)
        BY <4>1 DEF FileWell
      <4>3. f.jobs[x].lease = "none"
        BY <2>1, <2>2, <4>2 DEF JobPlaced
      <4>4. x[1] = f.desired => x[2] <= id[2]
        BY <4>2 DEF JobPlaced
      <4>5. x[2] \in Nat
        BY IdFacts
      <4> QED BY <3>2, <3>5, <4>3, <4>4, <4>5
    <3>10. ~Live(f, new)
      <4>1. ASSUME Live(f, new)
            PROVE  FALSE
        <5>1. new[2] < new[2]
          BY <2>1, <3>5, <3>9, <4>1
        <5> QED BY <3>2, <3>5, <5>1
      <4> QED BY <4>1
    <3>11. new[2] <= next.supplement /\ new[2] > 0 /\ << new[1], new[2] - 1 >> = id
      BY <2>2, <3>2, <3>3, <3>5, <3>8 DEF job
    <3>12. Live(f, << new[1], 0 >>)
      BY <3>3, <3>5 DEF JobPlaced
    <3> HIDE DEF new, g
    <3>13. /\ FileWell(g, real) /\ g.desired = f.desired /\ g.active = new /\ g.jobs[new] = next
           /\ \A x \in JobIds : (Live(g, x) <=> Live(f, x) \/ x = new) /\ (x # new => g.jobs[x] = f.jobs[x])
      BY <2>1, <2>2, <2>6, <3>1, <3>5, <3>8, <3>9, <3>10, <3>11, <3>12, BegunWell
    <3>14. ~Converged(next) /\ ScopeOf(next) = ScopeOf(more)
      BY <2>3, <3>8 DEF Converged, ScopeOf
    <3>15. g.active # NoActive
      BY <3>5, <3>13, IdFacts
    <3>16. Grown(f, g)
      BY <2>1, <2>3, <2>6, <3>5, <3>8, <3>10, <3>13, <3>14, <3>15 DEF Grown, Current, job
    <3>17. Calm(f, g)
      BY <3>10, <3>13, <3>14 DEF Calm, Acked
    <3> QED BY <3>13, <3>16, <3>17 DEF Moves, g
  <2> QED BY <2>5, <2>6
<1> QED BY <1>1, <1>2

-----------------------------------------------------------------------------
(* Publication, withdrawal, activation, and what is put aside *)

(* A publication keeps what ended, and withdraws the activation. *)
LEMMA ReplacedWell ==
    ASSUME SoftwareAssumption, NEW f, NEW real, FileWell(f, real), NEW r \in Releases, Replaceable(f, r)
    PROVE  LET g == Replaced(f, r) IN
           /\ FileWell(g, real) /\ g.desired = r /\ g.active = NoActive /\ g.jobs = f.jobs /\ r > f.desired
           /\ \A x \in JobIds : Live(f, x) => f.jobs[x].state \in Terminal
<1> DEFINE g == Replaced(f, r)
<1>1. f \in FileSet /\ f.desired \in Nat
  BY FileFields
<1>2. g \in FileSet /\ g.desired = r /\ g.active = NoActive /\ g.jobs = f.jobs
  BY <1>1 DEF Replaced, FileSet
<1> HIDE DEF g
<1>3. \A x \in Releases : x \in Nat /\ x > 0
  BY DEF SoftwareAssumption
<1>4. ASSUME NEW x \in JobIds, Live(f, x)
      PROVE  f.jobs[x].state \in Terminal /\ f.jobs[x].lease = "none" /\ x[1] < r
  <2>1. x[1] \in Nat /\ x[1] > 0 /\ r \in Nat
    <3>1. x[1] \in Releases
      BY IdFacts
    <3> QED BY <1>3, <3>1
  <2>2. x[1] <= f.desired /\ JobWell(f.jobs[x], x[1], real)
    BY <1>4 DEF FileWell, JobPlaced
  <2>3. f.desired # 0
    BY <2>1, <2>2
  <2>4. r > f.desired /\ f.jobs[x].state \in Terminal
    BY <1>4, <2>3 DEF Replaceable
  <2>5. f.jobs[x].lease = "none"
    BY <2>2, <2>4 DEF JobWell, Standing
  <2>6. x[1] < r
    BY <1>1, <2>1, <2>2, <2>4
  <2> QED BY <2>4, <2>5, <2>6
<1>5. \A x \in JobIds : Live(g, x) <=> Live(f, x)
  BY <1>2 DEF Live
<1>6. ASSUME NEW x \in JobIds, Live(g, x)
      PROVE  JobWell(g.jobs[x], x[1], real) /\ JobPlaced(g, x)
  <2>1. Live(f, x) /\ JobWell(f.jobs[x], x[1], real) /\ JobPlaced(f, x) /\ f.jobs[x].lease = "none" /\ x[1] < r
    BY <1>4, <1>5, <1>6 DEF FileWell
  <2>2. x[1] \in Nat /\ r \in Nat
    BY <1>3, IdFacts
  <2>3. /\ x[2] <= g.jobs[x].supplement
        /\ Live(g, << x[1], 0 >>)
        /\ x[2] > 0 => Live(g, << x[1], x[2] - 1 >>) /\ g.jobs[<< x[1], x[2] - 1 >>].state = "complete"
    BY <1>2, <2>1 DEF JobPlaced, Live
  <2>4. x[1] <= g.desired /\ x[1] # g.desired
    BY <1>2, <2>1, <2>2
  <2> QED BY <1>2, <2>1, <2>3, <2>4 DEF JobPlaced
<1>7. FileWell(g, real)
  BY <1>2, <1>6 DEF FileWell
<1>8. r > f.desired
  BY <1>3 DEF Replaceable
<1> QED BY <1>2, <1>4, <1>7, <1>8 DEF g

(* A withdrawal leaves no job. *)
LEMMA WithdrawnWell ==
    ASSUME SoftwareAssumption, NEW f, NEW real
    PROVE  LET g == Withdrawn(f) IN
           /\ FileWell(g, real) /\ g.desired = 0 /\ g.active = NoActive
           /\ \A x \in JobIds : ~Live(g, x) /\ g.jobs[x] = NoJob
<1> DEFINE g == Withdrawn(f)
<1>1. g \in FileSet /\ g.desired = 0 /\ g.active = NoActive /\ \A x \in JobIds : g.jobs[x] = NoJob
  BY DEF Withdrawn, FileSet
<1> HIDE DEF g
<1>2. \A x \in JobIds : ~Live(g, x)
  BY <1>1 DEF Live
<1>3. FileWell(g, real)
  BY <1>1, <1>2 DEF FileWell
<1> QED BY <1>1, <1>2, <1>3 DEF g

(* A first activation begins a job, a replay tends the active one. *)
Opened(f, g) ==
    /\ f.active = NoActive /\ f.desired # 0 /\ g.desired = f.desired /\ g.active \in JobIds
    /\ g.active # NoActive
    /\ Current(g).state = "queued" /\ \A m \in Macs, c \in Components : Current(g).rows[m][c] # "current"
    /\ \A id \in JobIds : Live(f, id) => Live(g, id) /\ g.jobs[id] = f.jobs[id]
(* An activation opens the desired release, or replays it. *)
LEMMA ActivatedWell ==
    ASSUME SoftwareAssumption, NEW f, NEW real, FileWell(f, real), NEW r \in Releases, f.desired = r,
           fleet \in FleetSet, Live(f, << r, 0 >>) \/ fleet.enabled # {}
    PROVE  LET g == Activated(f, r) IN
           FileWell(g, real) /\ Calm(f, g) /\ (Tended(f, g) \/ Opened(f, g))
<1> DEFINE first == << r, 0 >>
           g == Activated(f, r)
<1>1. 0 \in 0 .. MaxSupplement /\ r # 0 /\ r \in Nat
  BY DEF SoftwareAssumption
<1>2. first \in JobIds /\ first[1] = r /\ first[2] = 0 /\ first # NoActive
  BY <1>1, IdFacts
<1>3. CASE ~Live(f, first)
  <2>1. f.active = NoActive
    <3>1. ASSUME f.active # NoActive
          PROVE  FALSE
      <4>1. f.active \in JobIds /\ Live(f, f.active) /\ f.active[1] = r
        BY <3>1, FileFields
      <4>2. Live(f, first)
        BY <4>1 DEF FileWell, JobPlaced
      <4> QED BY <1>3, <4>2
    <3> QED BY <3>1
  <2>2. \A x \in JobIds : Live(f, x) => f.jobs[x].lease = "none" /\ (x[1] = f.desired => x[2] < first[2])
    <3>1. \A x \in JobIds : Live(f, x) => JobPlaced(f, x)
      BY DEF FileWell
    <3>2. \A x \in JobIds : x # NoActive
      BY IdFacts
    <3> QED BY <2>1, <3>1, <3>2 DEF JobPlaced
  <2>3. /\ JobWell(NewJob, r, real) /\ NewJob \in JobSet /\ Acked(NewJob)
        /\ NewJob.lease = "none" /\ NewJob.supplement = 0 /\ NewJob.state = "queued"
        /\ \A m \in Macs, c \in Components : NewJob.rows[m][c] # "current"
    BY <1>3, NewJobFacts
  <2>4. g = Begun(f, first, NewJob)
    BY <1>3 DEF Activated, Begun
  <2> HIDE DEF first, g
  <2>5. first[2] <= NewJob.supplement /\ ~(first[2] > 0) /\ first[1] = f.desired
        /\ JobWell(NewJob, first[1], real)
    BY <1>2, <2>3
  <2>6. /\ FileWell(g, real) /\ g.desired = f.desired /\ g.active = first /\ g.jobs[first] = NewJob
        /\ \A x \in JobIds : (Live(g, x) <=> Live(f, x) \/ x = first) /\ (x # first => g.jobs[x] = f.jobs[x])
    <3> DEFINE job == NewJob
    <3>1. /\ JobWell(job, first[1], real) /\ first[2] <= job.supplement /\ g = Begun(f, first, job)
          /\ first[2] > 0 => /\ Live(f, << first[1], 0 >>) /\ Live(f, << first[1], first[2] - 1 >>)
                              /\ f.jobs[<< first[1], first[2] - 1 >>].state = "complete"
      BY <2>4, <2>5
    <3>2. ~Live(f, first) /\ first \in JobIds /\ first[1] = f.desired
      BY <1>2, <1>3, <2>5
    <3> HIDE DEF job
    <3>3. /\ FileWell(g, real) /\ g.desired = f.desired /\ g.active = first /\ g.jobs[first] = job
          /\ \A x \in JobIds : (Live(g, x) <=> Live(f, x) \/ x = first) /\ (x # first => g.jobs[x] = f.jobs[x])
      BY <2>2, <3>1, <3>2, BegunWell
    <3> QED BY <3>3 DEF job
  <2>7. Calm(f, g)
    BY <1>3, <2>3, <2>6 DEF Calm
  <2>8. Opened(f, g)
    BY <1>1, <1>2, <1>3, <2>1, <2>3, <2>6 DEF Opened, Current
  <2> QED BY <2>6, <2>7, <2>8 DEF g
<1>4. CASE Live(f, first)
  <2>1. JobPlaced(f, first)
    BY <1>2, <1>4 DEF FileWell
  <2>2. f.active # NoActive
    BY <1>2, <2>1 DEF JobPlaced
  <2>3. f.active \in JobIds /\ f.active[1] = r /\ Live(f, f.active) /\ f \in FileSet
    BY <2>2, FileFields
  <2>4. g = Put(f, f.active, Reoffered(Current(f)))
    BY <1>4, <2>2, <2>3 DEF Activated, Current
  <2>5. JobWell(Current(f), f.active[1], real)
    BY <2>2, ActiveFacts
  <2>6. /\ JobWell(Reoffered(Current(f)), f.active[1], real) /\ Tidy(Current(f), Reoffered(Current(f)))
        /\ Reoffered(Current(f)).supplement = Current(f).supplement
        /\ Reoffered(Current(f)).state = Current(f).state
        /\ (Current(f).state \in Terminal => Reoffered(Current(f)) = Current(f))
    BY <2>5, ReofferedFacts
  <2>7. FileWell(g, real) /\ Tended(f, g)
    <3>1. CASE Current(f).state \in Terminal
      <4>1. g = f
        BY <2>3, <2>4, <2>6, <3>1 DEF Put, FileSet, Current
      <4> QED BY <4>1, TendedSame
    <3>2. CASE Current(f).state \notin Terminal
      BY <2>2, <2>4, <2>6, <3>2, TendPut
    <3> QED BY <3>1, <3>2
  <2> QED BY <2>7, TendedMoves DEF Moves
<1> QED BY <1>3, <1>4

-----------------------------------------------------------------------------
(* The transactions of a run, on the job it has adopted *)
(* The job of a run, put back, is a step of that run. *)
LEMMA WorkPut ==
    ASSUME SoftwareAssumption, NEW f, NEW real, FileWell(f, real), NEW id \in JobIds, Live(f, id),
           f.jobs[id].state \notin Terminal, NEW next, JobWell(next, id[1], real),
           next.supplement = f.jobs[id].supplement, next.lease \in {f.jobs[id].lease, "none"}
    PROVE  Works1(f, Put(f, id, next), id, real) /\ Put(f, id, next).jobs[id] = next
<1>1. JobWell(f.jobs[id], id[1], real) /\ JobPlaced(f, id) /\ f \in FileSet /\ next \in JobSet
  BY DEF FileWell, JobWell, Shaped
<1>2. f.jobs[id].supplement \in Nat
  BY <1>1, JobFields DEF JobWell, Shaped
<1>3. f.jobs[id].supplement <= next.supplement /\ (next.lease # "none" => f.active = id)
  BY <1>1, <1>2 DEF JobPlaced
<1>4. FileWell(Put(f, id, next), real) /\ Keeps(f, Put(f, id, next)) /\ OnlyAt(f, Put(f, id, next), id)
  BY <1>3, PutWell
<1> QED BY <1>1, <1>4, PutFacts DEF Works1

(* Rows not current yet are put aside, all in the same state. *)
Aside(job, which, state) == [job EXCEPT !.rows =
    [k \in Macs |-> IF k \in which THEN Barred(job.rows, k, state) ELSE job.rows[k]]]
LEMMA AsideWell ==
    ASSUME SoftwareAssumption, NEW f, NEW real, FileWell(f, real), NEW id \in JobIds, Live(f, id),
           f.jobs[id].state \notin Terminal, NEW state \in {"waiting", "excluded"}, NEW which \in SUBSET Macs
    PROVE  Works1(f, Put(f, id, Refreshed(Aside(f.jobs[id], which, state))), id, real)
<1> DEFINE next == Refreshed(Aside(f.jobs[id], which, state))
<1>1. JobWell(f.jobs[id], id[1], real)
  BY DEF FileWell
<1>2. JobWell(next, id[1], real) /\ next.lease = f.jobs[id].lease /\ next.supplement = f.jobs[id].supplement
  BY <1>1, PutAsideFacts DEF Aside
<1> HIDE DEF next
<1>3. Works1(f, Put(f, id, next), id, real)
  BY <1>2, WorkPut
<1> QED BY <1>3 DEF next

LEMMA OneAside ==
    ASSUME NEW job \in JobSet, NEW m \in Macs, NEW state
    PROVE  [job EXCEPT !.rows[m] = Barred(job.rows, m, state)] = Aside(job, {m}, state)
  BY DEF JobSet, Aside

LEMMA ParkedWell ==
    ASSUME SoftwareAssumption, NEW f, NEW real, FileWell(f, real), NEW id \in JobIds, Live(f, id),
           f.jobs[id].state \notin Terminal, NEW m \in Macs
    PROVE  Works1(f, Parked(f, id, m), id, real)
<1> DEFINE job == f.jobs[id]
<1>1. job \in JobSet
  BY FileFields
<1>2. [job EXCEPT !.rows[m] = Barred(job.rows, m, "waiting")] = Aside(job, {m}, "waiting")
  <2> HIDE DEF job
  <2> QED BY <1>1, OneAside
<1>3. Parked(f, id, m) = Put(f, id, Refreshed(Aside(f.jobs[id], {m}, "waiting")))
  BY <1>2 DEF Parked
<1>4. {m} \in SUBSET Macs
  OBVIOUS
<1> QED BY <1>3, <1>4, AsideWell

LEMMA ExcludedWell ==
    ASSUME SoftwareAssumption, NEW f, NEW real, FileWell(f, real), NEW id \in JobIds, Live(f, id),
           NEW m \in Macs
    PROVE  Works1(f, Excluded(f, id, m), id, real)
<1> DEFINE job == f.jobs[id]
<1>1. job \in JobSet
  BY FileFields
<1>2. CASE m \in fleet.enabled \/ f.jobs[id].state \in Terminal
  BY <1>2, KeepsSame DEF Excluded, Works1
<1>3. CASE ~(m \in fleet.enabled \/ f.jobs[id].state \in Terminal)
  <2>1. [job EXCEPT !.rows[m] = Barred(job.rows, m, "excluded")] = Aside(job, {m}, "excluded")
    <3> HIDE DEF job
    <3> QED BY <1>1, OneAside
  <2>2. Excluded(f, id, m) = Put(f, id, Refreshed(Aside(f.jobs[id], {m}, "excluded")))
    BY <1>3, <2>1 DEF Excluded
  <2>3. {m} \in SUBSET Macs
    OBVIOUS
  <2> QED BY <1>3, <2>2, <2>3, AsideWell
<1> QED BY <1>2, <1>3

LEMMA WithoutWell ==
    ASSUME SoftwareAssumption, NEW f, NEW real, FileWell(f, real), NEW id \in JobIds, Live(f, id),
           f.jobs[id].state \notin Terminal
    PROVE  Works1(f, Put(f, id, WithoutDisabled(f.jobs[id])), id, real)
<1> DEFINE job == f.jobs[id]
           which == Macs \ fleet.enabled
<1>1. job \in JobSet
  BY FileFields
<1>2. WithoutDisabled(job) = Refreshed(Aside(job, which, "excluded"))
  <2>1. [k \in Macs |-> IF k \in fleet.enabled THEN job.rows[k] ELSE Barred(job.rows, k, "excluded")]
        = [k \in Macs |-> IF k \in which THEN Barred(job.rows, k, "excluded") ELSE job.rows[k]]
    OBVIOUS
  <2> HIDE DEF which, job
  <2> QED BY <1>1, <2>1 DEF WithoutDisabled, JobSet, Aside
<1>3. which \in SUBSET Macs
  OBVIOUS
<1> HIDE DEF which
<1>4. Works1(f, Put(f, id, Refreshed(Aside(f.jobs[id], which, "excluded"))), id, real)
  BY <1>3, AsideWell
<1> QED BY <1>2, <1>4

-----------------------------------------------------------------------------
(* What a run records, and how a job ends *)

(* What a run records keeps the file well, and its own job in hand. *)
LEMMA RecordedWell ==
    ASSUME SoftwareAssumption, NEW f, NEW real, FileWell(f, real), NEW id \in JobIds, Live(f, id),
           NEW m \in Macs, NEW results, DOMAIN results \subseteq Components,
           \A c \in DOMAIN results : /\ results[c] \in Results \ {"none"}
                                     /\ results[c] = "current" => real[m][c] >= id[1],
           DOMAIN results # {} => "hub" \in DOMAIN results \/ Member(f.jobs[id], m)
    PROVE  Works1(f, Recorded(f, id, m, results), id, real)
<1> DEFINE Of(c) == IF c \in DOMAIN results THEN results[c] ELSE "none"
           hub == Record(f, id, m, "hub", Of("hub"))
           image == Record(hub, id, m, "image", Of("image"))
           voice == Record(image, id, m, "voice", Of("voice"))
<1>1. Recorded(f, id, m, results) = voice
  BY DEF Recorded
<1>2. \A c : /\ Of(c) \in Results /\ (Of(c) = "current" => real[m][c] >= id[1])
             /\ Of(c) # "none" => c \in Components /\ DOMAIN results # {}
             /\ Of(c) # "none" <=> c \in DOMAIN results
  BY DEF Results
<1>3. \A g : Works1(g, g, id, real) <=> FileWell(g, real)
  BY KeepsSame DEF Works1
<1>4. \A g, c : Record(g, id, m, c, "none") = g
  BY DEF Record
<1> HIDE DEF Of, hub, image, voice
<1>5. Works1(f, hub, id, real) /\ (hub.jobs[id].state \notin Terminal /\ DOMAIN results # {}
          => Member(hub.jobs[id], m))
  <2>1. "hub" \in Components
    BY RowFacts
  <2>2. Of("hub") # "none" \/ DOMAIN results = {} \/ Member(f.jobs[id], m)
    BY <1>2
  <2> QED BY <1>2, <2>1, <2>2, RecordWell DEF hub
<1>6. \A c : \A g : FileWell(g, real) /\ Live(g, id)
                     /\ (g.jobs[id].state \notin Terminal /\ DOMAIN results # {} => Member(g.jobs[id], m))
                 => LET h == Record(g, id, m, c, Of(c)) IN
                    /\ Works1(g, h, id, real)
                    /\ h.jobs[id].state \notin Terminal /\ DOMAIN results # {} => Member(h.jobs[id], m)
  <2>1. SUFFICES ASSUME NEW c, NEW g, FileWell(g, real), Live(g, id),
                        g.jobs[id].state \notin Terminal /\ DOMAIN results # {} => Member(g.jobs[id], m)
                 PROVE  LET h == Record(g, id, m, c, Of(c)) IN
                        /\ Works1(g, h, id, real)
                        /\ h.jobs[id].state \notin Terminal /\ DOMAIN results # {} => Member(h.jobs[id], m)
    OBVIOUS
  <2>2. CASE Of(c) = "none"
    BY <1>3, <1>4, <2>1, <2>2
  <2>3. CASE Of(c) # "none"
    <3>1. c \in Components /\ DOMAIN results # {} /\ Of(c) \in Results
          /\ (Of(c) = "current" => real[m][c] >= id[1])
      BY <1>2, <2>3
    <3>2. g.jobs[id].state \notin Terminal /\ Of(c) # "none" => c = "hub" \/ Member(g.jobs[id], m)
      BY <2>1, <3>1
    <3> QED BY <2>1, <2>3, <3>1, <3>2, RecordWell
  <2> QED BY <2>2, <2>3
<1>7. \A g, h : Works1(g, h, id, real) /\ Live(g, id) => FileWell(h, real) /\ Live(h, id)
  BY DEF Works1, Keeps
<1>8. FileWell(hub, real) /\ Live(hub, id)
  BY <1>5, <1>7
<1>9. Works1(hub, image, id, real) /\ (image.jobs[id].state \notin Terminal /\ DOMAIN results # {}
          => Member(image.jobs[id], m))
  BY <1>5, <1>6, <1>8 DEF image
<1>10. FileWell(image, real) /\ Live(image, id)
  BY <1>7, <1>8, <1>9
<1>11. Works1(image, voice, id, real)
  BY <1>6, <1>9, <1>10 DEF voice
<1> QED BY <1>1, <1>5, <1>9, <1>11, WorksTrans

(* The catalog, the child and the end of a job *)
(* A job with another catalog state *)
LEMMA CatalogFields ==
    ASSUME NEW job, NEW r, NEW real, JobWell(job, r, real), NEW cat \in CatalogStates
    PROVE  LET next == [job EXCEPT !.catalog = cat] IN
           /\ Shaped(next, r, real) /\ next.state = job.state /\ next.rows = job.rows /\ next.catalog = cat
           /\ next.lease = job.lease /\ next.supplement = job.supplement
<1> DEFINE next == [job EXCEPT !.catalog = cat]
<1>1. job \in JobSet /\ Shaped(job, r, real)
  BY DEF JobWell, Shaped
<1>2. next \in JobSet
  BY <1>1, JobUpdates
<1>3. /\ next.state = job.state /\ next.rows = job.rows /\ next.catalog = cat
      /\ next.supplement = job.supplement
      /\ next.opgen = job.opgen /\ next.failed = job.failed /\ next.lease = job.lease
  BY <1>1 DEF JobSet
<1> HIDE DEF next
<1>4. Shaped(next, r, real)
  BY <1>1, <1>2, <1>3 DEF Shaped, Member, RowsTrue
<1> QED BY <1>3, <1>4 DEF next

(* The catalog is asked for, answered, and the job is complete. *)
LEMMA RequestedWell ==
    ASSUME SoftwareAssumption, NEW f, NEW real, FileWell(f, real), NEW id \in JobIds, Live(f, id),
           f.jobs[id].state \notin Terminal, Converged(f.jobs[id]), f.jobs[id].catalog \notin Retryable
    PROVE  Works1(f, Put(f, id, [f.jobs[id] EXCEPT !.catalog = "requesting"]), id, real)
<1> DEFINE job == f.jobs[id]
           next == [job EXCEPT !.catalog = "requesting"]
<1>1. JobWell(job, id[1], real) /\ "requesting" \in CatalogStates
  BY DEF FileWell, CatalogStates
<1>2. /\ Shaped(next, id[1], real) /\ next.state = job.state /\ next.rows = job.rows
      /\ next.catalog = "requesting"
      /\ next.lease = job.lease /\ next.supplement = job.supplement
  <2> HIDE DEF job
  <2> QED BY <1>1, CatalogFields
<1>3. ~Unsettled(job)
  BY DEF Converged, Unsettled, Retryable
<1>4. ~Trying(job)
  BY <1>3 DEF Trying
<1> HIDE DEF next
<1>5. ~Trying(next)
  BY <1>2, <1>3 DEF Trying, Unsettled, Retryable
<1>6. next \in JobSet /\ job \in JobSet /\ Standing(job)
  BY <1>1, <1>2 DEF Shaped, JobWell
<1>7. Standing(next)
  BY <1>2, <1>4, <1>5, <1>6, StillStanding
<1>8. Works1(f, Put(f, id, next), id, real)
  BY <1>2, <1>7, WorkPut DEF JobWell
<1> QED BY <1>8 DEF next

LEMMA AnsweredWell ==
    ASSUME SoftwareAssumption, NEW f, NEW real, FileWell(f, real), NEW id \in JobIds, Live(f, id),
           f.jobs[id].state \notin Terminal, NEW cat \in {"acknowledged", "waiting"}
    PROVE  LET g == Put(f, id, Refreshed([f.jobs[id] EXCEPT !.catalog = cat])) IN
           Works1(f, g, id, real) /\ g.jobs[id].catalog = cat
<1> DEFINE job == f.jobs[id]
           one == [job EXCEPT !.catalog = cat]
           next == Refreshed(one)
<1>1. JobWell(job, id[1], real) /\ cat \in CatalogStates
  BY DEF FileWell, CatalogStates, Retryable
<1>2. /\ Shaped(one, id[1], real) /\ one.state = job.state /\ one.catalog = cat
      /\ one.lease = job.lease /\ one.supplement = job.supplement
  <2> HIDE DEF job
  <2> QED BY <1>1, CatalogFields
<1> HIDE DEF one
<1>3. /\ JobWell(next, id[1], real) /\ next.lease = job.lease /\ next.supplement = job.supplement
      /\ next.catalog = cat
  BY <1>2, RefreshedFacts
<1> HIDE DEF next
<1>4. Works1(f, Put(f, id, next), id, real) /\ Put(f, id, next).jobs[id] = next
  BY <1>3, WorkPut
<1> QED BY <1>3, <1>4 DEF next, one

LEMMA CompletedWell ==
    ASSUME SoftwareAssumption, NEW f, NEW real, FileWell(f, real), NEW id \in JobIds, Live(f, id),
           f.jobs[id].state \notin Terminal, Converged(f.jobs[id]), f.jobs[id].catalog = "acknowledged"
    PROVE  Works1(f, Put(f, id, [f.jobs[id] EXCEPT !.state = "complete", !.lease = "none"]), id, real)
<1> DEFINE job == f.jobs[id]
           one == [job EXCEPT !.state = "complete"]
           next == [one EXCEPT !.lease = "none"]
<1>1. JobWell(job, id[1], real) /\ job \in JobSet /\ Shaped(job, id[1], real)
  BY DEF FileWell, JobWell, Shaped
<1> HIDE DEF job
<1>2. one \in JobSet
  BY <1>1, JobUpdates DEF JobStates, Terminal
<1>3. next \in JobSet
  <2> HIDE DEF one
  <2> QED BY <1>2, JobUpdates DEF Leases
<1>4. /\ next.state = "complete" /\ next.lease = "none" /\ next.rows = job.rows
      /\ next.supplement = job.supplement
      /\ next.opgen = job.opgen /\ next.failed = job.failed /\ next.catalog = job.catalog
  BY <1>1 DEF JobSet
<1>5. [job EXCEPT !.state = "complete", !.lease = "none"] = next
  BY <1>1 DEF JobSet
<1> HIDE DEF next
<1>6. Shaped(next, id[1], real)
  BY <1>1, <1>3, <1>4 DEF Shaped, Member, RowsTrue
<1>7. Converged(next) /\ next.catalog = "acknowledged"
  BY <1>4 DEF Converged, job
<1>8. ~Trying(next)
  BY <1>7 DEF Trying, Unsettled, Converged, Retryable
<1>9. Standing(next)
  BY <1>4, <1>7, <1>8 DEF Standing
<1>10. Works1(f, Put(f, id, next), id, real)
  BY <1>4, <1>6, <1>9, WorkPut DEF JobWell, job
<1> QED BY <1>5, <1>10 DEF job

(* The lease of a run is kept, or given back. *)
LEMMA KeptWell ==
    ASSUME SoftwareAssumption, NEW f, NEW real, FileWell(f, real), NEW id \in JobIds, Live(f, id),
           f.jobs[id].state \notin Terminal, NEW m \in Macs
    PROVE  Works1(f, Put(f, id, [f.jobs[id] EXCEPT !.child = @ \cup {m}]), id, real)
<1> DEFINE job == f.jobs[id]
           next == [job EXCEPT !.child = job.child \cup {m}]
<1>1. JobWell(job, id[1], real) /\ job \in JobSet /\ Shaped(job, id[1], real) /\ Standing(job)
  BY DEF FileWell, JobWell, Shaped
<1>2. job.child \cup {m} \in SUBSET Macs
  BY <1>1, JobFields
<1>3. [f.jobs[id] EXCEPT !.child = @ \cup {m}] = next
  <2>1. [job EXCEPT !.child = @ \cup {m}] = next
    <3> HIDE DEF job
    <3> QED BY <1>1 DEF JobSet
  <2> QED BY <2>1
<1> HIDE DEF job
<1>4. next \in JobSet
  BY <1>1, <1>2, JobUpdates
<1>5. /\ next.state = job.state /\ next.lease = job.lease /\ next.rows = job.rows
      /\ next.supplement = job.supplement
      /\ next.opgen = job.opgen /\ next.failed = job.failed /\ next.catalog = job.catalog
  BY <1>1 DEF JobSet
<1> HIDE DEF next
<1>6. Shaped(next, id[1], real)
  BY <1>1, <1>4, <1>5 DEF Shaped, Member, RowsTrue
<1>7. Trying(next) <=> Trying(job)
  BY <1>5 DEF Trying, Unsettled
<1>8. Standing(next)
  BY <1>1, <1>4, <1>5, <1>7, StillStanding DEF job
<1>9. Works1(f, Put(f, id, next), id, real)
  BY <1>5, <1>6, <1>8, WorkPut DEF JobWell, job
<1> QED BY <1>3, <1>9

LEMMA ReturnedWell ==
    ASSUME SoftwareAssumption, NEW f, NEW real, FileWell(f, real), NEW run, run.id \in JobIds
    PROVE  Works1(f, Returned(f, run), run.id, real) /\ Tended(f, Returned(f, run))
<1> DEFINE id == run.id
<1>1. CASE Returned(f, run) = f
  BY <1>1, KeepsSame, TendedSame DEF Works1
<1>2. CASE Returned(f, run) # f
  <2>1. /\ Live(f, id) /\ f.jobs[id].state \notin Terminal /\ f.active = id
        /\ Returned(f, run) = Put(f, id, [f.jobs[id] EXCEPT !.lease = "none"])
    BY <1>2 DEF Returned
  <2>2. f.active # NoActive /\ Current(f) = f.jobs[id] /\ JobWell(Current(f), f.active[1], real)
    <3>1. f.active # NoActive
      BY <2>1, IdFacts
    <3> QED BY <2>1, <3>1, ActiveFacts DEF Current
  <2>3. FileWell(Returned(f, run), real) /\ Tended(f, Returned(f, run))
    BY <2>1, <2>2, LeaseWell DEF Leases
  <2>4. Keeps(f, Returned(f, run))
    BY <2>3 DEF Tended
  <2>5. OnlyAt(f, Returned(f, run), id)
    <3>1. [f.jobs[id] EXCEPT !.lease = "none"] \in JobSet
      <4>1. f.jobs[id] \in JobSet
        BY <2>2 DEF JobWell, Shaped
      <4> QED BY <4>1, JobUpdates DEF Leases
    <3>2. f \in FileSet
      BY DEF FileWell
    <3> QED BY <2>1, <3>1, <3>2, PutFacts DEF OnlyAt
  <2> QED BY <2>3, <2>4, <2>5 DEF Works1
<1> QED BY <1>1, <1>2

-----------------------------------------------------------------------------
(* The software a file is judged by *)

(* Where a job stands does not depend on how far the software is beyond it. *)
Above(new, old) == \A m \in Macs, c \in Components : new[m][c] >= old[m][c]
LEMMA HigherWell ==
    ASSUME SoftwareAssumption, NEW f, NEW old \in RealSet, NEW new \in RealSet, Above(new, old),
           FileWell(f, old)
    PROVE  FileWell(f, new)
<1>1. ASSUME NEW id \in JobIds, Live(f, id)
      PROVE  RowsTrue(f.jobs[id], id[1], new)
  <2>1. RowsTrue(f.jobs[id], id[1], old) /\ id[1] \in Nat
    BY <1>1, IdFacts DEF FileWell, JobWell, Shaped
  <2>2. ASSUME NEW m \in Macs, NEW c \in Components, f.jobs[id].rows[m][c] = "current"
        PROVE  new[m][c] >= id[1]
    <3>1. new[m][c] \in Nat /\ old[m][c] \in Nat
      BY DEF RealSet
    <3>2. new[m][c] >= old[m][c]
      BY DEF Above
    <3>3. old[m][c] >= id[1]
      BY <2>1, <2>2 DEF RowsTrue
    <3> QED BY <2>1, <3>1, <3>2, <3>3
  <2> QED BY <2>2 DEF RowsTrue
<1> QED BY <1>1 DEF FileWell, JobWell, Shaped

-----------------------------------------------------------------------------
(* The software *)

(* The types of what the updaters hold. *)
SoftwareTypes ==
    /\ loaded \in [Macs -> Releases \cup {0}] /\ fits \in [Macs -> [Fittings -> Releases \cup {0}]]
    /\ trial \in [Macs -> Releases \cup {0, NoTrial}] /\ undone \in [Macs -> Releases \cup {0}]
    /\ managed \in [Macs -> Ops \cup {NoOp}] /\ verdict \in [Ops -> Verdicts]

(* What has run is a release, before a step and after it. *)
LEMMA OpFacts ==
    /\ \A op \in Ops : MacOf(op) \in Macs /\ ReleaseOf(op) \in Releases
    /\ \A m \in Macs, r \in Releases, g \in 0 .. MaxSupplement :
         /\ OperationId(m, r, g) \in Ops /\ MacOf(OperationId(m, r, g)) = m
         /\ ReleaseOf(OperationId(m, r, g)) = r
  BY DEF Ops, MacOf, ReleaseOf, OperationId

LEMMA RealTyped ==
    ASSUME SoftwareAssumption, SoftwareTypes
    PROVE  /\ Real \in RealSet
           /\ \A m \in Macs, c \in Components : Real[m][c] = Ran(m, c) /\ Ran(m, c) \in Nat
           /\ \A m \in Macs : loaded[m] \in Nat /\ undone[m] \in Nat
           /\ \A m \in Macs : Real[m]["hub"] >= loaded[m]
           /\ \A m \in Macs, c \in Fittings : Real[m][c] = fits[m][c]
           /\ \A m \in Macs, c \in Fittings : fits[m][c] \in Nat
<1>1. \A r \in Releases \cup {0} : r \in Nat
  BY DEF SoftwareAssumption
<1>2. \A m \in Macs : loaded[m] \in Nat /\ undone[m] \in Nat
  BY <1>1 DEF SoftwareTypes
<1>3. ASSUME NEW m \in Macs, NEW c \in Fittings PROVE fits[m][c] \in Nat
  <2>1. fits[m] \in [Fittings -> Releases \cup {0}]
    BY DEF SoftwareTypes
  <2>2. fits[m][c] \in Releases \cup {0}
    BY <2>1
  <2> QED BY <1>1, <2>2
<1>4. \A c \in Components : c = "hub" \/ c \in Fittings
  BY DEF Components
<1>5. "hub" \in Components /\ "hub" \notin Fittings /\ Fittings \subseteq Components
  BY DEF Components, SoftwareAssumption
<1>6. \A m \in Macs, c \in Components : Real[m][c] = Ran(m, c) /\ Ran(m, c) \in Nat
  BY <1>2, <1>3, <1>4 DEF Real, Ran, Running
<1>7. Real \in RealSet
  BY <1>6 DEF Real, RealSet
<1>8. \A m \in Macs : Real[m]["hub"] >= loaded[m]
  <2> SUFFICES ASSUME NEW m \in Macs PROVE Real[m]["hub"] >= loaded[m]
    OBVIOUS
  <2>1. Real[m]["hub"] = IF undone[m] > loaded[m] THEN undone[m] ELSE loaded[m]
    BY <1>5, <1>6 DEF Ran, Running
  <2> QED BY <1>2, <2>1
<1>9. \A m \in Macs, c \in Fittings : Real[m][c] = fits[m][c]
  BY <1>5, <1>6 DEF Ran, Running
<1> QED BY <1>2, <1>3, <1>6, <1>7, <1>8, <1>9, Zenon

LEMMA RealTypedNext == SoftwareTypes' => Real' \in RealSet
<1>1. SoftwareTypes => Real \in RealSet
  BY SoftwareAssumption, RealTyped
<1>2. (SoftwareTypes => Real \in RealSet)'
  BY <1>1, PTL
<1> QED BY <1>2 DEF RealSet

(* No step takes back what has run on a Mac. *)
Rises == Above(Real', Real)
(* A Hub's update and its rollback, which leaves its release in the history. *)
LEMMA HubRises ==
    ASSUME SoftwareAssumption, SoftwareTypes, SoftwareTypes', UNCHANGED fits,
           \A k \in Macs : undone'[k] >= undone[k] /\ (loaded'[k] >= loaded[k] \/ undone'[k] >= loaded[k])
    PROVE  Rises
<1>1. \A r \in Releases \cup {0} : r \in Nat
  BY DEF SoftwareAssumption
<1>2. ASSUME NEW k \in Macs, NEW c \in Components PROVE Real'[k][c] >= Real[k][c]
  <2>1. /\ loaded[k] \in Nat /\ undone[k] \in Nat /\ loaded'[k] \in Nat /\ undone'[k] \in Nat
    BY <1>1 DEF SoftwareTypes
  <2>2. CASE c = "hub"
    <3>1. /\ Real[k][c] = IF undone[k] > loaded[k] THEN undone[k] ELSE loaded[k]
          /\ Real'[k][c] = IF undone'[k] > loaded'[k] THEN undone'[k] ELSE loaded'[k]
      BY <2>2 DEF Real, Ran, Running
    <3> QED BY <2>1, <3>1
  <2>3. CASE c # "hub"
    <3>1. Real'[k][c] = Real[k][c]
      BY <2>3 DEF Real, Ran, Running
    <3>2. Real[k][c] \in Nat
      BY RealTyped
    <3> QED BY <3>1, <3>2
  <2> QED BY <2>2, <2>3
<1> QED BY <1>2 DEF Rises, Above

(* Software left alone, asked for, started, taken back and fitted only rises. *)
LEMMA SoftwareKept ==
    ASSUME SoftwareAssumption, SoftwareTypes, UNCHANGED << loaded, fits, undone >>,
           trial' \in [Macs -> Releases \cup {0, NoTrial}],
           managed' \in [Macs -> Ops \cup {NoOp}], verdict' \in [Ops -> Verdicts]
    PROVE  SoftwareTypes' /\ Rises
<1>1. SoftwareTypes'
  BY DEF SoftwareTypes
<1>2. \A k \in Macs : undone'[k] >= undone[k] /\ loaded'[k] >= loaded[k]
  BY RealTyped
<1> QED BY <1>1, <1>2, HubRises

LEMMA AskedKept ==
    ASSUME SoftwareAssumption, SoftwareTypes, NEW m \in Macs, NEW op \in Ops,
           UNCHANGED << loaded, fits, trial, undone, verdict >>,
           HubAsked(m, op) \/ UNCHANGED managed
    PROVE  SoftwareTypes' /\ Rises
<1>1. managed' \in [Macs -> Ops \cup {NoOp}] /\ verdict' \in [Ops -> Verdicts]
      /\ trial' \in [Macs -> Releases \cup {0, NoTrial}]
  BY DEF HubAsked, SoftwareTypes
<1> QED BY <1>1, SoftwareKept

LEMMA StartRises ==
    ASSUME SoftwareAssumption, SoftwareTypes, NEW m \in Macs, HelperStarts(m)
    PROVE  SoftwareTypes' /\ Rises
<1>1. managed[m] \in Ops /\ ReleaseOf(managed[m]) \in Releases
  BY OpFacts DEF SoftwareTypes, HelperStarts
<1>2. SoftwareTypes'
  BY <1>1 DEF SoftwareTypes, HelperStarts
<1>3. ASSUME NEW k \in Macs PROVE undone'[k] >= undone[k] /\ loaded'[k] >= loaded[k]
  <2>1. loaded[k] \in Nat /\ undone[k] \in Nat
    BY RealTyped
  <2>2. undone'[k] = undone[k] /\ (k # m => loaded'[k] = loaded[k])
    BY DEF HelperStarts, SoftwareTypes
  <2>3. ReleaseOf(managed[m]) \in Nat
    BY <1>1 DEF SoftwareAssumption
  <2>4. loaded[m] <= ReleaseOf(managed[m]) /\ loaded'[m] = ReleaseOf(managed[m])
    BY <2>1, <2>3, RealTyped DEF HelperStarts, SoftwareTypes
  <2> QED BY <2>1, <2>2, <2>3, <2>4
<1> QED BY <1>2, <1>3, HubRises DEF HelperStarts

(* An update that is over, one way or another *)
LEMMA CompletesTyped ==
    ASSUME SoftwareTypes, NEW m \in Macs, NEW how \in Verdicts, Completes(m, how)
    PROVE  /\ trial' \in [Macs -> Releases \cup {0, NoTrial}]
           /\ managed' \in [Macs -> Ops \cup {NoOp}] /\ verdict' \in [Ops -> Verdicts] /\ UNCHANGED fits
  BY DEF Completes, SoftwareTypes

LEMMA UpdateOver ==
    ASSUME SoftwareAssumption, SoftwareTypes, NEW m \in Macs, NEW how \in {"failed", "clean"},
           HelperVerifies(m) \/ HelperFails(m, how)
    PROVE  SoftwareTypes' /\ Rises
<1>1. \E x \in Verdicts : Completes(m, x)
  BY DEF HelperVerifies, HelperFails, Verdicts
<1>2. UNCHANGED << loaded, undone >>
  BY DEF HelperVerifies, HelperFails
<1> QED BY <1>1, <1>2, CompletesTyped, SoftwareKept

LEMMA RollbackRises ==
    ASSUME SoftwareAssumption, SoftwareTypes, NEW m \in Macs, NEW how \in {"failed", "clean"},
           HelperRollsBack(m, how)
    PROVE  SoftwareTypes' /\ Rises
<1>1. /\ trial' \in [Macs -> Releases \cup {0, NoTrial}]
      /\ managed' \in [Macs -> Ops \cup {NoOp}] /\ verdict' \in [Ops -> Verdicts] /\ UNCHANGED fits
  BY CompletesTyped DEF HelperRollsBack, Verdicts
<1>2. CASE trial[m] = NoTrial
  BY <1>1, <1>2, SoftwareKept DEF HelperRollsBack
<1>3. CASE trial[m] # NoTrial
  <2>1. /\ loaded' = [loaded EXCEPT ![m] = trial[m]]
        /\ undone' = [undone EXCEPT ![m] = IF @ < loaded[m] THEN loaded[m] ELSE @]
    BY <1>3 DEF HelperRollsBack
  <2>2. trial[m] \in Releases \cup {0}
    BY <1>3 DEF SoftwareTypes
  <2>3. SoftwareTypes'
    BY <1>1, <2>1, <2>2 DEF SoftwareTypes
  <2>4. ASSUME NEW k \in Macs
        PROVE  undone'[k] >= undone[k] /\ (loaded'[k] >= loaded[k] \/ undone'[k] >= loaded[k])
    <3>1. loaded[k] \in Nat /\ undone[k] \in Nat
      BY RealTyped
    <3>2. k # m => loaded'[k] = loaded[k] /\ undone'[k] = undone[k]
      BY <2>1 DEF SoftwareTypes
    <3>3. k = m => undone'[k] = IF undone[k] < loaded[k] THEN loaded[k] ELSE undone[k]
      BY <2>1 DEF SoftwareTypes
    <3> QED BY <3>1, <3>2, <3>3
  <2> QED BY <1>1, <2>3, <2>4, HubRises
<1> QED BY <1>2, <1>3

LEMMA FitsRise ==
    ASSUME SoftwareAssumption, SoftwareTypes, NEW m \in Macs, NEW r \in Releases, NEW outcome,
           FitsEnd(m, r, outcome),
           UNCHANGED << loaded, trial, undone, verdict >>, NEW op \in Ops, HubAsked(m, op) \/ UNCHANGED managed
    PROVE  SoftwareTypes' /\ Rises /\ \A c \in Fittings : c \in DOMAIN outcome /\ outcome[c] = "current"
           => Real'[m][c] >= r
<1> DEFINE Fitted(k, c) == IF k = m /\ c \in DOMAIN outcome /\ outcome[c] = "current" THEN r ELSE fits[k][c]
<1>1. /\ fits' \in [Macs -> [Fittings -> Releases \cup {0}]]
      /\ \A k \in Macs, c \in Fittings : fits'[k][c] = Fitted(k, c)
  BY DEF FitsEnd, SoftwareTypes
<1>2. SoftwareTypes'
  BY <1>1 DEF SoftwareTypes, HubAsked
<1>3. r \in Nat
  BY DEF SoftwareAssumption
<1>4. \A k \in Macs, c \in Fittings : fits[k][c] \in Nat
  BY RealTyped
<1>5. ASSUME NEW k \in Macs, NEW c \in Components
      PROVE  Real'[k][c] >= Real[k][c]
  <2>1. CASE c = "hub"
    <3>1. Real'[k][c] = Real[k][c]
      BY <2>1 DEF Real, Ran, Running
    <3>2. Real[k][c] \in Nat
      BY RealTyped
    <3> QED BY <3>1, <3>2
  <2>2. CASE c # "hub"
    <3>1. c \in Fittings
      BY <2>2 DEF Components
    <3>2. Real'[k][c] = Fitted(k, c) /\ Real[k][c] = fits[k][c]
      BY <1>1, <2>2, <3>1 DEF Real, Ran, Running
    <3>3. fits[k][c] \in Nat
      BY <1>4, <3>1
    <3>4. Fitted(k, c) = r => fits[k][c] <= r \/ Fitted(k, c) = fits[k][c]
      BY <3>1 DEF FitsEnd
    <3>5. Fitted(k, c) = r \/ Fitted(k, c) = fits[k][c]
      OBVIOUS
    <3> HIDE DEF Fitted
    <3> QED BY <1>3, <3>2, <3>3, <3>4, <3>5
  <2> QED BY <2>1, <2>2
<1>6. ASSUME NEW c \in Fittings, c \in DOMAIN outcome, outcome[c] = "current"
      PROVE  Real'[m][c] >= r
  <2>1. c \in Components /\ c # "hub"
    BY DEF Components, SoftwareAssumption
  <2>2. Real'[m][c] = r
    BY <1>1, <1>6, <2>1 DEF Real, Ran, Running
  <2> QED BY <1>3, <2>2
<1> QED BY <1>2, <1>5, <1>6 DEF Rises, Above

-----------------------------------------------------------------------------
(* A run *)

(* What holds of a run, with the file it works on. *)
RunWell(f, run, r) ==
    /\ run \in RunSet
    /\ run.pc \notin {"idle", "scheduled"} => run.id[1] = r
    /\ run.pc \in {"posted", "polling"} => MacOf(run.op) = run.at /\ ReleaseOf(run.op) = r
    /\ run.pc = "closing" /\ Live(f, run.id) => Acked(f.jobs[run.id])

(* The runs that wait for nobody, and those that wait for an Agent. *)
PlainPcs == {"begin", "turn", "fitting", "catalog", "closing"}
PlainRuns == [pc : PlainPcs, id : JobIds, gen : Nat, left : SUBSET Macs, at : Macs]
Replies == {"none", "admitted", "adopted", "refused"}
PostedRuns == [pc : {"posted", "polling"}, id : JobIds, gen : Nat, left : SUBSET Macs, at : Agents,
               op : Ops, seen : BOOLEAN, reply : Replies]
(* The fields of a run *)
LEMMA RunFields ==
    /\ \A run \in RunSet :
        /\ run.pc \in {"idle", "scheduled", "posted", "polling"} \cup PlainPcs
        /\ run.pc \notin {"idle", "scheduled"} =>
             run.id \in JobIds /\ run.gen \in Nat /\ run.left \in SUBSET Macs /\ run.at \in Macs
        /\ run.pc \in PlainPcs => run \in PlainRuns
        /\ run.pc \in {"posted", "polling"} => run \in PostedRuns
    /\ NoRun \in RunSet /\ [pc |-> "scheduled"] \in RunSet
    /\ PlainRuns \subseteq RunSet /\ PostedRuns \subseteq RunSet
<1>1. RunSet = {NoRun, [pc |-> "scheduled"]} \cup PlainRuns \cup PostedRuns
  BY DEF RunSet, PlainRuns, PostedRuns, PlainPcs, Replies
<1>2. NoRun.pc = "idle" /\ [pc |-> "scheduled"].pc = "scheduled"
  BY DEF NoRun
<1>3. \A run \in PlainRuns : /\ run.pc \in PlainPcs /\ run.id \in JobIds /\ run.gen \in Nat
                             /\ run.left \in SUBSET Macs /\ run.at \in Macs
  BY DEF PlainRuns
<1>4. \A run \in PostedRuns : /\ run.pc \in {"posted", "polling"} /\ run.id \in JobIds /\ run.gen \in Nat
                              /\ run.left \in SUBSET Macs /\ run.at \in Macs
  BY DEF PostedRuns, Agents
<1>5. PlainPcs \cap {"idle", "scheduled", "posted", "polling"} = {}
  BY DEF PlainPcs
<1> HIDE DEF PlainRuns, PostedRuns
<1> QED BY <1>1, <1>2, <1>3, <1>4, <1>5

(* The steps of others leave a run as it is. *)
LEMMA RunCalm ==
    ASSUME NEW f, NEW g, Calm(f, g), NEW r, NEW run, RunWell(f, run, r)
    PROVE  RunWell(g, run, r)
<1>1. run.pc = "closing" => run.id \in JobIds
  BY RunFields DEF RunWell
<1> QED BY <1>1 DEF RunWell, Calm

LEMMA RunElsewhere ==
    ASSUME NEW f, NEW g, NEW id \in JobIds, OnlyAt(f, g, id), NEW r, NEW run, RunWell(f, run, r), id[1] # r
    PROVE  RunWell(g, run, r)
<1>1. run.pc = "closing" => run.id \in JobIds /\ run.id # id
  BY RunFields DEF RunWell
<1>2. run.pc = "closing" => g.jobs[run.id] = f.jobs[run.id]
  BY <1>1 DEF OnlyAt
<1> QED BY <1>2 DEF RunWell, Live

(* A run that rests is well whatever the file. *)
LEMMA Resting == \A f, r : RunWell(f, NoRun, r) /\ RunWell(f, [pc |-> "scheduled"], r)
<1>1. NoRun.pc = "idle" /\ [pc |-> "scheduled"].pc = "scheduled"
  BY DEF NoRun
<1> QED BY <1>1, RunFields DEF RunWell

-----------------------------------------------------------------------------
(* What a step of a run does to the file and to the run. *)
RunsTyped == runs \in [Releases -> RunSet]
(* A run that can step, and what its step does *)
Ready(r, real) ==
    /\ SoftwareAssumption /\ FileWell(file, real) /\ pathOwner \in BOOLEAN /\ RunsTyped
    /\ RunWell(file, runs[r], r) /\ Busy(r)
RunStep(r, real) ==
    /\ Works1(file, file', runs[r].id, real)
    /\ pathOwner' \in BOOLEAN
    /\ \E run : RunWell(file', run, r) /\ runs' = [runs EXCEPT ![r] = run]

(* A run that passes the fence holds its job. *)
LEMMA ReadyFacts ==
    ASSUME NEW r \in Releases, NEW real, Ready(r, real)
    PROVE  /\ runs[r] \in RunSet /\ runs[r].id \in JobIds /\ runs[r].id[1] = r /\ runs[r].gen \in Nat
           /\ runs[r].left \in SUBSET Macs /\ runs[r].at \in Macs
           /\ Works1(file, file, runs[r].id, real)
<1>1. runs[r] \in RunSet
  BY DEF Ready, RunsTyped
<1> QED BY <1>1, RunFields, KeepsSame DEF Ready, Busy, RunWell, Works1

LEMMA FenceFacts ==
    ASSUME NEW r \in Releases, NEW real, Ready(r, real), Fence(file, runs[r])
    PROVE  /\ Live(file, runs[r].id) /\ JobOf(r) = file.jobs[runs[r].id] /\ JobOf(r) \in JobSet
           /\ JobOf(r).state \notin Terminal /\ file.active = runs[r].id
           /\ JobWell(JobOf(r), r, real) /\ JobOf(r).rows \in RowsSet
<1>1. runs[r].id \in JobIds /\ runs[r].id[1] = r
  BY ReadyFacts
<1>2. Live(file, runs[r].id) /\ file.jobs[runs[r].id].lease = "mine"
  BY DEF Fence
<1>3. JobWell(file.jobs[runs[r].id], r, real) /\ JobPlaced(file, runs[r].id)
  BY <1>1, <1>2 DEF Ready, FileWell
<1>4. JobOf(r) = file.jobs[runs[r].id]
  BY DEF JobOf
<1>5. JobOf(r) \in JobSet
  BY <1>3, <1>4 DEF JobWell, Shaped
<1>6. JobOf(r).state \notin Terminal
  BY <1>2, <1>3, <1>4 DEF JobWell, Standing
<1>7. file.active = runs[r].id
  BY <1>2, <1>3 DEF JobPlaced
<1> QED BY <1>2, <1>3, <1>4, <1>5, <1>6, <1>7, JobFields

(* A run ends, or goes on to the next Mac. *)
LEMMA EndsStep ==
    ASSUME NEW r \in Releases, NEW real, Ready(r, real), NEW f, Works1(file, f, runs[r].id, real), Ends(r, f)
    PROVE  RunStep(r, real)
<1>1. runs[r].id \in JobIds /\ SoftwareAssumption
  BY ReadyFacts DEF Ready
<1>2. Works1(f, Returned(f, runs[r]), runs[r].id, real)
  BY <1>1, ReturnedWell DEF Works1
<1>3. Works1(file, file', runs[r].id, real)
  BY <1>2, WorksTrans DEF Ends
<1>4. pathOwner' \in BOOLEAN
  <2>1. OwnedAfter(f, runs[r]) = FALSE \/ OwnedAfter(f, runs[r]) = pathOwner
    BY DEF OwnedAfter
  <2>2. pathOwner' = OwnedAfter(f, runs[r]) /\ pathOwner \in BOOLEAN
    BY DEF Ends, Ready
  <2> QED BY <2>1, <2>2
<1>5. RunWell(file', NoRun, r) /\ runs' = [runs EXCEPT ![r] = NoRun]
  BY Resting DEF Ends
<1> QED BY <1>3, <1>4, <1>5 DEF RunStep

LEMMA NextMacStep ==
    ASSUME NEW r \in Releases, NEW real, Ready(r, real), NEW f, Works1(file, f, runs[r].id, real), NextMac(r, f)
    PROVE  RunStep(r, real)
<1> DEFINE run == [pc |-> "turn", id |-> runs[r].id, gen |-> runs[r].gen, left |-> runs[r].left \ {runs[r].at},
               at |-> Local]
<1>1. runs[r].id \in JobIds /\ runs[r].id[1] = r /\ runs[r].gen \in Nat /\ runs[r].left \in SUBSET Macs
      /\ Local \in Macs
  BY ReadyFacts DEF Ready, SoftwareAssumption
<1>2. run \in PlainRuns
  BY <1>1 DEF PlainRuns, PlainPcs
<1>3. run.pc = "turn" /\ run.id = runs[r].id
  OBVIOUS
<1>4. runs' = [runs EXCEPT ![r] = run]
  BY DEF NextMac, Ready, RunsTyped
<1> HIDE DEF run
<1>5. RunWell(file', run, r)
  BY <1>1, <1>2, <1>3, RunFields DEF RunWell
<1>6. pathOwner' \in BOOLEAN
  BY Zenon DEF NextMac
<1>7. Works1(file, file', runs[r].id, real)
  BY DEF NextMac
<1> QED BY <1>4, <1>5, <1>6, <1>7 DEF RunStep

(* The run moves on by itself. *)
LEMMA MovesOn ==
    ASSUME NEW r \in Releases, NEW real, Ready(r, real), Works1(file, file', runs[r].id, real),
           UNCHANGED pathOwner,
           NEW run, RunWell(file', run, r), runs' = [runs EXCEPT ![r] = run]
    PROVE  RunStep(r, real)
  BY DEF RunStep, Ready

-----------------------------------------------------------------------------
(* A run takes its turn at a Mac, and asks its Agent. *)

(* A run between two requests, and one that waits for an Agent *)
LEMMA PlainRun ==
    ASSUME NEW r \in Releases, NEW real, Ready(r, real), NEW run \in PlainRuns, run.id = runs[r].id,
           NEW f, run.pc = "closing" => Live(f, run.id) /\ Acked(f.jobs[run.id])
    PROVE  RunWell(f, run, r)
<1>1. runs[r].id[1] = r /\ run.pc \in PlainPcs /\ run \in RunSet
  BY ReadyFacts, RunFields DEF PlainRuns
<1> QED BY <1>1 DEF RunWell, PlainPcs

LEMMA PostedRun ==
    ASSUME NEW r \in Releases, NEW real, Ready(r, real), NEW run \in PostedRuns, run.id = runs[r].id,
           MacOf(run.op) = run.at, ReleaseOf(run.op) = r, NEW f
    PROVE  RunWell(f, run, r)
<1>1. runs[r].id[1] = r /\ run.pc \in {"posted", "polling"} /\ run \in RunSet
  BY ReadyFacts, RunFields DEF PostedRuns
<1> QED BY <1>1 DEF RunWell

LEMMA BeginsStep ==
    ASSUME NEW r \in Releases, NEW real, Ready(r, real), RunBegins(r)
    PROVE  RunStep(r, real)
<1>1. CASE ~Fence(file, runs[r])
  BY <1>1, EndsStep, ReadyFacts DEF RunBegins
<1>2. CASE Fence(file, runs[r])
  <2> DEFINE job == WithoutDisabled(file.jobs[runs[r].id])
             left == {m \in Macs : Member(job, m) /\ ~LeftOut(job, m)}
             run == [runs[r] EXCEPT !.pc = "turn", !.left = left]
  <2>1. runs[r] \in PlainRuns /\ left \in SUBSET Macs
    BY ReadyFacts, RunFields DEF RunBegins, PlainPcs
  <2>2. file' = Put(file, runs[r].id, job) /\ runs' = [runs EXCEPT ![r] = run] /\ UNCHANGED pathOwner
    BY <1>2 DEF RunBegins, Ready, RunsTyped
  <2> HIDE DEF left, job
  <2>3. run \in PlainRuns /\ run.id = runs[r].id /\ run.pc = "turn"
    BY <2>1 DEF PlainRuns, PlainPcs
  <2> HIDE DEF run
  <2>4. RunWell(file', run, r)
    BY <2>3, PlainRun
  <2>5. Works1(file, file', runs[r].id, real)
    BY <1>2, <2>2, ReadyFacts, FenceFacts, WithoutWell DEF job, Ready
  <2> QED BY <2>2, <2>4, <2>5, MovesOn
<1> QED BY <1>1, <1>2

LEMMA TurnRun ==
    ASSUME NEW r \in Releases, NEW real, Ready(r, real), Turn(r), NEW left \in SUBSET Macs, NEW at \in Macs,
           NEW f,
           NEW pc \in PlainPcs \ {"closing"}
    PROVE  /\ runs[r] \in PlainRuns
           /\ RunWell(f, [runs[r] EXCEPT !.left = left], r)
           /\ RunWell(f, [runs[r] EXCEPT !.pc = pc], r)
           /\ RunWell(f, [runs[r] EXCEPT !.pc = pc, !.at = at], r)
<1>1. runs[r] \in PlainRuns /\ runs[r].pc = "turn"
  BY ReadyFacts, RunFields DEF Turn, PlainPcs
<1> DEFINE one == [runs[r] EXCEPT !.left = left]
           two == [runs[r] EXCEPT !.pc = pc]
           three == [runs[r] EXCEPT !.pc = pc, !.at = at]
<1>2. one \in PlainRuns /\ one.id = runs[r].id /\ one.pc # "closing"
  BY <1>1 DEF PlainRuns
<1>3. two \in PlainRuns /\ two.id = runs[r].id /\ two.pc # "closing"
  BY <1>1 DEF PlainRuns
<1>4. three \in PlainRuns /\ three.id = runs[r].id /\ three.pc # "closing"
  BY <1>1 DEF PlainRuns
<1> HIDE DEF one, two, three
<1>5. RunWell(f, one, r) /\ RunWell(f, two, r) /\ RunWell(f, three, r)
  BY <1>2, <1>3, <1>4, PlainRun
<1> QED BY <1>1, <1>5 DEF one, two, three

LEMMA PassOverStep ==
    ASSUME NEW r \in Releases, NEW real, Ready(r, real), NEW m \in Macs,
           NEW why \in {"disabled", "offline", "settled"},
           PassOver(r, m, why)
    PROVE  RunStep(r, real)
<1>1. Turn(r) /\ Fence(file, runs[r])
  BY DEF PassOver, To, Turn
<1>2. Live(file, runs[r].id) /\ file.jobs[runs[r].id].state \notin Terminal /\ runs[r].id \in JobIds
      /\ SoftwareAssumption
      /\ FileWell(file, real) /\ JobOf(r) = file.jobs[runs[r].id]
  BY <1>1, FenceFacts, ReadyFacts DEF Ready
<1>3. Works1(file, file', runs[r].id, real)
  <2>1. CASE why = "disabled"
    <3>1. file' = Excluded(file, runs[r].id, m)
      BY <2>1 DEF PassOver
    <3> QED BY <1>2, <3>1, ExcludedWell
  <2>2. CASE why = "offline"
    <3>1. file' = Parked(file, runs[r].id, m)
      BY <2>2 DEF PassOver
    <3> QED BY <1>2, <3>1, ParkedWell
  <2>3. CASE why = "settled"
    BY <2>3, ReadyFacts DEF PassOver
  <2> QED BY <2>1, <2>2, <2>3
<1> DEFINE left == runs[r].left \ {m}
           run == [runs[r] EXCEPT !.left = left]
<1>4. left \in SUBSET Macs
  BY ReadyFacts
<1>5. runs' = [runs EXCEPT ![r] = run] /\ UNCHANGED pathOwner
  BY DEF PassOver, Ready, RunsTyped
<1> HIDE DEF left
<1>6. RunWell(file', run, r)
  BY <1>1, <1>4, TurnRun, Local \in Macs, "turn" \in PlainPcs \ {"closing"} DEF PlainPcs, SoftwareAssumption,
     Ready
<1> QED BY <1>3, <1>5, <1>6, MovesOn

LEMMA PostsStep ==
    ASSUME NEW r \in Releases, NEW real, Ready(r, real), NEW m \in Macs, RunPosts(r, m)
    PROVE  RunStep(r, real) /\ Operation(r, m) \in Ops
           /\ posts' = posts \cup {[op |-> Operation(r, m), run |-> r]}
<1>1. Turn(r) /\ Fence(file, runs[r]) /\ m \in Agents
  BY DEF RunPosts, To, Turn, Agents
<1>2. JobOf(r) \in JobSet /\ runs[r].id[1] = r /\ runs[r].id \in JobIds /\ runs[r].gen \in Nat
      /\ runs[r].left \in SUBSET Macs
  BY <1>1, FenceFacts, ReadyFacts
<1>3. JobOf(r).opgen[m] \in 0 .. MaxSupplement
  BY <1>2, JobFields
<1>4. Operation(r, m) \in Ops /\ MacOf(Operation(r, m)) = m /\ ReleaseOf(Operation(r, m)) = r
  BY <1>2, <1>3, OpFacts DEF Operation
<1> DEFINE run == [pc |-> "posted", id |-> runs[r].id, gen |-> runs[r].gen, left |-> runs[r].left, at |-> m,
                   op |-> Operation(r, m), seen |-> m \in JobOf(r).child, reply |-> "none"]
<1>5. (m \in JobOf(r).child) \in BOOLEAN
  OBVIOUS
<1>6. run \in PostedRuns /\ run.id = runs[r].id /\ MacOf(run.op) = run.at /\ ReleaseOf(run.op) = r
  BY <1>1, <1>2, <1>4, <1>5 DEF PostedRuns, Replies
<1>7. runs' = [runs EXCEPT ![r] = run] /\ UNCHANGED << file, pathOwner >>
  BY DEF RunPosts, Ready, RunsTyped
<1> HIDE DEF run
<1>8. RunWell(file', run, r)
  BY <1>6, PostedRun
<1>9. Works1(file, file', runs[r].id, real)
  BY <1>7, ReadyFacts
<1>10. RunStep(r, real)
  BY <1>7, <1>8, <1>9, MovesOn
<1> QED BY <1>4, <1>10 DEF RunPosts

LEMMA WaitingRun ==
    ASSUME NEW r \in Releases, NEW real, Ready(r, real), runs[r].pc \in {"posted", "polling"}, NEW f
    PROVE  /\ runs[r] \in PostedRuns /\ runs[r].op \in Ops /\ runs[r].at \in Agents
           /\ MacOf(runs[r].op) = runs[r].at /\ ReleaseOf(runs[r].op) = r
           /\ RunWell(f, [runs[r] EXCEPT !.seen = TRUE], r)
           /\ RunWell(f, [runs[r] EXCEPT !.pc = "polling"], r)
           /\ \A reply \in Replies : RunWell(f, [runs[r] EXCEPT !.reply = reply], r)
<1>1. runs[r] \in PostedRuns /\ MacOf(runs[r].op) = runs[r].at /\ ReleaseOf(runs[r].op) = r
  BY ReadyFacts, RunFields DEF Ready, RunWell
<1> DEFINE one == [runs[r] EXCEPT !.seen = TRUE]
           two == [runs[r] EXCEPT !.pc = "polling"]
           Heard(reply) == [runs[r] EXCEPT !.reply = reply]
<1>2. one \in PostedRuns /\ one.id = runs[r].id /\ one.op = runs[r].op /\ one.at = runs[r].at
  BY <1>1 DEF PostedRuns
<1>3. two \in PostedRuns /\ two.id = runs[r].id /\ two.op = runs[r].op /\ two.at = runs[r].at
  BY <1>1 DEF PostedRuns
<1>4. \A reply \in Replies : /\ Heard(reply) \in PostedRuns /\ Heard(reply).id = runs[r].id
                             /\ Heard(reply).op = runs[r].op /\ Heard(reply).at = runs[r].at
  BY <1>1 DEF PostedRuns
<1> HIDE DEF one, two, Heard
<1>5. RunWell(f, one, r) /\ RunWell(f, two, r) /\ \A reply \in Replies : RunWell(f, Heard(reply), r)
  BY <1>1, <1>2, <1>3, <1>4, PostedRun
<1>6. runs[r].op \in Ops /\ runs[r].at \in Agents
  BY <1>1 DEF PostedRuns
<1> QED BY <1>1, <1>5, <1>6 DEF one, two, Heard

-----------------------------------------------------------------------------
(* The answer of an Agent, and the Controller's own Mac *)

LEMMA RepostsStep ==
    ASSUME NEW r \in Releases, NEW real, Ready(r, real), RunReposts(r)
    PROVE  RunStep(r, real) /\ runs[r].op \in Ops /\ posts' = posts \cup {[op |-> runs[r].op, run |-> r]}
<1> DEFINE run == [runs[r] EXCEPT !.seen = TRUE]
<1>1. runs' = [runs EXCEPT ![r] = run] /\ UNCHANGED << file, pathOwner >>
  BY DEF RunReposts, Ready, RunsTyped
<1>2. RunWell(file', run, r) /\ runs[r].op \in Ops
  BY WaitingRun DEF RunReposts
<1> HIDE DEF run
<1>3. Works1(file, file', runs[r].id, real)
  BY <1>1, ReadyFacts
<1>4. RunStep(r, real)
  BY <1>1, <1>2, <1>3, MovesOn
<1> QED BY <1>2, <1>4 DEF RunReposts

(* The job of a run that passes the fence, and the answers it records *)
LEMMA FencedJob ==
    ASSUME NEW r \in Releases, NEW real, Ready(r, real), Fence(file, runs[r])
    PROVE  /\ runs[r].id \in JobIds /\ Live(file, runs[r].id) /\ file.jobs[runs[r].id].state \notin Terminal
           /\ SoftwareAssumption /\ FileWell(file, real) /\ JobOf(r) = file.jobs[runs[r].id]
           /\ runs[r].id[1] = r /\ runs[r].at \in Macs
  BY FenceFacts, ReadyFacts DEF Ready

LEMMA AdmittedStep ==
    ASSUME NEW r \in Releases, NEW real, Ready(r, real), RunAdmitted(r)
    PROVE  RunStep(r, real)
<1>1. CASE ~Fence(file, runs[r])
  BY <1>1, EndsStep, ReadyFacts DEF RunAdmitted
<1>2. CASE Fence(file, runs[r]) /\ NextMac(r, Parked(file, runs[r].id, runs[r].at))
  BY <1>2, FencedJob, ParkedWell, NextMacStep
<1>3. CASE Fence(file, runs[r]) /\ file' = Kept(r) /\ runs' = [runs EXCEPT ![r].pc = "polling"]
           /\ UNCHANGED pathOwner
  <2> DEFINE run == [runs[r] EXCEPT !.pc = "polling"]
  <2>1. RunWell(file', run, r)
    BY WaitingRun DEF RunAdmitted
  <2>2. runs' = [runs EXCEPT ![r] = run]
    BY <1>3 DEF Ready, RunsTyped
  <2> HIDE DEF run
  <2>3. file' = Put(file, runs[r].id, [file.jobs[runs[r].id] EXCEPT !.child = @ \cup {runs[r].at}])
    BY <1>3 DEF Kept, JobOf
  <2>4. Works1(file, file', runs[r].id, real)
    BY <1>3, <2>3, FencedJob, KeptWell
  <2> QED BY <1>3, <2>1, <2>2, <2>4, MovesOn
<1> QED BY <1>1, <1>2, <1>3 DEF RunAdmitted

LEMMA GivesUpStep ==
    ASSUME NEW r \in Releases, NEW real, Ready(r, real), RunGivesUp(r)
    PROVE  RunStep(r, real)
  BY FencedJob, ParkedWell, NextMacStep DEF RunGivesUp

(* What a child reports as current runs the release. *)
ChildGood(child, m, r, real) ==
    /\ ChildIsValid(child) /\ child.rows["hub"] # "absent"
    /\ \A c \in Components : child.rows[c] = "current" => real[m][c] >= r
ChildWell(op) == Admitted(op) => ChildGood(children[op], MacOf(op), ReleaseOf(op), Real)
(* A poll records what the child of the Mac reports, which is true. *)
LEMMA PollsStep ==
    ASSUME NEW r \in Releases, Ready(r, Real), ChildWell(runs[r].op), RunPolls(r)
    PROVE  RunStep(r, Real)
<1> DEFINE child == children[runs[r].op]
           results == Observed(child)
           told == [c \in {d \in Components : results[d] # "absent"} |-> results[c]]
<1>1. RunRecords(r, results) /\ Admitted(runs[r].op) /\ runs[r].pc = "polling"
  BY DEF RunPolls, Admitted
<1>2. child.rows \in [Components -> ChildRows] /\ child.rows["hub"] # "absent"
  BY <1>1 DEF ChildWell, ChildGood, ChildIsValid, ChildSet
<1>3. MacOf(runs[r].op) = runs[r].at /\ ReleaseOf(runs[r].op) = r /\ runs[r].id[1] = r
  BY <1>1, WaitingRun, ReadyFacts
<1>4. ASSUME NEW c \in Components
      PROVE  /\ results[c] \in {"absent", "restarting", "current", "failed", "clean", "wrong"}
             /\ results[c] = "current" => child.rows[c] = "current"
             /\ results[c] = "absent" => child.rows[c] = "absent"
  <2>1. child.rows[c] \in ChildRows
    BY <1>2
  <2> QED BY <2>1 DEF Observed, ChildRows
<1>5. "hub" \in Components
  BY RowFacts
<1>6. \A c \in Components : child.rows[c] = "current" => Real[runs[r].at][c] >= runs[r].id[1]
  BY <1>1, <1>3 DEF ChildWell, ChildGood
<1> HIDE DEF results, child
<1>7. DOMAIN told \subseteq Components /\ "hub" \in DOMAIN told
  BY <1>2, <1>4, <1>5
<1>8. ASSUME NEW c \in DOMAIN told
      PROVE  told[c] \in Results \ {"none"} /\ (told[c] = "current" => Real[runs[r].at][c] >= runs[r].id[1])
  <2>1. c \in Components /\ told[c] = results[c] /\ results[c] # "absent"
    OBVIOUS
  <2> QED BY <2>1, <1>4, <1>6 DEF Results
<1>9. CASE ~Fence(file, runs[r])
  BY <1>1, <1>9, EndsStep, ReadyFacts DEF RunRecords
<1>10. CASE Fence(file, runs[r]) /\ NextMac(r, Recorded(file, runs[r].id, runs[r].at, told))
  <2> HIDE DEF told
  <2>1. Works1(file, Recorded(file, runs[r].id, runs[r].at, told), runs[r].id, Real)
    BY <1>7, <1>8, <1>10, FencedJob, RecordedWell
  <2> QED BY <1>10, <2>1, NextMacStep
<1>11. CASE Fence(file, runs[r]) /\ NextMac(r, Parked(file, runs[r].id, runs[r].at))
  BY <1>11, FencedJob, ParkedWell, NextMacStep
<1> QED BY <1>1, <1>9, <1>10, <1>11 DEF RunRecords

LEMMA FitsStep ==
    ASSUME NEW r \in Releases, NEW real, Ready(r, real), RunFits(r)
    PROVE  RunStep(r, real)
<1> DEFINE run == [runs[r] EXCEPT !.pc = "fitting", !.at = Local]
<1>1. Turn(r) /\ Local \in Macs /\ "fitting" \in PlainPcs \ {"closing"} /\ runs[r].left \in SUBSET Macs
  BY ReadyFacts DEF RunFits, To, PlainPcs, SoftwareAssumption, Ready
<1>2. RunWell(file', run, r)
  BY <1>1, TurnRun
<1>3. runs' = [runs EXCEPT ![r] = run] /\ UNCHANGED << file, pathOwner >>
  BY DEF RunFits, Ready, RunsTyped
<1> HIDE DEF run
<1>4. Works1(file, file', runs[r].id, real)
  BY <1>3, ReadyFacts
<1> QED BY <1>2, <1>3, <1>4, MovesOn

LEMMA HubRowWell ==
    ASSUME SoftwareAssumption, NEW r \in Releases, NEW real, NEW f, FileWell(f, real), runs[r].id \in JobIds,
           Live(f, runs[r].id),
           NEW answer \in {"restarting", "failed", "clean"}, loaded[Local] = runs[r].id[1]
           => real[Local]["hub"] >= runs[r].id[1]
    PROVE  Works1(f, HubRow(r, f, HubResult(r, answer)), runs[r].id, real)
<1> DEFINE result == HubResult(r, answer)
<1>1. result \in Results /\ (result = "current" => real[Local]["hub"] >= runs[r].id[1])
  BY DEF HubResult, Results
<1>2. Local \in Macs /\ "hub" \in Components
  BY RowFacts DEF SoftwareAssumption
<1> HIDE DEF result
<1>3. Works1(f, f, runs[r].id, real)
  BY KeepsSame DEF Works1
<1>4. Works1(f, Excluded(f, runs[r].id, Local), runs[r].id, real)
  BY <1>2, ExcludedWell
<1>5. Works1(f, Record(f, runs[r].id, Local, "hub", result), runs[r].id, real)
  BY <1>1, <1>2, RecordWell
<1> QED BY <1>3, <1>4, <1>5 DEF HubRow, result

LEMMA SettlesStep ==
    ASSUME NEW r \in Releases, NEW real, Ready(r, real), NEW f, Works1(file, f, runs[r].id, real),
           Live(f, runs[r].id),
           NEW answer \in {"restarting", "failed", "clean"}, SettleHub(r, f, answer), SoftwareTypes,
           loaded[Local] <= real[Local]["hub"], real[Local]["hub"] \in Nat
    PROVE  RunStep(r, real)
<1>1. loaded[Local] = runs[r].id[1] => real[Local]["hub"] >= runs[r].id[1]
  <2>1. loaded[Local] \in Nat
    BY RealTyped DEF Ready, SoftwareAssumption
  <2> QED BY <2>1
<1>2. Works1(f, HubRow(r, f, HubResult(r, answer)), runs[r].id, real)
  BY <1>1, ReadyFacts, HubRowWell DEF Works1, Ready
<1>3. Works1(file, HubRow(r, f, HubResult(r, answer)), runs[r].id, real)
  BY <1>2, WorksTrans
<1> QED BY <1>3, NextMacStep DEF SettleHub

-----------------------------------------------------------------------------
(* The Controller's own Studios and Hub, the catalog, and the end of a run *)

(* The operations of the Controller's own Mac *)
LEMMA OwnOperation ==
    ASSUME NEW r \in Releases, NEW real, Ready(r, real), Live(file, runs[r].id), NEW m \in Macs
    PROVE  JobOf(r) \in JobSet /\ Operation(r, m) \in Ops
<1>1. runs[r].id \in JobIds /\ runs[r].id[1] = r
  BY ReadyFacts
<1>2. JobOf(r) \in JobSet
  BY <1>1, FileFields DEF Ready, JobOf
<1>3. JobOf(r).opgen[m] \in 0 .. MaxSupplement
  BY <1>2, JobFields
<1> QED BY <1>1, <1>2, <1>3, OpFacts DEF Operation

LEMMA SettlesHubStep ==
    ASSUME NEW r \in Releases, Ready(r, Real), SoftwareTypes, NEW answer \in {"restarting", "failed", "clean"},
           RunSettlesHub(r, answer)
    PROVE  RunStep(r, Real) /\ SoftwareTypes' /\ Rises
<1>1. Turn(r) /\ Fence(file, runs[r]) /\ SettleHub(r, file, answer) /\ UNCHANGED << loaded, fits, trial, undone, verdict >>
  BY DEF RunSettlesHub, To, Turn
<1>2. Live(file, runs[r].id) /\ SoftwareAssumption /\ Local \in Macs
  BY <1>1, FencedJob DEF SoftwareAssumption
<1>3. loaded[Local] <= Real[Local]["hub"] /\ Real[Local]["hub"] \in Nat
  <2>1. loaded[Local] \in Nat /\ Real[Local]["hub"] >= loaded[Local] /\ Real[Local]["hub"] \in Nat
    BY <1>2, RealTyped, RowFacts
  <2> QED BY <2>1
<1>4. RunStep(r, Real)
  BY <1>1, <1>2, <1>3, ReadyFacts, SettlesStep
<1>5. HubAsked(Local, Operation(r, Local)) \/ UNCHANGED managed
  BY <1>1 DEF SettleHub
<1>6. SoftwareTypes' /\ Rises
  BY <1>1, <1>2, <1>5, OwnOperation, AskedKept
<1> QED BY <1>4, <1>6

LEMMA FittedStep ==
    ASSUME NEW r \in Releases, Ready(r, Real), SoftwareTypes, NEW answer \in {"restarting", "failed", "clean"},
           NEW outcome,
           RunFitted(r, outcome, answer)
    PROVE  RunStep(r, Real') /\ SoftwareTypes' /\ Rises
<1>1. /\ Live(file, runs[r].id) /\ SoftwareAssumption /\ Local \in Macs
      /\ outcome \in [Pending(r, Local) -> Outcomes] /\ FitsEnd(Local, runs[r].id[1], outcome)
      /\ UNCHANGED << loaded, trial, undone, verdict >> /\ runs[r].id[1] = r /\ runs[r].id \in JobIds
  BY ReadyFacts DEF RunFitted, SoftwareAssumption, Ready
<1>2. HubAsked(Local, Operation(r, Local)) \/ UNCHANGED managed
  BY DEF SettleHub, RunFitted
<1>3. SoftwareTypes' /\ Rises /\ \A c \in Fittings : c \in DOMAIN outcome /\ outcome[c] = "current"
      => Real'[Local][c] >= r
  BY <1>1, <1>2, OwnOperation, FitsRise
<1>4. FileWell(file, Real')
  BY <1>1, <1>3, RealTyped, RealTypedNext, HigherWell DEF Rises, Ready
<1>5. Ready(r, Real')
  BY <1>4 DEF Ready
<1>6. CASE ~Fence(file, runs[r])
  BY <1>5, <1>6, EndsStep, ReadyFacts, <1>3 DEF RunFitted
<1>7. CASE Fence(file, runs[r])
  <2> DEFINE f == Recorded(file, runs[r].id, Local, outcome)
  <2>1. DOMAIN outcome = Pending(r, Local) /\ \A c \in DOMAIN outcome : outcome[c] \in Outcomes
    BY <1>1
  <2>2. /\ Pending(r, Local) \subseteq Fittings /\ Fittings \subseteq Components
        /\ \A c \in Pending(r, Local) : JobOf(r).rows[Local][c] = "checking"
    BY DEF Pending, Components
  <2>3. JobOf(r) = file.jobs[runs[r].id] /\ Shaped(JobOf(r), r, Real)
    BY <1>7, FenceFacts DEF JobWell
  <2>4. DOMAIN outcome # {} => Member(file.jobs[runs[r].id], Local)
    <3> SUFFICES ASSUME NEW c \in DOMAIN outcome PROVE Member(file.jobs[runs[r].id], Local)
      OBVIOUS
    <3>1. JobOf(r).rows[Local][c] = "checking" /\ c \in Components
      BY <2>1, <2>2
    <3> QED BY <1>1, <2>3, <3>1 DEF Shaped
  <2>5. \A c \in DOMAIN outcome : outcome[c] \in Results \ {"none"}
        /\ (outcome[c] = "current" => Real'[Local][c] >= r)
    BY <1>3, <2>1, <2>2 DEF Outcomes, Results
  <2>6. Works1(file, f, runs[r].id, Real')
    <3> DEFINE real == Real'
    <3>1. FileWell(file, real) /\ \A c \in DOMAIN outcome : outcome[c] \in Results \ {"none"}
          /\ (outcome[c] = "current" => real[Local][c] >= r)
      BY <1>4, <2>5
    <3> HIDE DEF real
    <3>2. DOMAIN outcome \subseteq Components
      BY <2>1, <2>2
    <3>3. Works1(file, f, runs[r].id, real)
      BY <1>1, <2>4, <3>1, <3>2, RecordedWell
    <3> QED BY <3>3 DEF real
  <2>7. Live(f, runs[r].id)
    BY <1>1, <2>6 DEF Works1, Keeps
  <2>8. SettleHub(r, f, answer)
    BY <1>7 DEF RunFitted
  <2> HIDE DEF f
  <2>9. loaded[Local] <= Real'[Local]["hub"] /\ Real'[Local]["hub"] \in Nat
    <3>1. loaded[Local] \in Nat /\ Real[Local]["hub"] >= loaded[Local] /\ Real[Local]["hub"] \in Nat
      BY <1>1, RealTyped, RowFacts
    <3>2. Real'[Local]["hub"] = Real[Local]["hub"]
      BY <1>1 DEF Real, Ran, Running, Components
    <3> QED BY <3>1, <3>2
  <2>10. RunStep(r, Real')
    BY <1>5, <2>6, <2>7, <2>8, <2>9, SettlesStep
  <2> QED BY <1>3, <2>10
<1> QED BY <1>6, <1>7

LEMMA RequestsStep ==
    ASSUME NEW r \in Releases, NEW real, Ready(r, real), RunRequests(r)
    PROVE  RunStep(r, real)
<1>1. runs[r].pc = "turn" /\ Fence(file, runs[r])
  BY DEF RunRequests, RunOver
<1>2. runs[r] \in PlainRuns
  BY <1>1, ReadyFacts, RunFields DEF PlainPcs
<1> DEFINE closing == [runs[r] EXCEPT !.pc = "closing"]
           catalog == [runs[r] EXCEPT !.pc = "catalog"]
<1>3. closing \in PlainRuns /\ closing.id = runs[r].id /\ catalog \in PlainRuns /\ catalog.id = runs[r].id
      /\ catalog.pc = "catalog"
  BY <1>2 DEF PlainRuns, PlainPcs
<1> HIDE DEF closing, catalog
<1>4. CASE Ends(r, file)
  BY <1>4, EndsStep, ReadyFacts
<1>5. CASE JobOf(r).catalog = "acknowledged" /\ runs' = [runs EXCEPT ![r].pc = "closing"]
           /\ UNCHANGED << file, pathOwner >>
  <2>1. runs' = [runs EXCEPT ![r] = closing]
    BY <1>5 DEF closing, Ready, RunsTyped
  <2>2. Live(file, runs[r].id) /\ Acked(file.jobs[runs[r].id])
    BY <1>1, <1>5, FencedJob DEF Acked
  <2>3. RunWell(file, closing, r)
    BY <1>3, <2>2, PlainRun
  <2>4. file' = file /\ UNCHANGED pathOwner
    BY <1>5
  <2>5. Works1(file, file', runs[r].id, real) /\ RunWell(file', closing, r)
    BY <2>3, <2>4, ReadyFacts
  <2> QED BY <2>1, <2>4, <2>5, MovesOn
<1>6. CASE /\ Converged(JobOf(r)) /\ JobOf(r).catalog \notin Retryable
           /\ file' = Put(file, runs[r].id, [JobOf(r) EXCEPT !.catalog = "requesting"])
           /\ runs' = [runs EXCEPT ![r].pc = "catalog"] /\ UNCHANGED pathOwner
  <2>1. runs' = [runs EXCEPT ![r] = catalog]
    BY <1>6 DEF catalog, Ready, RunsTyped
  <2>2. RunWell(file', catalog, r)
    BY <1>3, PlainRun
  <2>3. Works1(file, file', runs[r].id, real)
    BY <1>1, <1>6, FencedJob, RequestedWell
  <2> QED BY <1>6, <2>1, <2>2, <2>3, MovesOn
<1> QED BY <1>4, <1>5, <1>6 DEF RunRequests

LEMMA CatalogStep ==
    ASSUME NEW r \in Releases, NEW real, Ready(r, real), NEW ok \in BOOLEAN, CatalogAnswers(r, ok)
    PROVE  RunStep(r, real)
<1>1. runs[r].pc = "catalog"
  BY DEF CatalogAnswers
<1>2. CASE ~Fence(file, runs[r])
  BY <1>2, EndsStep, ReadyFacts DEF CatalogAnswers
<1>3. CASE Fence(file, runs[r]) /\ ok
  <2> DEFINE f == Put(file, runs[r].id, Refreshed([file.jobs[runs[r].id] EXCEPT !.catalog = "acknowledged"]))
             run == [runs[r] EXCEPT !.pc = "closing"]
  <2>1. file' = f /\ runs' = [runs EXCEPT ![r] = run] /\ UNCHANGED pathOwner
    BY <1>3 DEF CatalogAnswers, Ready, RunsTyped, JobOf
  <2>2. Works1(file, f, runs[r].id, real) /\ f.jobs[runs[r].id].catalog = "acknowledged"
    BY <1>3, FencedJob, AnsweredWell
  <2>3. runs[r] \in PlainRuns
    BY <1>1, ReadyFacts, RunFields DEF PlainPcs
  <2>4. run \in PlainRuns /\ run.id = runs[r].id
    BY <2>3 DEF PlainRuns, PlainPcs
  <2> HIDE DEF run, f
  <2>5. Live(f, runs[r].id) /\ Acked(f.jobs[runs[r].id])
    BY <1>3, <2>2, FencedJob DEF Acked, Works1, Keeps
  <2>6. RunWell(f, run, r)
    BY <2>4, <2>5, PlainRun
  <2> QED BY <2>1, <2>2, <2>6, MovesOn
<1>4. CASE Fence(file, runs[r]) /\ ~ok
  <2> DEFINE f == Put(file, runs[r].id, Refreshed([file.jobs[runs[r].id] EXCEPT !.catalog = "waiting"]))
  <2>1. Ends(r, f)
    BY <1>4 DEF CatalogAnswers, JobOf
  <2>2. Works1(file, f, runs[r].id, real)
    BY <1>4, FencedJob, AnsweredWell
  <2> HIDE DEF f
  <2> QED BY <2>1, <2>2, EndsStep
<1> QED BY <1>2, <1>3, <1>4

LEMMA CompletesStep ==
    ASSUME NEW r \in Releases, NEW real, Ready(r, real), RunCompletes(r)
    PROVE  RunStep(r, real)
<1>1. CASE ~Fence(file, runs[r]) \/ ~Converged(JobOf(r))
  BY <1>1, EndsStep, ReadyFacts DEF RunCompletes
<1>2. CASE Fence(file, runs[r]) /\ Converged(JobOf(r))
  <2>1. JobOf(r).catalog = "acknowledged"
    BY <1>2, FencedJob DEF RunCompletes, Ready, RunWell, Acked
  <2>2. /\ file' = Put(file, runs[r].id, [file.jobs[runs[r].id] EXCEPT !.state = "complete", !.lease = "none"])
        /\ pathOwner' = FALSE /\ runs' = [runs EXCEPT ![r] = NoRun]
    BY <1>2 DEF RunCompletes, JobOf
  <2>3. Works1(file, file', runs[r].id, real)
    BY <1>2, <2>1, <2>2, FencedJob, CompletedWell
  <2> QED BY <2>2, <2>3, Resting DEF RunStep
<1> QED BY <1>1, <1>2

LEMMA LostStep ==
    ASSUME NEW r \in Releases, NEW real, Ready(r, real), RunLost(r)
    PROVE  RunStep(r, real)
  BY EndsStep, ReadyFacts DEF RunLost

-----------------------------------------------------------------------------
(* Steps of the Controller: what they do to the file, and to every run *)

(* How the file moves from one release to the next. *)
Published(f, g) ==
    /\ g.desired > f.desired /\ g.desired \in Releases /\ g.active = NoActive /\ g.jobs = f.jobs
    /\ \A id \in JobIds : Live(f, id) => f.jobs[id].state \in Terminal
Gone(f, g) == f.desired # 0 /\ g.desired = 0 /\ g.active = NoActive /\ \A id \in JobIds : g.jobs[id] = NoJob
Course(f, g) == Keeps(f, g) \/ Grown(f, g) \/ Opened(f, g) \/ Published(f, g) \/ Gone(f, g)

(* What holds of the file and of all runs, before and after a step. *)
RunsWell == RunsTyped /\ \A r \in Releases : RunWell(file, runs[r], r)
ControlWell(real) == FileWell(file, real) /\ pathOwner \in BOOLEAN /\ RunsWell /\ fleet \in FleetSet
ControlStep(real) == FileWell(file', real) /\ Course(file, file') /\ pathOwner' \in BOOLEAN /\ RunsWell'

LEMMA RunsWellNext ==
    ASSUME RunsTyped', \A r \in Releases : RunWell(file', runs'[r], r)
    PROVE  RunsWell'
  BY DEF RunsWell

(* A step of one run, and a step of something else *)
LEMMA RunControls ==
    ASSUME NEW r \in Releases, NEW real, ControlWell(real), RunStep(r, real), Busy(r), SoftwareAssumption
    PROVE  ControlStep(real)
<1>1. runs[r].id \in JobIds /\ runs[r].id[1] = r
  BY ReadyFacts DEF Ready, ControlWell, RunsWell
<1>2. PICK run : RunWell(file', run, r) /\ runs' = [runs EXCEPT ![r] = run]
  BY DEF RunStep
<1>3. RunsTyped'
  BY <1>2 DEF RunsTyped, RunWell, ControlWell, RunsWell
<1>4. ASSUME NEW x \in Releases
      PROVE  RunWell(file', runs'[x], x)
  <2>1. CASE x = r
    BY <1>2, <2>1 DEF RunsTyped, ControlWell, RunsWell
  <2>2. CASE x # r
    <3>1. runs'[x] = runs[x] /\ RunWell(file, runs[x], x)
      BY <1>2, <2>2 DEF RunsTyped, ControlWell, RunsWell
    <3>2. OnlyAt(file, file', runs[r].id)
      BY DEF RunStep, Works1
    <3> QED BY <1>1, <2>2, <3>1, <3>2, RunElsewhere
  <2> QED BY <2>1, <2>2
<1>5. RunsWell'
  BY <1>3, <1>4, RunsWellNext
<1> QED BY <1>5 DEF ControlStep, RunStep, Works1, Course

LEMMA OthersControl ==
    ASSUME NEW real, ControlWell(real), FileWell(file', real), Course(file, file'), Calm(file, file'),
           pathOwner' \in BOOLEAN,
           RunsTyped', \A r \in Releases : runs'[r] = runs[r] \/ RunWell(file', runs'[r], r)
    PROVE  ControlStep(real)
<1>1. ASSUME NEW r \in Releases
      PROVE  RunWell(file', runs'[r], r)
  <2>1. RunWell(file, runs[r], r)
    BY DEF ControlWell, RunsWell
  <2>2. RunWell(file', runs[r], r)
    BY <2>1, RunCalm
  <2> QED BY <2>2
<1>2. RunsWell'
  BY <1>1, RunsWellNext
<1> QED BY <1>2 DEF ControlStep

LEMMA ScheduledRuns ==
    ASSUME RunsTyped, NEW r, runs' = Scheduled(r)
    PROVE  /\ RunsTyped'
           /\ \A f : \A x \in Releases : runs'[x] = runs[x] \/ RunWell(f, runs'[x], x)
<1> DEFINE run == [pc |-> "scheduled"]
<1>1. runs' = runs \/ runs' = [runs EXCEPT ![r] = run]
  BY DEF Scheduled
<1>2. run \in RunSet /\ \A f, x : RunWell(f, run, x)
  BY RunFields, Resting
<1> HIDE DEF run
<1>3. RunsTyped'
  BY <1>1, <1>2 DEF RunsTyped
<1>4. \A x \in Releases : runs'[x] = runs[x] \/ runs'[x] = run
  BY <1>1 DEF RunsTyped
<1> QED BY <1>2, <1>3, <1>4

(* The file moves, and no run but a scheduled one is added. *)
LEMMA QuietControls ==
    ASSUME NEW real, ControlWell(real), FileWell(file', real), Moves(file, file'), pathOwner' \in BOOLEAN,
           UNCHANGED runs \/ \E r : runs' = Scheduled(r)
    PROVE  ControlStep(real)
<1>1. Course(file, file') /\ Calm(file, file') /\ RunsTyped
  BY DEF Moves, Course, ControlWell, RunsWell
<1>2. CASE UNCHANGED runs
  <2>1. RunsTyped'
    BY <1>1, <1>2 DEF RunsTyped
  <2> QED BY <1>1, <1>2, <2>1, OthersControl
<1>3. CASE \E r : runs' = Scheduled(r)
  <2>1. RunsTyped' /\ \A x \in Releases : runs'[x] = runs[x] \/ RunWell(file', runs'[x], x)
    BY <1>1, <1>3, ScheduledRuns
  <2> QED BY <1>1, <2>1, OthersControl
<1> QED BY <1>2, <1>3

(* A scheduled run starts. *)
LEMMA StartsControl ==
    ASSUME SoftwareAssumption, NEW r \in Releases, NEW real, ControlWell(real), RunStarts(r)
    PROVE  ControlStep(real)
<1> DEFINE f == Reconciled(file, fleet)
           g == IF Current(f).lease = "mine" THEN f ELSE Adopted(f)
           run == [pc |-> "begin", id |-> f.active, gen |-> Current(g).gen, left |-> {}, at |-> Local]
<1>1. FileWell(file, real) /\ RunsTyped /\ pathOwner \in BOOLEAN
  BY DEF ControlWell, RunsWell
<1>2. FileWell(f, real) /\ Moves(file, f) /\ f.desired = file.desired
  BY <1>1, ReconciledWell DEF Moves, Keeps, Grown
<1>3. CASE file' \in {file, f} /\ runs' = [runs EXCEPT ![r] = NoRun] /\ UNCHANGED pathOwner
  <2>1. FileWell(file', real) /\ Moves(file, file')
    BY <1>1, <1>2, <1>3, TendedSame, TendedMoves
  <2>2. RunsTyped' /\ \A x \in Releases : runs'[x] = runs[x] \/ runs'[x] = NoRun
    BY <1>1, <1>3, RunFields DEF RunsTyped
  <2>3. \A x \in Releases : runs'[x] = runs[x] \/ RunWell(file', runs'[x], x)
    BY <2>2, Resting
  <2>4. Course(file, file') /\ Calm(file, file')
    BY <2>1 DEF Moves, Course
  <2> QED BY <1>1, <1>3, <2>1, <2>2, <2>3, <2>4, OthersControl
<1>4. CASE /\ file.desired = r /\ f.active # NoActive /\ Open(f)
           /\ file' = g /\ pathOwner' = (pathOwner \/ Current(f).lease # "mine")
           /\ runs' = [runs EXCEPT ![r] = run]
  <2>1. f.active \in JobIds /\ f.active[1] = r
    BY <1>2, <1>4, FileFields
  <2>2. FileWell(g, real) /\ Moves(file, g) /\ Current(g).gen \in Nat
    <3>1. CASE g = f
      BY <1>2, <1>4, <3>1, ActiveFacts
    <3>2. CASE g = Adopted(f)
      <4>1. FileWell(Adopted(f), real) /\ Tended(f, Adopted(f)) /\ Current(Adopted(f)).gen \in Nat
        BY <1>2, <1>4, AdoptedWell
      <4>2. Moves(file, Adopted(f))
        BY <1>1, <1>2, <4>1, MovesThenTended
      <4> QED BY <3>2, <4>1, <4>2
    <3> QED BY <3>1, <3>2
  <2> HIDE DEF f, g
  <2>3. run \in PlainRuns /\ run.pc = "begin" /\ run.id[1] = r
    BY <2>1, <2>2, SoftwareAssumption DEF PlainRuns, PlainPcs, SoftwareAssumption
  <2> HIDE DEF run
  <2>4. RunWell(file', run, r)
    BY <2>3, RunFields DEF RunWell
  <2>5. RunsTyped' /\ \A x \in Releases : runs'[x] = runs[x] \/ (x = r /\ runs'[x] = run)
    BY <1>1, <1>4, <2>3, RunFields DEF RunsTyped
  <2>6. pathOwner' \in BOOLEAN
    BY <1>4, Zenon
  <2>7. Course(file, file') /\ Calm(file, file') /\ FileWell(file', real)
    BY <1>4, <2>2 DEF Moves, Course
  <2> QED BY <2>4, <2>5, <2>6, <2>7, OthersControl
<1> QED BY <1>3, <1>4 DEF RunStarts

-----------------------------------------------------------------------------
(* Every step of a run *)

(* What holds of all that the Controller keeps, and what its steps do. *)
PostSet == [op : Ops, run : Releases]
Around == /\ posts \subseteq PostSet /\ wakes \subseteq {"peer", "fleet"} /\ fleet \in FleetSet
ControllerWell == ControlWell(Real) /\ SoftwareTypes /\ Around
ControllerNext == ControlStep(Real') /\ SoftwareTypes' /\ Rises /\ Around'

LEMMA SoftwareSame ==
    ASSUME SoftwareAssumption, SoftwareTypes, UNCHANGED softwareVars
    PROVE  SoftwareTypes' /\ Rises
<1>1. /\ UNCHANGED << loaded, fits, undone >> /\ trial' \in [Macs -> Releases \cup {0, NoTrial}]
      /\ managed' \in [Macs -> Ops \cup {NoOp}] /\ verdict' \in [Ops -> Verdicts]
  BY DEF softwareVars, SoftwareTypes
<1> QED BY <1>1, SoftwareKept

LEMMA RaisedStep ==
    ASSUME SoftwareAssumption, SoftwareTypes, ControlStep(Real), SoftwareTypes', Rises
    PROVE  ControlStep(Real')
<1>1. FileWell(file', Real')
  BY RealTyped, RealTypedNext, HigherWell DEF Rises, ControlStep
<1> QED BY <1>1 DEF ControlStep

LEMMA Unmoved ==
    ASSUME SoftwareAssumption, ControllerWell, ControlStep(Real), UNCHANGED softwareVars, Around'
    PROVE  ControllerNext
  BY SoftwareSame, RaisedStep DEF ControllerWell, ControllerNext

LEMMA RunUnmoved ==
    ASSUME SoftwareAssumption, ControllerWell, NEW r \in Releases, Busy(r), RunStep(r, Real),
           UNCHANGED softwareVars, Around'
    PROVE  ControllerNext
<1>1. ControlStep(Real)
  BY RunControls DEF ControllerWell
<1> QED BY <1>1, Unmoved

LEMMA ReadyRun ==
    ASSUME SoftwareAssumption, ControllerWell, NEW r \in Releases, Busy(r)
    PROVE  Ready(r, Real)
  BY DEF ControllerWell, ControlWell, RunsWell, Ready

LEMMA AroundSame ==
    ASSUME ControllerWell, UNCHANGED << posts, wakes, fleet >>
    PROVE  Around'
  BY DEF ControllerWell, Around

LEMMA PostAdded ==
    ASSUME ControllerWell, NEW op \in Ops, NEW r \in Releases, posts' = posts \cup {[op |-> op, run |-> r]},
           UNCHANGED << wakes, fleet >>
    PROVE  Around'
<1>1. [op |-> op, run |-> r] \in PostSet
  BY DEF PostSet
<1> QED BY <1>1 DEF ControllerWell, Around

(* Every action of a run, one step each *)
LEMMA RunNext ==
    ASSUME SoftwareAssumption, ControllerWell, \A op \in Ops : ChildWell(op), NEW r \in Releases, Run(r)
    PROVE  ControllerNext
<1> USE DEF Busy
<1>1. CASE RunStarts(r)
  <2>1. ControlStep(Real)
    BY <1>1, StartsControl DEF ControllerWell
  <2> QED BY <1>1, <2>1, Unmoved, AroundSame DEF RunStarts
<1>2. CASE RunBegins(r)
  <2>1. Busy(r)
    BY <1>2 DEF RunBegins
  <2> QED BY <1>2, <2>1, ReadyRun, BeginsStep, RunUnmoved, AroundSame DEF RunBegins
<1>3. ASSUME NEW m \in Macs, NEW why \in {"disabled", "offline", "settled"},
             PassOver(r, m, why) PROVE ControllerNext
  <2>1. Busy(r)
    BY <1>3 DEF PassOver, To, Turn
  <2>2. RunStep(r, Real)
    BY <1>3, <2>1, ReadyRun, PassOverStep
  <2> QED BY <1>3, <2>1, <2>2, RunUnmoved, AroundSame DEF PassOver
<1>4. ASSUME NEW m \in Macs, RunPosts(r, m) PROVE ControllerNext
  <2>1. Busy(r)
    BY <1>4 DEF RunPosts, To, Turn
  <2>2. RunStep(r, Real) /\ Operation(r, m) \in Ops /\ posts' = posts \cup {[op |-> Operation(r, m), run |-> r]}
    BY <1>4, <2>1, ReadyRun, PostsStep
  <2>3. UNCHANGED << wakes, fleet, softwareVars >>
    BY <1>4 DEF RunPosts
  <2>4. Around'
    BY <2>2, <2>3, PostAdded
  <2> QED BY <2>1, <2>2, <2>3, <2>4, RunUnmoved
<1>5. CASE RunReposts(r)
  <2>1. Busy(r)
    BY <1>5 DEF RunReposts
  <2>2. RunStep(r, Real) /\ runs[r].op \in Ops /\ posts' = posts \cup {[op |-> runs[r].op, run |-> r]}
    BY <1>5, <2>1, ReadyRun, RepostsStep
  <2>3. UNCHANGED << wakes, fleet, softwareVars >>
    BY <1>5 DEF RunReposts
  <2>4. Around'
    BY <2>2, <2>3, PostAdded
  <2> QED BY <2>1, <2>2, <2>3, <2>4, RunUnmoved
<1>6. CASE RunAdmitted(r)
  <2>1. Busy(r)
    BY <1>6 DEF RunAdmitted
  <2> QED BY <1>6, <2>1, ReadyRun, AdmittedStep, RunUnmoved, AroundSame DEF RunAdmitted
<1>7. CASE RunGivesUp(r)
  <2>1. Busy(r)
    BY <1>7 DEF RunGivesUp
  <2> QED BY <1>7, <2>1, ReadyRun, GivesUpStep, RunUnmoved, AroundSame DEF RunGivesUp
<1>8. CASE RunPolls(r)
  <2>1. Busy(r) /\ runs[r].pc = "polling"
    BY <1>8 DEF RunPolls
  <2>2. Ready(r, Real)
    BY <2>1, ReadyRun
  <2>3. ChildWell(runs[r].op)
    BY <2>1, <2>2, WaitingRun
  <2>4. RunStep(r, Real)
    BY <1>8, <2>2, <2>3, PollsStep
  <2>5. UNCHANGED << posts, wakes, fleet, softwareVars >>
    BY <1>8 DEF RunPolls, RunRecords
  <2> QED BY <2>1, <2>4, <2>5, RunUnmoved, AroundSame
<1>9. CASE RunFits(r)
  <2>1. Busy(r)
    BY <1>9 DEF RunFits, To, Turn
  <2> QED BY <1>9, <2>1, ReadyRun, FitsStep, RunUnmoved, AroundSame DEF RunFits
<1>10. ASSUME NEW answer \in {"restarting", "failed", "clean"}, RunSettlesHub(r, answer) PROVE ControllerNext
  <2>1. Busy(r) /\ UNCHANGED << posts, wakes, fleet >>
    BY <1>10 DEF RunSettlesHub, To, Turn
  <2>2. RunStep(r, Real) /\ SoftwareTypes' /\ Rises
    BY <1>10, <2>1, ReadyRun, SettlesHubStep DEF ControllerWell
  <2>3. ControlStep(Real)
    BY <2>1, <2>2, RunControls DEF ControllerWell
  <2> QED BY <2>1, <2>2, <2>3, RaisedStep, AroundSame DEF ControllerNext, ControllerWell
<1>11. ASSUME NEW answer \in {"restarting", "failed", "clean"}, NEW outcome,
              RunFitted(r, outcome, answer) PROVE ControllerNext
  <2>1. Busy(r) /\ UNCHANGED << posts, wakes, fleet >>
    BY <1>11 DEF RunFitted
  <2>2. RunStep(r, Real') /\ SoftwareTypes' /\ Rises
    BY <1>11, <2>1, ReadyRun, FittedStep DEF ControllerWell
  <2>3. ControlWell(Real')
    <3>1. FileWell(file, Real')
      BY <2>2, RealTyped, RealTypedNext, HigherWell DEF Rises, ControllerWell, ControlWell
    <3> QED BY <3>1 DEF ControllerWell, ControlWell
  <2>4. ControlStep(Real')
    BY <2>1, <2>2, <2>3, RunControls
  <2> QED BY <2>1, <2>2, <2>4, AroundSame DEF ControllerNext
<1>12. CASE RunRequests(r)
  <2>1. Busy(r)
    BY <1>12 DEF RunRequests, RunOver
  <2> QED BY <1>12, <2>1, ReadyRun, RequestsStep, RunUnmoved, AroundSame DEF RunRequests
<1>13. ASSUME NEW ok \in BOOLEAN, CatalogAnswers(r, ok) PROVE ControllerNext
  <2>1. Busy(r)
    BY <1>13 DEF CatalogAnswers
  <2>2. RunStep(r, Real)
    BY <1>13, <2>1, ReadyRun, CatalogStep
  <2> QED BY <1>13, <2>1, <2>2, RunUnmoved, AroundSame DEF CatalogAnswers
<1>14. CASE RunCompletes(r)
  <2>1. Busy(r)
    BY <1>14 DEF RunCompletes
  <2> QED BY <1>14, <2>1, ReadyRun, CompletesStep, RunUnmoved, AroundSame DEF RunCompletes
<1>15. CASE RunLost(r)
  <2>1. Busy(r)
    BY <1>15 DEF RunLost
  <2> QED BY <1>15, <2>1, ReadyRun, LostStep, RunUnmoved, AroundSame DEF RunLost
<1> QED BY <1>1, <1>2, <1>3, <1>4, <1>5, <1>6, <1>7, <1>8, <1>9, <1>10, <1>11, <1>12, <1>13, <1>14,
           <1>15 DEF Run

-----------------------------------------------------------------------------
(* Every other step of the Controller *)

(* What starts a run besides a run *)
LEMMA QuietNext ==
    ASSUME SoftwareAssumption, ControllerWell, FileWell(file', Real), Moves(file, file'),
           pathOwner' \in BOOLEAN,
           UNCHANGED runs \/ \E r : runs' = Scheduled(r), UNCHANGED softwareVars, Around'
    PROVE  ControllerNext
<1>1. ControlStep(Real)
  BY QuietControls DEF ControllerWell
<1> QED BY <1>1, Unmoved

LEMMA WellFile ==
    ASSUME ControllerWell
    PROVE  FileWell(file, Real) /\ pathOwner \in BOOLEAN /\ posts \subseteq PostSet
           /\ wakes \subseteq {"peer", "fleet"}
           /\ fleet \in FleetSet /\ RunsTyped /\ \A r \in Releases : RunWell(file, runs[r], r)
  BY DEF ControllerWell, ControlWell, RunsWell, Around

LEMMA AdoptsWell ==
    ASSUME SoftwareAssumption, NEW f, NEW real, FileWell(f, real), NEW from, FileWell(from, real),
           Moves(from, f),
           NEW owned, Adoptable(f, owned)
    PROVE  FileWell(Adopted(f), real) /\ Moves(from, Adopted(f))
<1>1. Open(f)
  BY DEF Adoptable
<1>2. FileWell(Adopted(f), real) /\ Tended(f, Adopted(f))
  BY <1>1, AdoptedWell
<1> QED BY <1>2, MovesThenTended

LEMMA ScanNext ==
    ASSUME SoftwareAssumption, ControllerWell, DueScan
    PROVE  ControllerNext
<1> DEFINE f == Reconciled(file, fleet)
           g == ResumedDue(f)
<1>1. FileWell(f, Real) /\ Moves(file, f)
  BY WellFile, ReconciledWell
<1>2. FileWell(g, Real) /\ Tended(f, g)
  BY <1>1, ResumedWell
<1>3. Moves(file, g)
  BY <1>1, <1>2, WellFile, MovesThenTended
<1>4. UNCHANGED << posts, wakes, fleet, softwareVars >>
  BY DEF DueScan
<1>5. CASE Adoptable(g, pathOwner) /\ Adopts(g)
  <2>1. FileWell(Adopted(g), Real) /\ Moves(file, Adopted(g))
    BY <1>2, <1>3, <1>5, WellFile, AdoptsWell
  <2>2. file' = Adopted(g) /\ pathOwner' \in BOOLEAN /\ \E r : runs' = Scheduled(r)
    BY <1>5 DEF Adopts
  <2> HIDE DEF g
  <2> QED BY <1>4, <2>1, <2>2, QuietNext, AroundSame
<1>6. CASE file' = g /\ UNCHANGED << pathOwner, runs >>
  <2> HIDE DEF g
  <2> QED BY <1>2, <1>3, <1>4, <1>6, WellFile, QuietNext, AroundSame
<1> QED BY <1>5, <1>6 DEF DueScan

LEMMA PeerBackNext ==
    ASSUME SoftwareAssumption, ControllerWell, NEW m \in Macs, PeerBack(m)
    PROVE  ControllerNext
<1> DEFINE f == Reconciled(file, fleet)
<1>1. FileWell(f, Real) /\ Moves(file, f)
  BY WellFile, ReconciledWell
<1>2. FileWell(Noted(f, m), Real) /\ Moves(file, Noted(f, m))
  BY <1>1, WellFile, NotedWell, MovesThenTended
<1>3. /\ file' = Noted(f, m) /\ UNCHANGED << pathOwner, runs, softwareVars >>
      /\ wakes' = wakes \cup {"peer"} /\ UNCHANGED << posts, fleet >>
  BY DEF PeerBack
<1>4. Around'
  BY <1>3 DEF ControllerWell, Around
<1> HIDE DEF f
<1> QED BY <1>2, <1>3, <1>4, WellFile, QuietNext

LEMMA PeerWakesNext ==
    ASSUME SoftwareAssumption, ControllerWell, PeerWakes
    PROVE  ControllerNext
<1> DEFINE g == ResumedDue(file)
<1>1. FileWell(g, Real) /\ Moves(file, g)
  BY WellFile, ResumedWell, TendedMoves
<1>2. Around' /\ UNCHANGED softwareVars
  BY WellFile DEF PeerWakes, Around
<1>3. CASE Adoptable(g, pathOwner) /\ Adopts(g)
  <2>1. FileWell(Adopted(g), Real) /\ Moves(file, Adopted(g))
    BY <1>1, <1>3, WellFile, AdoptsWell
  <2>2. file' = Adopted(g) /\ pathOwner' \in BOOLEAN /\ \E r : runs' = Scheduled(r)
    BY <1>3 DEF Adopts
  <2> HIDE DEF g
  <2> QED BY <1>2, <2>1, <2>2, QuietNext
<1>4. CASE file' = g /\ UNCHANGED << pathOwner, runs >>
  <2> HIDE DEF g
  <2> QED BY <1>1, <1>2, <1>4, WellFile, QuietNext
<1> QED BY <1>3, <1>4 DEF PeerWakes

LEMMA WokenNext ==
    ASSUME SoftwareAssumption, ControllerWell, RegistryWoken, UNCHANGED << pathOwner, posts, softwareVars >>,
           fleet' \in FleetSet
    PROVE  ControllerNext
<1> DEFINE now == fleet'
<1>1. Around'
  BY WellFile DEF RegistryWoken, Around
<1>2. CASE file' = Reconciled(file, now) /\ runs' = Scheduled(file.active[1])
  <2> HIDE DEF now
  <2>1. FileWell(Reconciled(file, now), Real) /\ Moves(file, Reconciled(file, now))
    BY WellFile, ReconciledWell
  <2> QED BY <1>1, <1>2, <2>1, WellFile, QuietNext
<1>3. CASE UNCHANGED << file, runs >>
  <2>1. Moves(file, file)
    BY TendedSame, TendedMoves
  <2> QED BY <1>1, <1>3, <2>1, WellFile, QuietNext
<1> QED BY <1>2, <1>3 DEF RegistryWoken

LEMMA FleetWakesNext ==
    ASSUME SoftwareAssumption, ControllerWell, FleetWakes
    PROVE  ControllerNext
<1>1. Around' /\ UNCHANGED softwareVars
  BY WellFile DEF FleetWakes, Around
<1>2. CASE /\ Adoptable(file, pathOwner)
           /\ file' = Put(file, file.active, [Current(Adopted(file)) EXCEPT !.lease = "none"])
           /\ pathOwner' = FALSE /\ UNCHANGED runs
  <2> DEFINE f == Adopted(file)
  <2>1. Open(file) /\ file.active # NoActive
    BY <1>2 DEF Adoptable, Open
  <2>2. FileWell(f, Real) /\ Moves(file, f) /\ Tended(file, f)
    BY <2>1, WellFile, AdoptedWell, TendedMoves
  <2>3. f.active = file.active /\ \A job : Put(file, file.active, job) = Put(f, f.active, job)
    <3>1. file \in FileSet /\ file.active \in JobIds
      BY <2>1, WellFile, FileFields
    <3> QED BY <3>1 DEF Adopted, Put, FileSet
  <2> HIDE DEF f
  <2>4. file' = Put(f, f.active, [Current(f) EXCEPT !.lease = "none"])
    BY <1>2, <2>3 DEF f
  <2>5. FileWell(file', Real) /\ Tended(f, file')
    BY <2>1, <2>2, <2>3, <2>4, LeaseWell DEF Leases
  <2>6. Moves(file, file')
    BY <2>2, <2>5, WellFile, MovesThenTended
  <2> QED BY <1>1, <1>2, <2>5, <2>6, QuietNext
<1>3. CASE Adoptable(Reconciled(file, fleet), pathOwner) /\ Adopts(Reconciled(file, fleet))
  <2> DEFINE f == Reconciled(file, fleet)
  <2>1. FileWell(f, Real) /\ Moves(file, f)
    BY WellFile, ReconciledWell
  <2>2. FileWell(Adopted(f), Real) /\ Moves(file, Adopted(f))
    BY <1>3, <2>1, WellFile, AdoptsWell
  <2>3. file' = Adopted(f) /\ pathOwner' \in BOOLEAN /\ \E r : runs' = Scheduled(r)
    BY <1>3 DEF Adopts
  <2> HIDE DEF f
  <2> QED BY <1>1, <2>2, <2>3, QuietNext
<1>4. CASE file' = Reconciled(file, fleet) /\ UNCHANGED << pathOwner, runs >>
  <2>1. FileWell(Reconciled(file, fleet), Real) /\ Moves(file, Reconciled(file, fleet))
    BY WellFile, ReconciledWell
  <2> QED BY <1>1, <1>4, <2>1, WellFile, QuietNext
<1> QED BY <1>2, <1>3, <1>4 DEF FleetWakes

LEMMA TimeNext ==
    ASSUME SoftwareAssumption, ControllerWell,
           \/ \E m \in Macs, c \in Components : RowDue(m, c)
           \/ CatalogDue \/ LeaseEnds("foreign", "dead") \/ LeaseEnds("mine", "lapsed")
    PROVE  ControllerNext
<1>1. UNCHANGED << pathOwner, runs, posts, wakes, fleet, softwareVars >>
  BY DEF RowDue, CatalogDue, LeaseEnds
<1>2. FileWell(file', Real) /\ Tended(file, file')
  <2>1. ASSUME NEW m \in Macs, NEW c \in Components, RowDue(m, c)
        PROVE  FileWell(file', Real) /\ Tended(file, file')
    BY <2>1, WellFile, RowDueWell DEF RowDue
  <2>2. CASE CatalogDue
    BY <2>2, WellFile, CatalogDueWell DEF CatalogDue
  <2>3. ASSUME NEW from \in {"foreign", "mine"}, NEW to \in Leases, LeaseEnds(from, to)
        PROVE  FileWell(file', Real) /\ Tended(file, file')
    <3>1. file.active # NoActive /\ Current(file).lease # "none"
      BY <2>3 DEF LeaseEnds
    <3>2. file' = Put(file, file.active, [Current(file) EXCEPT !.lease = to])
      BY <2>3 DEF LeaseEnds
    <3> QED BY <3>1, <3>2, WellFile, LeaseWell
  <2> QED BY <2>1, <2>2, <2>3 DEF Leases
<1> QED BY <1>1, <1>2, WellFile, TendedMoves, QuietNext, AroundSame

LEMMA GenStudioNext ==
    ASSUME SoftwareAssumption, ControllerWell, NEW r \in Releases, GenStudio(r)
    PROVE  ControllerNext
<1>1. CASE Publish(r)
  <2> DEFINE g == Replaced(file, r)
  <2>1. FileWell(g, Real) /\ g.desired = r /\ g.active = NoActive /\ g.jobs = file.jobs /\ r > file.desired
        /\ \A x \in JobIds : Live(file, x) => file.jobs[x].state \in Terminal
    BY <1>1, WellFile, ReplacedWell DEF Publish
  <2>2. file' = g /\ UNCHANGED << pathOwner, runs, posts, wakes, fleet, softwareVars >>
    BY <1>1 DEF Publish
  <2> HIDE DEF g
  <2>3. Course(file, file') /\ Calm(file, file')
    BY <2>1, <2>2 DEF Course, Published, Calm, Live
  <2>4. ControlStep(Real)
    BY <2>1, <2>2, <2>3, WellFile, OthersControl DEF RunsTyped, ControllerWell
  <2> QED BY <2>2, <2>4, Unmoved, AroundSame
<1>2. CASE Activate(r)
  <2> DEFINE g == Activated(file, r)
  <2>1. FileWell(g, Real) /\ Calm(file, g) /\ (Tended(file, g) \/ Opened(file, g))
    BY <1>2, WellFile, ActivatedWell DEF Activate
  <2>2. file' = g /\ runs' = Scheduled(r) /\ UNCHANGED << pathOwner, posts, wakes, fleet, softwareVars >>
    BY <1>2 DEF Activate
  <2> HIDE DEF g
  <2>3. Course(file, file') /\ Calm(file, file')
    BY <2>1, <2>2 DEF Course, Tended
  <2>4. RunsTyped' /\ \A x \in Releases : runs'[x] = runs[x] \/ RunWell(file', runs'[x], x)
    BY <2>2, WellFile, ScheduledRuns
  <2>5. ControlStep(Real)
    BY <2>1, <2>2, <2>3, <2>4, WellFile, OthersControl DEF ControllerWell
  <2> QED BY <2>2, <2>5, Unmoved, AroundSame
<1> QED BY <1>1, <1>2 DEF GenStudio

LEMMA WithdrawNext ==
    ASSUME SoftwareAssumption, ControllerWell, Withdraw
    PROVE  ControllerNext
<1> DEFINE g == Withdrawn(file)
<1>1. /\ FileWell(g, Real) /\ g.desired = 0 /\ g.active = NoActive
      /\ \A x \in JobIds : ~Live(g, x) /\ g.jobs[x] = NoJob
  BY WithdrawnWell
<1>2. file' = g /\ file.desired # 0 /\ UNCHANGED << pathOwner, runs, posts, wakes, fleet, softwareVars >>
  BY DEF Withdraw
<1> HIDE DEF g
<1>3. Course(file, file') /\ Calm(file, file')
  BY <1>1, <1>2 DEF Course, Gone, Calm
<1>4. ControlStep(Real)
  BY <1>1, <1>2, <1>3, WellFile, OthersControl DEF RunsTyped, ControllerWell
<1> QED BY <1>2, <1>4, Unmoved, AroundSame

(* A restart of the Controller's Hub, on the software it then runs *)
LEMMA RestartNext ==
    ASSUME SoftwareAssumption, ControllerWell, NEW graceful \in BOOLEAN, NEW alike \in BOOLEAN,
           ControllerStarts(graceful, alike), SoftwareTypes', Rises
    PROVE  ControllerNext
<1> DEFINE l == Leavings(file, graceful, alike)
           f == Reconciled(l, fleet)
           up == Adoptable(f, FALSE)
<1>1. FileWell(l, Real) /\ Tended(file, l)
  BY WellFile, LeavingsWell
<1>2. FileWell(f, Real) /\ Moves(l, f)
  BY <1>1, ReconciledWell
<1>3. Moves(file, f)
  BY <1>1, <1>2, WellFile, TendedThenMoves
<1>4. /\ file' = (IF up THEN Adopted(f) ELSE f) /\ pathOwner' = up
      /\ runs' = [r \in Releases |-> IF up /\ r = f.active[1] THEN [pc |-> "scheduled"] ELSE NoRun]
      /\ wakes' = {} /\ UNCHANGED << posts, fleet >>
  BY DEF ControllerStarts
<1>5. FileWell(file', Real) /\ Moves(file, file')
  <2>1. CASE up
    <3>1. FileWell(Adopted(f), Real) /\ Moves(file, Adopted(f))
      BY <1>2, <1>3, <2>1, WellFile, AdoptsWell
    <3> QED BY <1>4, <2>1, <3>1
  <2>2. CASE ~up
    BY <1>2, <1>3, <1>4, <2>2
  <2> QED BY <2>1, <2>2
<1>6. pathOwner' \in BOOLEAN
  BY <1>4 DEF Adoptable
<1> HIDE DEF f, l, up
<1>7. RunsTyped' /\ \A r \in Releases : runs'[r] = NoRun \/ runs'[r] = [pc |-> "scheduled"]
  BY <1>4, RunFields DEF RunsTyped
<1>8. ControlStep(Real)
  BY <1>5, <1>6, <1>7, Resting, OthersControl DEF Moves, Course, ControllerWell
<1>9. Around'
  BY <1>4, WellFile DEF Around
<1> QED BY <1>8, <1>9, RaisedStep DEF ControllerNext, ControllerWell

-----------------------------------------------------------------------------
(* What holds of the Agents *)

(* The Agents' files and tasks *)
AgentsGood(kids, hands, real) ==
    /\ kids \in [Ops -> ChildSet \cup {NoChild}] /\ hands \in [Agents -> TaskSet]
    /\ \A op \in Ops : kids[op] # NoChild => ChildGood(kids[op], MacOf(op), ReleaseOf(op), real)
    /\ \A m \in Agents : hands[m].pc # "none" => MacOf(hands[m].op) = m /\ kids[hands[m].op] # NoChild
AgentsWell == AgentsGood(children, tasks, Real)

(* A child is known from its fields, and stays true as software rises. *)
LEMMA ChildFields ==
    /\ NoChild \notin ChildSet
    /\ \A child \in ChildSet : /\ child.state \in ChildStates /\ child.lease \in Leases
                               /\ child.rows \in [Components -> ChildRows]
                               /\ \A c \in Components : child.rows[c] \in ChildRows
    /\ \A task \in TaskSet : task.pc # "none" => task.op \in Ops /\ task.pc \in {"claim", "fitting"}
    /\ NoTask \in TaskSet /\ NoTask.pc = "none"
    /\ \A op \in Ops, pc \in {"claim", "fitting"} : [pc |-> pc, op |-> op] \in TaskSet
<1>1. \A child \in ChildSet : /\ child.state \in ChildStates /\ child.lease \in Leases
                              /\ child.rows \in [Components -> ChildRows]
  BY DEF ChildSet
<1>2. NoChild.state \notin ChildStates
  BY DEF NoChild, ChildStates, Terminal
<1>3. \A task \in TaskSet : task.pc # "none" => task.op \in Ops /\ task.pc \in {"claim", "fitting"}
  BY DEF TaskSet, NoTask
<1>4. NoTask \in TaskSet /\ NoTask.pc = "none" /\ \A op \in Ops, pc \in {"claim", "fitting"} : [pc |-> pc,
          op |-> op] \in TaskSet
  BY DEF TaskSet, NoTask
<1> QED BY <1>1, <1>2, <1>3, <1>4

LEMMA GoodHigher ==
    ASSUME SoftwareAssumption, NEW kids, NEW hands, NEW old \in RealSet, NEW new \in RealSet, Above(new, old),
           AgentsGood(kids, hands, old)
    PROVE  AgentsGood(kids, hands, new)
<1>1. ASSUME NEW op \in Ops, kids[op] # NoChild, NEW c \in Components, kids[op].rows[c] = "current"
      PROVE  new[MacOf(op)][c] >= ReleaseOf(op)
  <2>1. MacOf(op) \in Macs /\ ReleaseOf(op) \in Nat
    BY OpFacts DEF SoftwareAssumption
  <2>2. old[MacOf(op)][c] \in Nat /\ new[MacOf(op)][c] \in Nat
    BY <2>1 DEF RealSet
  <2>3. old[MacOf(op)][c] >= ReleaseOf(op)
    BY <1>1 DEF AgentsGood, ChildGood
  <2>4. new[MacOf(op)][c] >= old[MacOf(op)][c]
    BY <2>1 DEF Above
  <2> QED BY <2>1, <2>2, <2>3, <2>4
<1> QED BY <1>1 DEF AgentsGood, ChildGood

(* One child, or one task, changes. *)
LEMMA KidChanged ==
    ASSUME NEW kids, NEW hands, NEW real, AgentsGood(kids, hands, real), NEW op \in Ops,
           NEW child, ChildGood(child, MacOf(op), ReleaseOf(op), real)
    PROVE  AgentsGood([kids EXCEPT ![op] = child], hands, real)
<1>1. child \in ChildSet /\ child # NoChild
  BY ChildFields DEF ChildGood, ChildIsValid
<1> DEFINE next == [kids EXCEPT ![op] = child]
<1>2. next \in [Ops -> ChildSet \cup {NoChild}] /\ \A x \in Ops : next[x] = IF x = op THEN child ELSE kids[x]
  BY <1>1 DEF AgentsGood
<1> HIDE DEF next
<1>3. \A m \in Agents : hands[m].pc # "none" => hands[m].op \in Ops
  BY ChildFields DEF AgentsGood
<1>4. AgentsGood(next, hands, real)
  BY <1>1, <1>2, <1>3 DEF AgentsGood
<1> QED BY <1>4 DEF next

LEMMA HandChanged ==
    ASSUME NEW kids, NEW hands, NEW real, AgentsGood(kids, hands, real), NEW m, NEW task \in TaskSet,
           task.pc # "none" => MacOf(task.op) = m /\ kids[task.op] # NoChild
    PROVE  AgentsGood(kids, [hands EXCEPT ![m] = task], real)
<1> DEFINE next == [hands EXCEPT ![m] = task]
<1>1. next \in [Agents -> TaskSet] /\ \A x \in Agents : next[x] = IF x = m THEN task ELSE hands[x]
  BY DEF AgentsGood
<1> HIDE DEF next
<1>2. AgentsGood(kids, next, real)
  BY <1>1 DEF AgentsGood
<1> QED BY <1>2 DEF next

LEMMA HandDropped ==
    ASSUME NEW kids, NEW hands, NEW real, AgentsGood(kids, hands, real), NEW m
    PROVE  AgentsGood(kids, [hands EXCEPT ![m] = NoTask], real)
  BY HandChanged, ChildFields

-----------------------------------------------------------------------------
(* The children *)
(* The lease of a child is taken, and given back. *)
LEMMA ChildLease ==
    ASSUME NEW child, NEW m, NEW r, NEW real, ChildGood(child, m, r, real), NEW lease \in Leases,
           child.state \notin Terminal \/ lease = "none"
    PROVE  ChildGood([child EXCEPT !.lease = lease], m, r, real)
<1> DEFINE next == [child EXCEPT !.lease = lease]
<1>1. child \in ChildSet
  BY DEF ChildGood, ChildIsValid
<1>2. next \in ChildSet /\ next.rows = child.rows /\ next.state = child.state /\ next.lease = lease
  BY <1>1 DEF ChildSet
<1> HIDE DEF next
<1>3. ChildGood(next, m, r, real)
  BY <1>2 DEF ChildGood, ChildIsValid
<1> QED BY <1>3 DEF next

LEMMA ChildGivenBack ==
    ASSUME NEW child, NEW m, NEW r, NEW real, ChildGood(child, m, r, real)
    PROVE  ChildGood(GivenBack(child), m, r, real)
<1>1. "none" \in Leases
  BY DEF Leases
<1> QED BY <1>1, ChildLease DEF GivenBack

(* What the Studios of a Mac have told, and the child judged by it *)
Told(child, m, r, real) ==
    /\ child \in ChildSet /\ child.rows["hub"] # "absent"
    /\ \A c \in Components : child.rows[c] = "current" => real[m][c] >= r
LEMMA ChildJudged ==
    ASSUME NEW child, NEW m, NEW r, NEW real, Told(child, m, r, real)
    PROVE  ChildGood(Judged(child), m, r, real)
<1> DEFINE have == {child.rows[c] : c \in Components}
           blocked == [[child EXCEPT !.state = "blocked"] EXCEPT !.lease = "none"]
           complete == [[child EXCEPT !.state = "complete"] EXCEPT !.lease = "none"]
           On(s) == [child EXCEPT !.state = s]
<1>1. child \in ChildSet
  BY DEF Told
<1>2. blocked \in ChildSet /\ blocked.rows = child.rows /\ blocked.state = "blocked" /\ blocked.lease = "none"
  BY <1>1 DEF ChildSet, ChildStates, Terminal, Leases
<1>3. complete \in ChildSet /\ complete.rows = child.rows /\ complete.state = "complete"
      /\ complete.lease = "none"
  BY <1>1 DEF ChildSet, ChildStates, Terminal, Leases
<1>4. \A s \in {"degraded", "running"} : On(s) \in ChildSet /\ On(s).rows = child.rows /\ On(s).state = s
  BY <1>1 DEF ChildSet, ChildStates
<1>5. Judged(child) = IF "wrong" \in have THEN blocked
                      ELSE IF have \subseteq {"absent", "current"} THEN complete
                      ELSE On(IF have \cap {"waiting", "clean"} # {} THEN "degraded" ELSE "running")
  BY <1>1 DEF Judged, ChildSet
<1> HIDE DEF blocked, complete, On
<1>6. CASE "wrong" \in have
  <2>1. ChildIsValid(blocked)
    BY <1>2, <1>6 DEF ChildIsValid
  <2>2. ChildGood(blocked, m, r, real)
    BY <1>2, <2>1 DEF ChildGood, Told
  <2> QED BY <1>5, <1>6, <2>2
<1>7. CASE "wrong" \notin have /\ have \subseteq {"absent", "current"}
  <2>1. ChildIsValid(complete)
    BY <1>3, <1>7 DEF ChildIsValid
  <2>2. ChildGood(complete, m, r, real)
    BY <1>3, <2>1 DEF ChildGood, Told
  <2> QED BY <1>5, <1>7, <2>2
<1>8. CASE "wrong" \notin have /\ ~(have \subseteq {"absent", "current"})
  <2> DEFINE s == IF have \cap {"waiting", "clean"} # {} THEN "degraded" ELSE "running"
  <2>1. s \in {"degraded", "running"} /\ (s = "degraded" => have \cap {"waiting", "clean"} # {})
    OBVIOUS
  <2>2. Judged(child) = On(s)
    BY <1>5, <1>8
  <2>3. s \notin Terminal /\ s # "complete" /\ s # "blocked"
    BY <2>1 DEF Terminal
  <2> HIDE DEF s
  <2>4. On(s) \in ChildSet /\ On(s).rows = child.rows /\ On(s).state = s
    BY <1>4, <2>1
  <2>5. ChildIsValid(On(s))
    BY <2>1, <2>3, <2>4 DEF ChildIsValid
  <2>6. ChildGood(On(s), m, r, real)
    BY <2>4, <2>5 DEF ChildGood, Told
  <2> QED BY <2>2, <2>6
<1> QED BY <1>6, <1>7, <1>8

(* A child that is admitted has reported nothing. *)
LEMMA ChildBorn ==
    ASSUME NEW m, NEW r, NEW real, NEW k
    PROVE  ChildGood(NewChild(k), m, r, real)
<1> DEFINE child == NewChild(k)
<1>1. child \in ChildSet /\ child.state = "queued" /\ child.rows["hub"] = "checking"
      /\ \A c \in Components : child.rows[c] \in {"checking", "absent"}
  BY DEF NewChild, ChildSet, ChildStates, ChildRows, Leases, Components
<1> HIDE DEF child
<1>2. ChildGood(child, m, r, real)
  BY <1>1 DEF ChildGood, ChildIsValid, Terminal
<1> QED BY <1>2 DEF child

-----------------------------------------------------------------------------
(* A request arrives, and a child is claimed. *)

AgentsNext == AgentsGood(children', tasks', Real')

LEMMA AgentsRaised ==
    ASSUME SoftwareAssumption, SoftwareTypes, SoftwareTypes', Rises, NEW kids, NEW hands,
           AgentsGood(kids, hands, Real)
    PROVE  AgentsGood(kids, hands, Real')
<1>1. Real \in RealSet /\ Real' \in RealSet
  BY RealTyped, RealTypedNext
<1> QED BY <1>1, GoodHigher DEF Rises

LEMMA AgentsApart ==
    ASSUME SoftwareAssumption, SoftwareTypes, SoftwareTypes', Rises, AgentsWell, UNCHANGED agentVars
    PROVE  AgentsNext
<1>1. AgentsGood(children, tasks, Real')
  BY AgentsRaised DEF AgentsWell
<1> QED BY <1>1 DEF AgentsNext, agentVars

LEMMA HandFacts ==
    ASSUME AgentsWell, NEW m \in Agents, tasks[m].pc # "none"
    PROVE  /\ tasks[m].op \in Ops /\ MacOf(tasks[m].op) = m /\ Admitted(tasks[m].op) /\ m \in Macs
           /\ ChildGood(children[tasks[m].op], m, ReleaseOf(tasks[m].op), Real)
           /\ children[tasks[m].op] \in ChildSet
<1>1. tasks[m].op \in Ops /\ MacOf(tasks[m].op) = m /\ children[tasks[m].op] # NoChild
  BY ChildFields DEF AgentsWell, AgentsGood
<1>2. ChildGood(children[tasks[m].op], m, ReleaseOf(tasks[m].op), Real)
  BY <1>1 DEF AgentsWell, AgentsGood
<1> QED BY <1>1, <1>2 DEF Admitted, ChildGood, ChildIsValid, Agents

(* A request arrives. *)
LEMMA AgentAdmits ==
    ASSUME AgentsWell, NEW op \in Ops, Admits(op), Ensures(op)
    PROVE  AgentsGood(children', tasks', Real) /\ Admission(op) \in Replies
<1>1. Admission(op) \in {"adopted", "refused", "admitted"} /\ (Admission(op) = "adopted" => Admitted(op))
  BY DEF Admission
<1>2. AgentsGood(children', tasks, Real) /\ (Admission(op) # "refused" => children'[op] # NoChild)
  <2>1. CASE Admission(op) = "admitted"
    <3>1. ChildGood(NewChild(MacOf(op)), MacOf(op), ReleaseOf(op), Real)
      BY ChildBorn
    <3>2. children' = [children EXCEPT ![op] = NewChild(MacOf(op))]
      BY <2>1 DEF Admits
    <3>3. NewChild(MacOf(op)) # NoChild
      BY <3>1, ChildFields DEF ChildGood, ChildIsValid
    <3>4. AgentsGood(children', tasks, Real)
      BY <3>1, <3>2, KidChanged DEF AgentsWell
    <3>5. children'[op] # NoChild
      BY <3>2, <3>3 DEF AgentsWell, AgentsGood
    <3> QED BY <3>4, <3>5
  <2>2. CASE Admission(op) # "admitted"
    <3>1. children' = children
      BY <2>2 DEF Admits
    <3> QED BY <1>1, <2>2, <3>1 DEF AgentsWell, Admitted
  <2> QED BY <2>1, <2>2
<1>3. AgentsGood(children', tasks', Real)
  <2>1. CASE tasks' = tasks
    BY <1>2, <2>1
  <2>2. CASE Admission(op) # "refused" /\ tasks' = [tasks EXCEPT ![MacOf(op)] = [pc |-> "claim", op |-> op]]
    <3> DEFINE task == [pc |-> "claim", op |-> op]
    <3>1. task \in TaskSet /\ task.op = op
      BY ChildFields
    <3> HIDE DEF task
    <3>2. AgentsGood(children', [tasks EXCEPT ![MacOf(op)] = task], Real)
      BY <1>2, <2>2, <3>1, HandChanged
    <3> QED BY <2>2, <3>2 DEF task
  <2> QED BY <2>1, <2>2 DEF Ensures
<1> QED BY <1>1, <1>3 DEF Replies

LEMMA ReceivesNext ==
    ASSUME SoftwareAssumption, ControllerWell, AgentsWell, NEW post, NEW heard \in BOOLEAN,
           AgentReceives(post, heard)
    PROVE  ControllerNext /\ AgentsNext
<1>1. post.op \in Ops /\ post.run \in Releases
  BY WellFile DEF AgentReceives, PostSet
<1>2. AgentsGood(children', tasks', Real) /\ Admission(post.op) \in Replies
  BY <1>1, AgentAdmits DEF AgentReceives
<1>3. UNCHANGED << file, pathOwner, wakes, fleet, softwareVars >> /\ posts' = posts \ {post}
      /\ runs' = IF heard THEN Answered(post) ELSE runs
  BY DEF AgentReceives
<1>4. SoftwareTypes' /\ Rises
  BY <1>3, SoftwareSame DEF ControllerWell
<1>5. AgentsNext
  BY <1>2, <1>4, AgentsRaised DEF AgentsNext, ControllerWell
<1>6. RunsTyped' /\ \A x \in Releases : runs'[x] = runs[x] \/ RunWell(file', runs'[x], x)
  <2>1. CASE runs' = runs
    BY <2>1, WellFile DEF RunsTyped
  <2>2. CASE runs[post.run].pc = "posted" /\ runs' = [runs EXCEPT ![post.run].reply = Admission(post.op)]
    <3> DEFINE run == [runs[post.run] EXCEPT !.reply = Admission(post.op)]
    <3>1. runs' = [runs EXCEPT ![post.run] = run]
      BY <1>1, <2>2, WellFile DEF RunsTyped
    <3>2. RunWell(file', run, post.run)
      BY <1>1, <1>2, <2>2, ReadyRun, WaitingRun DEF Busy
    <3> HIDE DEF run
    <3>3. run \in RunSet /\ RunsTyped
      BY <3>2, WellFile DEF RunWell
    <3>4. RunsTyped' /\ \A x \in Releases : runs'[x] = IF x = post.run THEN run ELSE runs[x]
      BY <1>1, <3>1, <3>3 DEF RunsTyped
    <3> QED BY <3>2, <3>4
  <2> QED BY <1>3, <2>1, <2>2 DEF Answered
<1>7. Course(file, file') /\ Calm(file, file') /\ FileWell(file', Real) /\ pathOwner' \in BOOLEAN
  <2>1. file' = file /\ pathOwner' = pathOwner
    BY <1>3
  <2>2. Moves(file, file)
    BY TendedSame, TendedMoves
  <2> QED BY <2>1, <2>2, WellFile DEF Moves, Course
<1>8. ControlStep(Real)
  BY <1>6, <1>7, OthersControl DEF ControllerWell
<1>9. Around'
  BY <1>3, WellFile DEF Around
<1> QED BY <1>3, <1>5, <1>8, <1>9, Unmoved

(* The Controller's state is left alone. *)
LEMMA ControllerApart ==
    ASSUME SoftwareAssumption, ControllerWell, UNCHANGED controllerVars, SoftwareTypes', Rises
    PROVE  ControllerNext
<1>1. UNCHANGED << file, pathOwner, runs, posts, wakes, fleet >>
  BY DEF controllerVars
<1>2. Moves(file, file)
  BY TendedSame, TendedMoves
<1>3. ControlStep(Real)
  BY <1>1, <1>2, WellFile, QuietControls DEF ControllerWell
<1> QED BY <1>1, <1>3, AroundSame, RaisedStep DEF ControllerNext, ControllerWell

-----------------------------------------------------------------------------
(* The task of an Agent *)
LEMMA ClaimsNext ==
    ASSUME SoftwareAssumption, ControllerWell, AgentsWell, NEW m \in Agents,
           NEW answer \in {"restarting", "failed", "clean"},
           ChildClaims(m, answer)
    PROVE  ControllerNext /\ AgentsNext
<1> DEFINE op == tasks[m].op
           known == children[op].rows["hub"] = "current"
           current == known \/ loaded[m] = ReleaseOf(op)
           hub == IF current THEN "current" ELSE ChildRow(answer)
           child == [Claimed(children[op]) EXCEPT !.rows["hub"] = hub]
           settled == IF known THEN child ELSE Judged(child)
<1>1. /\ op \in Ops /\ MacOf(op) = m /\ m \in Macs /\ ChildGood(children[op], m, ReleaseOf(op), Real)
      /\ children[op] \in ChildSet
      /\ tasks[m].pc = "claim"
  BY HandFacts DEF ChildClaims
<1>2. UNCHANGED << controllerVars, loaded, fits, trial, undone, verdict >> /\ (HubAsked(m, op) \/ UNCHANGED managed)
  BY DEF ChildClaims
<1>3. SoftwareTypes' /\ Rises
  BY <1>1, <1>2, AskedKept DEF ControllerWell
<1>4. ControllerNext
  BY <1>2, <1>3, ControllerApart
<1>5. hub \in {"current", "checking", "waiting", "clean"} /\ hub \in ChildRows
  BY DEF ChildRow, ChildRows
<1>6. hub = "current" => Real[m]["hub"] >= ReleaseOf(op)
  <2>1. CASE known
    BY <1>1, <2>1, RowFacts DEF ChildGood
  <2>2. CASE loaded[m] = ReleaseOf(op)
    <3>1. Real[m]["hub"] >= loaded[m] /\ loaded[m] \in Nat
      BY <1>1, RealTyped DEF ControllerWell
    <3> QED BY <2>2, <3>1
  <2>3. current => known \/ loaded[m] = ReleaseOf(op)
    OBVIOUS
  <2>4. hub = "current" => current
    BY DEF ChildRow
  <2> QED BY <2>1, <2>2, <2>3, <2>4
<1> DEFINE rows == [children[op].rows EXCEPT !["hub"] = hub]
           one == [children[op] EXCEPT !.state = "running"]
           two == [one EXCEPT !.lease = "mine"]
           three == [two EXCEPT !.rows = rows]
<1> HIDE DEF hub
<1>7. rows \in [Components -> ChildRows]
      /\ \A c \in Components : rows[c] = IF c = "hub" THEN hub ELSE children[op].rows[c]
  <2>1. children[op].rows \in [Components -> ChildRows] /\ "hub" \in Components
    BY <1>1, ChildFields, RowFacts
  <2> QED BY <1>5, <2>1
<1>8. child = three
  BY <1>1 DEF Claimed, ChildSet
<1> HIDE DEF rows, known
<1> HIDE DEF op, child
<1>20. one \in ChildSet /\ one.state = "running"
  BY <1>1 DEF ChildSet, ChildStates
<1> HIDE DEF one
<1>21. two \in ChildSet /\ two.state = "running" /\ two.lease = "mine"
  BY <1>20 DEF ChildSet, Leases
<1> HIDE DEF two
<1>9. three \in ChildSet /\ three.rows = rows /\ three.state = "running" /\ three.lease = "mine"
  BY <1>21, <1>7 DEF ChildSet
<1> HIDE DEF three
<1>10. Told(three, m, ReleaseOf(op), Real)
  <2>1. ASSUME NEW c \in Components, rows[c] = "current"
        PROVE  Real[m][c] >= ReleaseOf(op)
    BY <1>1, <1>6, <1>7, <2>1 DEF ChildGood
  <2>2. rows["hub"] # "absent"
    BY <1>5, <1>7, RowFacts
  <2> QED BY <1>9, <2>1, <2>2 DEF Told
<1>11. ChildIsValid(three)
  BY <1>9 DEF ChildIsValid, Terminal
<1>12. ChildGood(settled, m, ReleaseOf(op), Real)
  <2>1. ChildGood(three, m, ReleaseOf(op), Real)
    BY <1>10, <1>11 DEF ChildGood, Told
  <2>2. ChildGood(Judged(three), m, ReleaseOf(op), Real)
    BY <1>10, ChildJudged
  <2> QED BY <1>8, <2>1, <2>2
<1>13. ChildGood(GivenBack(settled), m, ReleaseOf(op), Real)
  BY <1>12, ChildGivenBack
<1>14. CASE /\ children' = [children EXCEPT ![op] = settled]
            /\ tasks' = [tasks EXCEPT ![m] = [pc |-> "fitting", op |-> op]]
  <2> DEFINE task == [pc |-> "fitting", op |-> op]
  <2>1. AgentsGood(children', tasks, Real)
    BY <1>1, <1>12, <1>14, KidChanged DEF AgentsWell
  <2>2. task \in TaskSet /\ task.op = op
    BY <1>1, ChildFields
  <2>3. children'[op] # NoChild
    BY <1>1, <1>12, <1>14, ChildFields DEF AgentsWell, AgentsGood, ChildGood, ChildIsValid
  <2>4. tasks' = [tasks EXCEPT ![m] = task]
    BY <1>14
  <2> HIDE DEF task, settled
  <2>5. AgentsGood(children', tasks', Real)
    BY <1>1, <2>1, <2>2, <2>3, <2>4, HandChanged
  <2> QED BY <1>3, <1>4, <2>5, AgentsRaised DEF AgentsNext, ControllerWell
<1>15. CASE children' = [children EXCEPT ![op] = GivenBack(settled)] /\ Ended(m)
  <2> HIDE DEF settled
  <2>1. AgentsGood(children', tasks, Real)
    BY <1>1, <1>13, <1>15, KidChanged DEF AgentsWell
  <2>2. AgentsGood(children', tasks', Real)
    BY <1>15, <2>1, HandDropped DEF Ended
  <2> QED BY <1>3, <1>4, <2>2, AgentsRaised DEF AgentsNext, ControllerWell
<1> QED BY <1>14, <1>15 DEF ChildClaims, child, op, hub, known

-----------------------------------------------------------------------------
(* The other steps of an Agent *)

LEMMA ChildQuiet ==
    ASSUME SoftwareAssumption, ControllerWell, AgentsGood(children', tasks', Real),
           UNCHANGED << controllerVars, softwareVars >>
    PROVE  ControllerNext /\ AgentsNext
<1>1. SoftwareTypes' /\ Rises
  BY SoftwareSame DEF ControllerWell
<1> QED BY <1>1, ControllerApart, AgentsRaised DEF AgentsNext, ControllerWell

(* The task puts the Studios right, then the Hub. *)
LEMMA StudiosNext ==
    ASSUME SoftwareAssumption, ControllerWell, AgentsWell, NEW m \in Agents, NEW outcome, ChildFits(m, outcome)
    PROVE  ControllerNext /\ AgentsNext
<1> DEFINE op == tasks[m].op
           child == children[op]
           rows == [c \in Components |-> IF c \in DOMAIN outcome THEN ChildRow(outcome[c]) ELSE child.rows[c]]
           next == [child EXCEPT !.rows = rows]
<1>1. /\ op \in Ops /\ MacOf(op) = m /\ m \in Macs /\ ChildGood(child, m, ReleaseOf(op), Real)
      /\ child \in ChildSet
  BY HandFacts DEF ChildFits
<1>2. /\ UNCHANGED << controllerVars, loaded, trial, undone, managed, verdict >> /\ FitsEnd(m, ReleaseOf(op), outcome)
      /\ outcome \in [PendingFits(child) -> Outcomes]
  BY DEF ChildFits
<1>3. ReleaseOf(op) \in Releases
  BY <1>1, OpFacts
<1>4. SoftwareTypes' /\ Rises /\ \A c \in Fittings : c \in DOMAIN outcome /\ outcome[c] = "current"
      => Real'[m][c] >= ReleaseOf(op)
  BY <1>1, <1>2, <1>3, FitsRise DEF ControllerWell
<1>5. ControllerNext
  BY <1>2, <1>4, ControllerApart
<1>6. AgentsGood(children, tasks, Real')
  BY <1>4, AgentsRaised DEF AgentsWell, ControllerWell
<1>7. ChildGood(child, m, ReleaseOf(op), Real')
  <2>1. child # NoChild
    BY <1>1, ChildFields
  <2> QED BY <1>1, <1>6, <2>1 DEF AgentsGood
<1>8. DOMAIN outcome \subseteq Fittings /\ \A c \in DOMAIN outcome : outcome[c] \in Outcomes
  BY <1>2 DEF PendingFits
<1>9. ASSUME NEW c \in Components
      PROVE  /\ rows[c] \in ChildRows /\ (c = "hub" => rows[c] = child.rows[c])
             /\ rows[c] = "current" => Real'[m][c] >= ReleaseOf(op)
  <2>1. CASE c \in DOMAIN outcome
    <3>1. rows[c] = ChildRow(outcome[c]) /\ outcome[c] \in Outcomes /\ c \in Fittings
      BY <1>8, <2>1
    <3>2. rows[c] \in ChildRows /\ (rows[c] = "current" => outcome[c] = "current")
      BY <3>1 DEF ChildRow, Outcomes, ChildRows
    <3>3. c # "hub"
      BY <3>1 DEF SoftwareAssumption
    <3> QED BY <1>4, <2>1, <3>1, <3>2, <3>3
  <2>2. CASE c \notin DOMAIN outcome
    <3>1. rows[c] = child.rows[c] /\ child.rows[c] \in ChildRows
      BY <1>1, <2>2, ChildFields
    <3> QED BY <1>7, <3>1 DEF ChildGood
  <2> QED BY <2>1, <2>2
<1>10. rows \in [Components -> ChildRows]
  BY <1>9
<1> HIDE DEF rows, child, op
<1>11. next \in ChildSet /\ next.rows = rows
  BY <1>1, <1>10 DEF ChildSet
<1> HIDE DEF next
<1>12. Told(next, m, ReleaseOf(op), Real')
  <2>1. next.rows["hub"] # "absent"
    BY <1>7, <1>9, <1>11, RowFacts DEF ChildGood
  <2> QED BY <1>9, <1>11, <2>1 DEF Told
<1>13. ChildGood(GivenBack(Judged(next)), m, ReleaseOf(op), Real')
       /\ ChildGood(GivenBack(child), m, ReleaseOf(op), Real')
  BY <1>7, <1>12, ChildJudged, ChildGivenBack
<1>14. \/ children' = [children EXCEPT ![op] = GivenBack(Judged(next))]
       \/ children' = [children EXCEPT ![op] = GivenBack(child)]
  BY DEF ChildFits, op, child, next, rows
<1>15. AgentsGood(children', tasks, Real')
  BY <1>1, <1>6, <1>13, <1>14, KidChanged
<1>16. AgentsGood(children', tasks', Real')
  BY <1>15, HandDropped DEF ChildFits, Ended
<1> QED BY <1>5, <1>16 DEF AgentsNext

LEMMA TaskNext ==
    ASSUME SoftwareAssumption, ControllerWell, AgentsWell, NEW m \in Agents, ChildSkipped(m) \/ ChildLost(m)
           \/ ChildLapses(m)
    PROVE  ControllerNext /\ AgentsNext
<1> DEFINE op == tasks[m].op
<1>1. /\ op \in Ops /\ MacOf(op) = m /\ ChildGood(children[op], m, ReleaseOf(op), Real)
      /\ children[op] \in ChildSet
  BY HandFacts DEF ChildSkipped, ChildLost, ChildLapses
<1>2. CASE ChildSkipped(m)
  <2>1. AgentsGood(children', tasks', Real)
    BY <1>2, HandDropped DEF ChildSkipped, Ended, AgentsWell
  <2> QED BY <1>2, <2>1, ChildQuiet DEF ChildSkipped
<1>3. CASE ChildLost(m)
  <2>1. children' = [children EXCEPT ![op] = GivenBack(children[op])]
    BY <1>1, <1>3 DEF ChildLost, AgentsWell, AgentsGood
  <2>2. ChildGood(GivenBack(children[op]), MacOf(op), ReleaseOf(op), Real)
    BY <1>1, ChildGivenBack
  <2>3. AgentsGood(children', tasks, Real)
    BY <1>1, <2>1, <2>2, KidChanged DEF AgentsWell
  <2>4. AgentsGood(children', tasks', Real)
    BY <1>3, <2>3, HandDropped DEF ChildLost, Ended
  <2> QED BY <1>3, <2>4, ChildQuiet DEF ChildLost
<1>4. CASE ChildLapses(m)
  <2> DEFINE child == [children[op] EXCEPT !.lease = "lapsed"]
  <2>1. children' = [children EXCEPT ![op] = child] /\ UNCHANGED << tasks, controllerVars, softwareVars >>
    BY <1>1, <1>4 DEF ChildLapses, AgentsWell, AgentsGood
  <2>2. children[op].state \notin Terminal
    BY <1>1, <1>4 DEF ChildLapses, ChildFence, ChildGood, ChildIsValid
  <2>3. ChildGood(child, MacOf(op), ReleaseOf(op), Real)
    BY <1>1, <2>2, ChildLease DEF Leases
  <2> HIDE DEF child
  <2>4. AgentsGood(children', tasks, Real)
    BY <1>1, <2>1, <2>3, KidChanged DEF AgentsWell
  <2> QED BY <2>1, <2>4, ChildQuiet
<1> QED BY <1>2, <1>3, <1>4

LEMMA ChildLeaseNext ==
    ASSUME SoftwareAssumption, ControllerWell, AgentsWell, NEW op \in Ops, ChildLeaseEnds(op)
    PROVE  ControllerNext /\ AgentsNext
<1> DEFINE child == [children[op] EXCEPT !.lease = "dead"]
<1>1. ChildGood(children[op], MacOf(op), ReleaseOf(op), Real) /\ children[op].state \notin Terminal
  BY DEF ChildLeaseEnds, OpenChild, Admitted, AgentsWell, AgentsGood
<1>2. children' = [children EXCEPT ![op] = child] /\ UNCHANGED << tasks, controllerVars, softwareVars >>
  BY DEF ChildLeaseEnds, AgentsWell, AgentsGood
<1>3. ChildGood(child, MacOf(op), ReleaseOf(op), Real)
  BY <1>1, ChildLease DEF Leases
<1> HIDE DEF child
<1>4. AgentsGood(children', tasks, Real)
  BY <1>2, <1>3, KidChanged DEF AgentsWell
<1> QED BY <1>2, <1>4, ChildQuiet

(* A restart of an Agent's Hub *)
LEMMA AgentRestart ==
    ASSUME SoftwareAssumption, ControllerWell, AgentsWell, NEW m \in Agents, NEW graceful \in BOOLEAN,
           NEW alike \in BOOLEAN,
           AgentStarts(m, graceful, alike), SoftwareTypes', Rises
    PROVE  ControllerNext /\ AgentsNext
<1> DEFINE open == {op \in Ops : MacOf(op) = m /\ OpenChild(op)}
           Left(op) == [children[op] EXCEPT !.lease = LeftLease(children[op].lease, graceful, alike)]
<1>1. /\ children' = [op \in Ops |-> IF op \in open THEN Left(op) ELSE children[op]]
      /\ UNCHANGED controllerVars
      /\ \/ tasks' = [tasks EXCEPT ![m] = NoTask]
         \/ \E op \in open : tasks' = [tasks EXCEPT ![m] = [pc |-> "claim", op |-> op]]
  <2>1. children' = [op \in Ops |-> IF op \in open THEN Left(op) ELSE children[op]]
    BY DEF AgentStarts, AgentsWell, AgentsGood
  <2> QED BY <2>1 DEF AgentStarts
<1>2. ASSUME NEW op \in open
      PROVE  ChildGood(Left(op), MacOf(op), ReleaseOf(op), Real) /\ Left(op) \in ChildSet /\ Left(op) # NoChild
  <2>1. ChildGood(children[op], MacOf(op), ReleaseOf(op), Real) /\ children[op].state \notin Terminal
        /\ children[op] \in ChildSet
    BY DEF OpenChild, Admitted, AgentsWell, AgentsGood, ChildGood, ChildIsValid
  <2>2. LeftLease(children[op].lease, graceful, alike) \in Leases
    BY <2>1, ChildFields DEF LeftLease, Leases
  <2>3. ChildGood(Left(op), MacOf(op), ReleaseOf(op), Real)
    BY <2>1, <2>2, ChildLease
  <2> QED BY <2>3, ChildFields DEF ChildGood, ChildIsValid
<1>3. \A op \in open : op \in Ops /\ MacOf(op) = m
  OBVIOUS
<1> HIDE DEF open, Left
<1>4. \A op \in Ops : children'[op] = IF op \in open THEN Left(op) ELSE children[op]
  BY <1>1
<1>5. children' \in [Ops -> ChildSet \cup {NoChild}]
  BY <1>1, <1>2 DEF AgentsWell, AgentsGood
<1>6. ASSUME NEW op \in Ops
      PROVE  /\ children[op] # NoChild => children'[op] # NoChild
             /\ children'[op] # NoChild => ChildGood(children'[op], MacOf(op), ReleaseOf(op), Real)
  BY <1>2, <1>4 DEF AgentsWell, AgentsGood
<1>7. AgentsGood(children', tasks, Real)
  <2>1. \A k \in Agents : tasks[k].pc # "none" => tasks[k].op \in Ops
    BY ChildFields DEF AgentsWell, AgentsGood
  <2> QED BY <1>5, <1>6, <2>1 DEF AgentsWell, AgentsGood
<1>8. AgentsGood(children', tasks', Real)
  <2>1. CASE tasks' = [tasks EXCEPT ![m] = NoTask]
    BY <1>7, <2>1, HandDropped
  <2>2. ASSUME NEW op \in open, tasks' = [tasks EXCEPT ![m] = [pc |-> "claim", op |-> op]]
        PROVE  AgentsGood(children', tasks', Real)
    <3> DEFINE task == [pc |-> "claim", op |-> op]
    <3>1. op \in Ops /\ MacOf(op) = m /\ children'[op] # NoChild
      BY <1>2, <1>3, <1>4
    <3>2. task \in TaskSet /\ task.op = op
      BY <3>1, ChildFields
    <3>3. tasks' = [tasks EXCEPT ![m] = task]
      BY <2>2
    <3> HIDE DEF task
    <3> QED BY <1>7, <3>1, <3>2, <3>3, HandChanged
  <2> QED BY <1>1, <2>1, <2>2
<1>9. AgentsNext
  BY <1>8, AgentsRaised DEF AgentsNext, ControllerWell
<1> QED BY <1>1, <1>9, ControllerApart

-----------------------------------------------------------------------------
(* Every step: updaters, runs, GenStudio and the registry ... *)

(* The inductive invariant *)
IInv == ControllerWell /\ AgentsWell /\ trouble \in 0 .. MaxTrouble
(* What a step does to all of it *)
StepWell == ControllerNext /\ AgentsNext /\ trouble' \in 0 .. MaxTrouble

LEMMA Counted ==
    ASSUME trouble \in 0 .. MaxTrouble, Quiet \/ Trouble
    PROVE  trouble' \in 0 .. MaxTrouble
<1>1. MaxTrouble \in Nat
  BY FleetAssumption DEF FleetAssumption
<1> QED BY <1>1 DEF Quiet, Trouble

LEMMA HubNext ==
    ASSUME ControllerWell, AgentsWell, NEW m \in Macs, NEW graceful \in BOOLEAN, NEW alike \in BOOLEAN,
           HubStarts(m, graceful, alike), SoftwareTypes', Rises
    PROVE  ControllerNext /\ AgentsNext
<1>1. CASE m = Local
  <2>1. ControllerStarts(graceful, alike) /\ UNCHANGED agentVars
    BY <1>1 DEF HubStarts
  <2> QED BY <2>1, SoftwareAssumption, RestartNext, AgentsApart DEF ControllerWell
<1>2. CASE m # Local
  <2>1. AgentStarts(m, graceful, alike) /\ m \in Agents
    BY <1>2 DEF HubStarts, Agents
  <2> QED BY <2>1, SoftwareAssumption, AgentRestart
<1> QED BY <1>1, <1>2

LEMMA UpdaterStep ==
    ASSUME IInv, NEW m \in Macs,
           \/ Update(m) \/ UpdateVerified(m)
           \/ \E how \in {"failed", "clean"} : UpdateFails(m, how) \/ UpdateRollsBack(m, how)
           \/ \E alike \in BOOLEAN : Crash(m, alike)
    PROVE  StepWell
<1>1. ControllerWell /\ AgentsWell /\ SoftwareTypes /\ trouble \in 0 .. MaxTrouble
  BY DEF IInv, ControllerWell
<1>2. CASE Update(m)
  <2>1. SoftwareTypes' /\ Rises
    BY <1>1, <1>2, SoftwareAssumption, StartRises DEF Update
  <2>2. HubStarts(m, TRUE, FALSE) /\ (Quiet \/ Trouble)
    BY <1>2 DEF Update
  <2> QED BY <1>1, <2>1, <2>2, HubNext, Counted DEF StepWell
<1>3. ASSUME NEW how \in {"failed", "clean"}, UpdateVerified(m) \/ UpdateFails(m, how) PROVE StepWell
  <2>1. SoftwareTypes' /\ Rises
    BY <1>1, <1>3, SoftwareAssumption, UpdateOver DEF UpdateVerified, UpdateFails
  <2>2. UNCHANGED << controllerVars, agentVars >> /\ (Quiet \/ Trouble)
    BY <1>3 DEF UpdateVerified, UpdateFails
  <2> QED BY <1>1, <2>1, <2>2, SoftwareAssumption, ControllerApart, AgentsApart, Counted DEF StepWell
<1>4. ASSUME NEW how \in {"failed", "clean"}, UpdateRollsBack(m, how) PROVE StepWell
  <2>1. SoftwareTypes' /\ Rises
    BY <1>1, <1>4, SoftwareAssumption, RollbackRises DEF UpdateRollsBack
  <2>2. HubStarts(m, TRUE, FALSE) /\ Trouble
    BY <1>4 DEF UpdateRollsBack
  <2> QED BY <1>1, <2>1, <2>2, HubNext, Counted DEF StepWell
<1>5. ASSUME NEW alike \in BOOLEAN, Crash(m, alike) PROVE StepWell
  <2>1. HubStarts(m, FALSE, alike) /\ Trouble /\ UNCHANGED softwareVars
    BY <1>5 DEF Crash
  <2>2. SoftwareTypes' /\ Rises
    BY <1>1, <2>1, SoftwareAssumption, SoftwareSame
  <2> QED BY <1>1, <2>1, <2>2, HubNext, Counted DEF StepWell
<1> QED BY <1>2, <1>3, <1>4, <1>5

(* Steps of the Controller alone *)
LEMMA ApartStep ==
    ASSUME IInv, ControllerNext, Apart, Quiet \/ Trouble
    PROVE  StepWell
<1>1. AgentsNext
  BY SoftwareAssumption, AgentsApart DEF IInv, ControllerWell, ControllerNext, Apart
<1> QED BY <1>1, Counted DEF StepWell, IInv

LEMMA FleetStep ==
    ASSUME IInv,
           \/ \E r \in Releases : Run(r) \/ GenStudio(r)
           \/ \E m \in Agents : Peer(m)
           \/ \E m \in Macs : SwitchOff(m) \/ SwitchOn(m) \/ \E c \in Fittings : Fit(m, c)
           \/ Scan \/ PeersBack \/ FleetBack \/ Withdrawal
    PROVE  StepWell
<1>1. ControllerWell /\ AgentsWell /\ \A op \in Ops : ChildWell(op)
  BY DEF IInv, AgentsWell, AgentsGood, ChildWell, Admitted
<1>2. ASSUME NEW r \in Releases, Run(r) PROVE StepWell
  <2>1. ControllerNext
    BY <1>1, <1>2, SoftwareAssumption, RunNext
  <2>2. Apart /\ (Quiet \/ Trouble)
    BY <1>2 DEF Run, RunPolls, Apart
  <2> QED BY <2>1, <2>2, ApartStep
<1>3. ASSUME NEW r \in Releases, GenStudio(r) PROVE StepWell
  <2>1. ControllerNext
    BY <1>1, <1>3, SoftwareAssumption, GenStudioNext
  <2>2. Apart /\ (Quiet \/ Trouble)
    BY <1>3 DEF GenStudio
  <2> QED BY <2>1, <2>2, ApartStep
<1>4. ASSUME NEW m \in Agents, Peer(m) PROVE StepWell
  <2>1. m \in Macs /\ PeerBack(m) /\ Apart /\ Trouble
    BY <1>4 DEF Peer, Agents
  <2> QED BY <1>1, <2>1, SoftwareAssumption, PeerBackNext, ApartStep
<1>5. ASSUME NEW m \in Macs, SwitchOff(m) PROVE StepWell
  <2>1. fleet \in FleetSet /\ fleet' = [fleet EXCEPT !.enabled = @ \ {m}]
    BY <1>1, <1>5, WellFile DEF SwitchOff
  <2>2. fleet' \in FleetSet
    BY <2>1 DEF FleetSet
  <2>3. UNCHANGED << file, pathOwner, runs, posts, wakes, softwareVars >> /\ Apart /\ Trouble
    BY <1>5 DEF SwitchOff, Apart, agentVars
  <2>4. Moves(file, file) /\ FileWell(file, Real) /\ pathOwner \in BOOLEAN
    BY <1>1, WellFile, TendedSame, TendedMoves
  <2>5. Around'
    BY <1>1, <2>2, <2>3, WellFile DEF Around
  <2>6. ControllerNext
    BY <1>1, <2>3, <2>4, <2>5, SoftwareAssumption, QuietNext
  <2> QED BY <2>3, <2>6, ApartStep
<1>6. ASSUME NEW m \in Macs, SwitchOn(m) \/ \E c \in Fittings : Fit(m, c) PROVE StepWell
  <2>1. fleet \in FleetSet
    BY <1>1, WellFile
  <2>2. \/ fleet' = [fleet EXCEPT !.enabled = @ \cup {m}]
        \/ \E c \in Fittings : fleet' = [fleet EXCEPT !.fitted[m] = @ \cup {c}]
    BY <1>6 DEF SwitchOn, Fit
  <2>3. fleet' \in FleetSet
    <3>1. CASE fleet' = [fleet EXCEPT !.enabled = @ \cup {m}]
      BY <2>1, <3>1 DEF FleetSet
    <3>2. ASSUME NEW c \in Fittings, fleet' = [fleet EXCEPT !.fitted[m] = @ \cup {c}] PROVE fleet' \in FleetSet
      <4> DEFINE fitted == [fleet.fitted EXCEPT ![m] = fleet.fitted[m] \cup {c}]
      <4>1. fleet.fitted \in [Macs -> SUBSET Fittings]
        BY <2>1 DEF FleetSet
      <4>2. fitted \in [Macs -> SUBSET Fittings]
        BY <4>1
      <4>3. fleet' = [fleet EXCEPT !.fitted = fitted]
        BY <2>1, <3>2 DEF FleetSet
      <4> HIDE DEF fitted
      <4> QED BY <2>1, <4>2, <4>3 DEF FleetSet
    <3> QED BY <2>2, <3>1, <3>2
  <2>4. RegistryWoken /\ UNCHANGED << pathOwner, posts, softwareVars >> /\ Apart /\ (Quiet \/ Trouble)
    BY <1>6 DEF SwitchOn, Fit, Registry, Apart, agentVars
  <2>5. ControllerNext
    BY <1>1, <2>3, <2>4, SoftwareAssumption, WokenNext
  <2> QED BY <2>4, <2>5, ApartStep
<1>7. CASE Scan
  BY <1>1, <1>7, SoftwareAssumption, ScanNext, ApartStep DEF Scan
<1>8. CASE PeersBack
  BY <1>1, <1>8, SoftwareAssumption, PeerWakesNext, ApartStep DEF PeersBack
<1>9. CASE FleetBack
  BY <1>1, <1>9, SoftwareAssumption, FleetWakesNext, ApartStep DEF FleetBack
<1>10. CASE Withdrawal
  <2>1. Withdraw /\ Apart /\ Trouble
    BY <1>10 DEF Withdrawal
  <2>2. ControllerNext
    BY <1>1, <2>1, SoftwareAssumption, WithdrawNext
  <2> QED BY <2>1, <2>2, ApartStep
<1> QED BY <1>2, <1>3, <1>4, <1>5, <1>6, <1>7, <1>8, <1>9, <1>10

-----------------------------------------------------------------------------
(* ... the network, the Agents and time *)

LEMMA PostLostNext ==
    ASSUME ControllerWell, NEW post, PostLost(post)
    PROVE  ControllerNext
<1>1. UNCHANGED << file, pathOwner, runs, wakes, fleet, softwareVars >> /\ posts' = posts \ {post}
  BY DEF PostLost
<1>2. Around'
  BY <1>1, WellFile DEF Around
<1>3. Moves(file, file) /\ FileWell(file, Real) /\ pathOwner \in BOOLEAN
  BY WellFile, TendedSame, TendedMoves
<1> QED BY <1>1, <1>2, <1>3, SoftwareAssumption, QuietNext

LEMMA NetworkStep ==
    ASSUME IInv,
           \/ \E post \in posts : Receive(post) \/ AnswerLost(post) \/ PostLost(post)
           \/ \E m \in Agents : Child(m) \/ Lapse(m)
           \/ Time
    PROVE  StepWell
<1>1. ControllerWell /\ AgentsWell /\ trouble \in 0 .. MaxTrouble
  BY DEF IInv
<1>2. ASSUME NEW post, Receive(post) \/ AnswerLost(post) PROVE StepWell
  <2>1. PICK heard \in BOOLEAN : AgentReceives(post, heard) /\ (Quiet \/ Trouble)
    BY <1>2 DEF Receive, AnswerLost
  <2> QED BY <1>1, <2>1, SoftwareAssumption, ReceivesNext, Counted DEF StepWell
<1>3. ASSUME NEW post, PostLost(post) PROVE StepWell
  <2>1. ControllerNext
    BY <1>1, <1>3, PostLostNext
  <2> QED BY <1>3, <2>1, ApartStep DEF PostLost, Apart
<1>4. ASSUME NEW m \in Agents, Child(m) PROVE StepWell
  <2>1. Quiet \/ Trouble
    BY <1>4 DEF Child
  <2>2. CASE ChildSkipped(m) \/ ChildLost(m)
    BY <1>1, <2>1, <2>2, SoftwareAssumption, TaskNext, Counted DEF StepWell
  <2>3. ASSUME NEW answer \in {"restarting", "failed", "clean"}, ChildClaims(m, answer) PROVE StepWell
    BY <1>1, <2>1, <2>3, SoftwareAssumption, ClaimsNext, Counted DEF StepWell
  <2>4. ASSUME NEW outcome, ChildFits(m, outcome) PROVE StepWell
    BY <1>1, <2>1, <2>4, SoftwareAssumption, StudiosNext, Counted DEF StepWell
  <2> QED BY <1>4, <2>2, <2>3, <2>4 DEF Child
<1>5. ASSUME NEW m \in Agents, Lapse(m) PROVE StepWell
  BY <1>1, <1>5, SoftwareAssumption, TaskNext, Counted DEF StepWell, Lapse
<1>6. ASSUME NEW op \in Ops, ChildLeaseEnds(op) /\ Quiet PROVE StepWell
  BY <1>1, <1>6, SoftwareAssumption, ChildLeaseNext, Counted DEF StepWell
<1>7. CASE Apart /\ (Quiet \/ Trouble) /\ \/ \E m \in Macs, c \in Components : RowDue(m, c)
                                          \/ CatalogDue \/ LeaseEnds("foreign", "dead")
                                             \/ LeaseEnds("mine", "lapsed")
  <2>1. ControllerNext
    BY <1>1, <1>7, SoftwareAssumption, TimeNext
  <2> QED BY <1>7, <2>1, ApartStep
<1>8. CASE Time
  <2>1. \/ \E op \in Ops : ChildLeaseEnds(op) /\ Quiet
        \/ Apart /\ (Quiet \/ Trouble) /\ \/ \E m \in Macs, c \in Components : RowDue(m, c)
                                          \/ CatalogDue \/ LeaseEnds("foreign", "dead")
                                             \/ LeaseEnds("mine", "lapsed")
    BY <1>8 DEF Time, LeaseOver
  <2> QED BY <1>6, <1>7, <2>1
<1> QED BY <1>2, <1>3, <1>4, <1>5, <1>8

LEMMA StutterStep ==
    ASSUME IInv, UNCHANGED vars
    PROVE  StepWell
<1>1. UNCHANGED << file, pathOwner, runs, posts, wakes, fleet, softwareVars >> /\ Apart /\ Quiet
  BY DEF vars, controllerVars, agentVars, Apart, Quiet
<1>2. ControllerWell
  BY DEF IInv
<1>3. Moves(file, file) /\ FileWell(file, Real) /\ pathOwner \in BOOLEAN
  BY <1>2, WellFile, TendedSame, TendedMoves
<1>4. ControllerNext
  BY <1>1, <1>2, <1>3, AroundSame, SoftwareAssumption, QuietNext
<1> QED BY <1>1, <1>4, ApartStep

(* Every step keeps the invariant, and moves the file as it may. *)
LEMMA NextWell ==
    ASSUME IInv, [Next]_vars
    PROVE  StepWell
<1>1. CASE UNCHANGED vars
  BY <1>1, StutterStep
<1>2. CASE Next
  BY <1>2, UpdaterStep, FleetStep, NetworkStep DEF Next
<1> QED BY <1>1, <1>2

LEMMA StepKeeps == StepWell => IInv' /\ Course(file, file')
<1>1. ASSUME StepWell PROVE IInv' /\ Course(file, file')
  <2>1. FileWell(file', Real') /\ pathOwner' \in BOOLEAN /\ RunsWell' /\ Course(file, file') /\ SoftwareTypes'
        /\ Around'
    BY <1>1 DEF StepWell, ControllerNext, ControlStep
  <2>2. fleet' \in FleetSet
    BY <2>1 DEF Around
  <2>3. ControllerWell'
    BY <2>1, <2>2 DEF ControllerWell, ControlWell
  <2>4. AgentsWell'
    BY <1>1 DEF StepWell, AgentsNext, AgentsWell
  <2> QED BY <1>1, <2>1, <2>3, <2>4 DEF IInv, StepWell
<1> QED BY <1>1

LEMMA Begins == Init => IInv
<1> SUFFICES ASSUME Init PROVE IInv
  OBVIOUS
<1>1. SoftwareTypes
  BY DEF Init, SoftwareInit, SoftwareTypes, Verdicts
<1>2. FileWell(file, Real)
  <2>1. file = Withdrawn(file)
    BY DEF Init, ControllerInit, Withdrawn
  <2> QED BY <2>1, SoftwareAssumption, WithdrawnWell
<1>3. RunsWell
  <2>1. runs = [r \in Releases |-> NoRun]
    BY DEF Init, ControllerInit
  <2> QED BY <2>1, Resting, RunFields DEF RunsWell, RunsTyped
<1>4. fleet \in FleetSet /\ pathOwner \in BOOLEAN /\ Around
  BY FleetAssumption DEF FleetAssumption, Init, ControllerInit, FleetSet, Around
<1>5. AgentsWell
  <2>1. children = [op \in Ops |-> NoChild] /\ tasks = [m \in Agents |-> NoTask]
    BY DEF Init, AgentInit
  <2> QED BY <2>1, ChildFields DEF AgentsWell, AgentsGood
<1>6. trouble \in 0 .. MaxTrouble
  BY FleetAssumption DEF FleetAssumption, Init
<1> QED BY <1>1, <1>2, <1>3, <1>4, <1>5, <1>6 DEF IInv, ControllerWell, ControlWell

(* The inductive invariant holds in every reachable state. *)
THEOREM Invariance == Spec => []IInv
<1>1. IInv /\ [Next]_vars => IInv'
  BY NextWell, StepKeeps
<1> QED BY <1>1, Begins, PTL DEF Spec

(* What is well is readable. *)
LEMMA ReadableFile ==
    ASSUME NEW f, NEW real, FileWell(f, real)
    PROVE  FileIsValid(f)
<1>1. ASSUME NEW id \in JobIds, Live(f, id)
      PROVE  JobIsValid(f, id)
  <2>1. JobWell(f.jobs[id], id[1], real) /\ JobPlaced(f, id)
    BY <1>1 DEF FileWell
  <2> QED BY <2>1 DEF JobIsValid, JobPlaced, JobWell, Shaped, Standing, Trying
<1>2. f.desired \in Releases \cup {0} /\ f.active \in JobIds \cup {NoActive}
  BY DEF FileWell, FileSet
<1> QED BY <1>1, <1>2 DEF FileWell, FileIsValid

LEMMA Readable == IInv => FilesReadable
<1> SUFFICES ASSUME IInv PROVE FilesReadable
  OBVIOUS
<1>1. ControllerWell /\ AgentsWell
  BY DEF IInv
<1>2. FileIsValid(file)
  BY <1>1, WellFile, ReadableFile
<1>3. \A op \in Ops : Admitted(op) => ChildIsValid(children[op])
  BY <1>1 DEF AgentsWell, AgentsGood, ChildGood, Admitted
<1>4. pathOwner \in BOOLEAN /\ \A r \in Releases : runs[r] \in RunSet
  BY <1>1, WellFile DEF RunWell
<1>5. \A m \in Agents : tasks[m] \in TaskSet
  BY <1>1 DEF AgentsWell, AgentsGood
<1> QED BY <1>1, <1>2, <1>3, <1>4, <1>5, WellFile
        DEF FilesReadable, ControllerWell, SoftwareTypes, PostSet, FleetSet, IInv

(* What is reported as current has run the release, and still does unless    *)
(* its updater took it back.                                                 *)
LEMMA RanTruly ==
    ASSUME SoftwareTypes, NEW m \in Macs, NEW c \in Components, NEW r \in Releases, Real[m][c] >= r
    PROVE  Running(m, c) >= r \/ TakenBack(m, c, r)
<1>1. Real[m][c] = Ran(m, c)
  BY RealTyped, SoftwareAssumption
<1> QED BY <1>1 DEF Ran, Running, TakenBack

LEMMA Truly == IInv => ConvergedTruly
<1> SUFFICES ASSUME IInv PROVE ConvergedTruly
  OBVIOUS
<1>1. ControllerWell /\ AgentsWell /\ FileWell(file, Real) /\ SoftwareTypes
  BY WellFile DEF IInv, ControllerWell
<1>2. ASSUME NEW id \in JobIds, NEW m \in Macs, NEW c \in Components, Live(file, id),
             file.jobs[id].rows[m][c] = "current"
      PROVE  Running(m, c) >= id[1] \/ TakenBack(m, c, id[1])
  <2>1. Real[m][c] >= id[1]
    BY <1>1, <1>2 DEF FileWell, JobWell, Shaped, RowsTrue
  <2>2. id[1] \in Releases
    BY IdFacts, SoftwareAssumption
  <2> QED BY <1>1, <2>1, <2>2, RanTruly
<1>3. ASSUME NEW op \in Ops, NEW c \in Components, Admitted(op), children[op].rows[c] = "current"
      PROVE  Running(MacOf(op), c) >= ReleaseOf(op) \/ TakenBack(MacOf(op), c, ReleaseOf(op))
  <2>1. MacOf(op) \in Macs /\ ReleaseOf(op) \in Releases
    BY OpFacts
  <2>2. Real[MacOf(op)][c] >= ReleaseOf(op)
    BY <1>1, <1>3 DEF AgentsWell, AgentsGood, ChildGood, Admitted
  <2> QED BY <1>1, <2>1, <2>2, RanTruly
<1> QED BY <1>2, <1>3 DEF ConvergedTruly

(* Every file that the Controller and the Agents write passes the validation  *)
(* that the next load of it makes, after any crash and restart.               *)
THEOREM FilesStayReadable == Spec => []FilesReadable
  BY Invariance, Readable, PTL

(* A component that the Controller or an Agent reports as current runs the    *)
(* release, or is a Hub that ran it and whose updater took that release back  *)
(* afterwards: through every restart, replay, lost answer and failed update.  *)
THEOREM ConvergedIsTrue == Spec => []ConvergedTruly
  BY Invariance, Truly, PTL

(* No transaction touches a job that ended. *)
LEMMA Final ==
    ASSUME NEW f, NEW g, Course(f, g), NEW id \in JobIds, Live(f, id), f.jobs[id].state \in Terminal
    PROVE  g.jobs[id] \in {f.jobs[id], NoJob}
  BY DEF Course, Keeps, Grown, Opened, Published, Gone

(* The outcome of a job is final: it is complete or unfinished for good, and  *)
(* only a withdrawal takes it away.                                           *)
THEOREM OutcomesAreFinal == Spec => OutcomeIsFinal
<1>1. IInv /\ [Next]_vars => \A id \in JobIds : Live(file, id) /\ file.jobs[id].state \in Terminal
                                                  => file'.jobs[id] \in {file.jobs[id], NoJob}
  BY NextWell, StepKeeps, Final
<1> QED BY <1>1, Invariance, PTL DEF Spec, OutcomeIsFinal

-----------------------------------------------------------------------------
(* The release as an intent *)

(* The abstract state, of any file *)
PhaseOf(f) == IF f.desired = 0 THEN "idle" ELSE IF f.active = NoActive THEN "published"
              ELSE IF Current(f).state \in Terminal THEN Current(f).state ELSE "active"
Working(f) == PhaseOf(f) \notin {"idle", "published"}
ReachedOf(job) == {p \in Places : job.rows[p[1]][p[2]] = "current"}
ScopeAt(f) == IF Working(f) THEN ScopeOf(Current(f)) ELSE {}
ReachedAt(f) == IF Working(f) THEN ReachedOf(Current(f)) ELSE {}

(* What a phase tells of the file. *)
LEMMA PhaseFacts ==
    ASSUME SoftwareAssumption, NEW f, NEW real, FileWell(f, real)
    PROVE  /\ Working(f) <=> f.active # NoActive
           /\ f.active # NoActive => f.desired # 0 /\ f.active \in JobIds /\ f.active[1] = f.desired
              /\ Current(f) \in JobSet
           /\ f.active # NoActive /\ Current(f).state \in Terminal => PhaseOf(f) = Current(f).state
           /\ f.active # NoActive /\ Current(f).state \notin Terminal => PhaseOf(f) = "active"
           /\ f.active = NoActive => PhaseOf(f) = IF f.desired = 0 THEN "idle" ELSE "published"
<1>1. f.active # NoActive => f.desired # 0 /\ f.active \in JobIds /\ f.active[1] = f.desired
      /\ Current(f) \in JobSet
  BY FileFields, ActiveFacts
<1>2. Current(f).state \in Terminal => Current(f).state \notin {"idle", "published"}
  BY DEF Terminal
<1> QED BY <1>1, <1>2 DEF PhaseOf, Working

(* What is reported of an active release is in its scope, and runs it. *)
LEMMA ReportsWell ==
    ASSUME SoftwareAssumption, NEW f, NEW real, FileWell(f, real), f.active # NoActive
    PROVE  /\ ScopeAt(f) \subseteq Places /\ ReachedAt(f) \subseteq ScopeAt(f)
           /\ \A p \in ReachedAt(f) : real[p[1]][p[2]] >= f.desired
           /\ PhaseOf(f) \in {"active", "complete", "blocked"}
           /\ PhaseOf(f) = "complete" => ReachedAt(f) = ScopeAt(f)
<1>1. Working(f) /\ f.active \in JobIds /\ f.active[1] = f.desired /\ JobWell(Current(f), f.desired, real)
  BY PhaseFacts, ActiveFacts
<1>2. ScopeAt(f) = ScopeOf(Current(f)) /\ ReachedAt(f) = ReachedOf(Current(f))
  BY <1>1 DEF ScopeAt, ReachedAt
<1>3. \A p \in Places : p[1] \in Macs /\ p[2] \in Components
  BY DEF Places
<1>4. \A p \in ReachedOf(Current(f)) : real[p[1]][p[2]] >= f.desired
  BY <1>1, <1>3 DEF ReachedOf, JobWell, Shaped, RowsTrue
<1>5. PhaseOf(f) = "complete" => Converged(Current(f))
  BY <1>1, PhaseFacts DEF JobWell, Standing, Terminal
<1>6. Converged(Current(f)) => ReachedOf(Current(f)) = ScopeOf(Current(f))
  BY <1>3 DEF Converged, ReachedOf, ScopeOf
<1>7. PhaseOf(f) \in {"active", "complete", "blocked"}
  BY <1>1, PhaseFacts DEF Terminal
<1>8. ScopeOf(Current(f)) \subseteq Places /\ ReachedOf(Current(f)) \subseteq ScopeOf(Current(f))
  BY DEF ScopeOf, ReachedOf
<1> QED BY <1>2, <1>4, <1>5, <1>6, <1>7, <1>8

-----------------------------------------------------------------------------
(* The steps of the intent *)
LEMMA KeepsIntent ==
    ASSUME SoftwareAssumption, NEW f, NEW g, NEW old, NEW new, FileWell(f, old), FileWell(g, new), Keeps(f, g)
    PROVE  /\ g.desired = f.desired
           /\ \/ PhaseOf(f) = "active" /\ g.active # NoActive
              \/ PhaseOf(g) = PhaseOf(f) /\ ScopeAt(g) = ScopeAt(f) /\ ReachedAt(g) = ReachedAt(f)
<1>1. g.desired = f.desired /\ g.active = f.active
  BY DEF Keeps
<1>2. CASE f.active = NoActive
  BY <1>1, <1>2, PhaseFacts DEF ScopeAt, ReachedAt
<1>3. CASE f.active # NoActive /\ Current(f).state \notin Terminal
  BY <1>1, <1>3, PhaseFacts
<1>4. CASE f.active # NoActive /\ Current(f).state \in Terminal
  <2>1. f.active \in JobIds /\ Live(f, f.active)
    BY <1>4, ActiveFacts
  <2>2. Current(g) = Current(f)
    BY <1>1, <1>4, <2>1 DEF Keeps, Current
  <2> QED BY <1>1, <1>4, <2>2 DEF PhaseOf, Working, ScopeAt, ReachedAt
<1> QED BY <1>1, <1>2, <1>3, <1>4

LEMMA GrownIntent ==
    ASSUME SoftwareAssumption, NEW f, NEW g, NEW old, NEW new, FileWell(f, old), FileWell(g, new), Grown(f, g)
    PROVE  /\ g.desired = f.desired /\ g.active # NoActive /\ PhaseOf(f) = "complete" /\ PhaseOf(g) = "active"
           /\ ScopeAt(f) \subseteq ScopeAt(g) /\ ScopeAt(g) # ScopeAt(f)
<1>1. f.active # NoActive /\ g.active # NoActive /\ Working(f) /\ Working(g)
  BY PhaseFacts DEF Grown
<1>2. PhaseOf(f) = "complete" /\ PhaseOf(g) = "active"
  BY <1>1, PhaseFacts DEF Grown, Terminal
<1> QED BY <1>1, <1>2 DEF Grown, ScopeAt

LEMMA OpenedIntent ==
    ASSUME SoftwareAssumption, NEW f, NEW g, NEW old, NEW new, FileWell(f, old), FileWell(g, new), Opened(f, g)
    PROVE  /\ g.desired = f.desired /\ g.active # NoActive /\ PhaseOf(f) = "published" /\ PhaseOf(g) = "active"
           /\ ReachedAt(g) = {}
<1>1. PhaseOf(f) = "published" /\ PhaseOf(g) = "active"
  BY PhaseFacts DEF Opened, Terminal
<1>2. \A p \in Places : p[1] \in Macs /\ p[2] \in Components
  BY DEF Places
<1>3. ReachedOf(Current(g)) = {}
  BY <1>2 DEF Opened, ReachedOf
<1> QED BY <1>1, <1>3 DEF Opened, ReachedAt

LEMMA PublishedIntent ==
    ASSUME SoftwareAssumption, NEW f, NEW g, NEW old, NEW new, FileWell(f, old), FileWell(g, new),
           Published(f, g)
    PROVE  /\ g.desired > f.desired /\ PhaseOf(f) # "active" /\ PhaseOf(g) = "published"
           /\ ScopeAt(g) = {} /\ ReachedAt(g) = {}
<1>1. g.active = NoActive /\ g.desired # 0
  BY DEF Published, SoftwareAssumption
<1>2. PhaseOf(g) = "published" /\ ~Working(g)
  BY <1>1, PhaseFacts
<1>3. f.active # NoActive => Current(f).state \in Terminal
  BY ActiveFacts DEF Published, Current
<1>4. PhaseOf(f) # "active"
  BY <1>3, PhaseFacts DEF Terminal
<1> QED BY <1>2, <1>4 DEF Published, ScopeAt, ReachedAt

LEMMA GoneIntent ==
    ASSUME SoftwareAssumption, NEW f, NEW g, NEW old, NEW new, FileWell(f, old), FileWell(g, new), Gone(f, g)
    PROVE  /\ PhaseOf(f) # "idle" /\ g.desired = 0 /\ PhaseOf(g) = "idle" /\ ScopeAt(g) = {}
           /\ ReachedAt(g) = {}
<1>1. PhaseOf(g) = "idle" /\ ~Working(g)
  BY PhaseFacts DEF Gone
<1>2. PhaseOf(f) # "idle"
  BY PhaseFacts DEF Gone, Terminal
<1> QED BY <1>1, <1>2 DEF Gone, ScopeAt, ReachedAt

(* The refinement mapping, in those terms *)
LEMMA Mapping ==
    /\ Phase = PhaseOf(file) /\ Scope = ScopeAt(file) /\ Reached = ReachedAt(file)
    /\ Phase' = PhaseOf(file') /\ Scope' = ScopeAt(file') /\ Reached' = ReachedAt(file')
<1>1. Phase = PhaseOf(file) /\ Phase' = PhaseOf(file')
  BY DEF Phase, PhaseOf
<1>2. Reporting = Working(file) /\ Reporting' = Working(file')
  BY <1>1 DEF Reporting, Working
<1>3. Scope = ScopeAt(file) /\ Scope' = ScopeAt(file')
  BY <1>2 DEF ScopeAt, ScopeOf, Scope, Rows
<1>4. Reached = ReachedAt(file) /\ Reached' = ReachedAt(file')
  BY <1>2 DEF ReachedAt, ReachedOf, Reached, Rows
<1> QED BY <1>1, <1>3, <1>4

LEMMA IntentBegins == Init => Intent!IntentInit
<1> SUFFICES ASSUME Init PROVE Intent!IntentInit
  OBVIOUS
<1>1. Phase = "idle" /\ file.desired = 0
  BY DEF Init, ControllerInit, Phase
<1>2. SiteReal = [p \in Places |-> 0]
  <2>1. ASSUME NEW p \in Places PROVE Ran(p[1], p[2]) = 0
    <3>1. p[1] \in Macs /\ (p[2] = "hub" \/ p[2] \in Fittings)
      BY DEF Places, Components
    <3> QED BY <3>1 DEF Ran, Running, Init, SoftwareInit
  <2> QED BY <2>1 DEF SiteReal
<1>3. Scope = {} /\ Reached = {}
  BY <1>1 DEF Scope, Reached, Reporting
<1> QED BY <1>1, <1>2, <1>3 DEF Intent!IntentInit

LEMMA SiteFacts ==
    ASSUME SoftwareTypes, NEW p \in Places
    PROVE  SiteReal[p] = Real[p[1]][p[2]] /\ SiteReal'[p] = Real'[p[1]][p[2]] /\ p[1] \in Macs
           /\ p[2] \in Components
<1>1. p[1] \in Macs /\ p[2] \in Components
  BY DEF Places
<1> QED BY <1>1 DEF SiteReal, Real

(* Every step of the fleet is a step of the intent, or a stutter. *)
LEMMA IntentSteps ==
    ASSUME IInv, IInv', [Next]_vars
    PROVE  Intent!IntentNext
<1> DEFINE f == file
           g == file'
<1>1. Course(f, g) /\ Above(Real', Real)
  BY NextWell, StepKeeps DEF StepWell, ControllerNext, Rises
<1>2. FileWell(f, Real) /\ SoftwareTypes
  BY WellFile DEF IInv, ControllerWell
<1>3. FileWell(g, Real')
  BY DEF IInv, ControllerWell, ControlWell
<1>4. Intent!Advance
  <2>1. ASSUME NEW p \in Places PROVE SiteReal'[p] >= SiteReal[p]
    BY <1>1, <1>2, SiteFacts DEF Above
  <2> QED BY <2>1 DEF Intent!Advance
<1>5. g.active # NoActive => Intent!Works \/ g.desired # f.desired
  <2> SUFFICES ASSUME g.active # NoActive, g.desired = f.desired PROVE Intent!Works
    OBVIOUS
  <2> DEFINE real == Real'
  <2>1. FileWell(g, real)
    BY <1>3
  <2> HIDE DEF real
  <2>2. /\ ScopeAt(g) \subseteq Places /\ ReachedAt(g) \subseteq ScopeAt(g)
        /\ \A p \in ReachedAt(g) : real[p[1]][p[2]] >= g.desired
        /\ PhaseOf(g) \in {"active", "complete", "blocked"}
        /\ PhaseOf(g) = "complete" => ReachedAt(g) = ScopeAt(g)
    BY <2>1, ReportsWell, SoftwareAssumption
  <2>3. \A p \in ReachedAt(g) : SiteReal'[p] >= file.desired
    BY <1>2, <2>2, SiteFacts DEF real
  <2> QED BY <2>2, <2>3, Mapping DEF Intent!Works, Intent!Settled
<1> DEFINE old == Real
           new == Real'
<1>6. FileWell(f, old) /\ FileWell(g, new)
  BY <1>2, <1>3
<1> HIDE DEF old, new
<1>7. CASE Keeps(f, g)
  <2>1. /\ g.desired = f.desired
        /\ \/ PhaseOf(f) = "active" /\ g.active # NoActive
           \/ PhaseOf(g) = PhaseOf(f) /\ ScopeAt(g) = ScopeAt(f) /\ ReachedAt(g) = ReachedAt(f)
    BY <1>6, <1>7, KeepsIntent, SoftwareAssumption
  <2>2. Intent!Progress \/ Intent!Rest
    BY <1>5, <2>1, Mapping DEF Intent!Progress, Intent!Rest
  <2> QED BY <1>4, <2>1, <2>2 DEF Intent!IntentNext
<1>8. CASE Grown(f, g)
  <2>1. /\ g.desired = f.desired /\ g.active # NoActive /\ PhaseOf(f) = "complete" /\ PhaseOf(g) = "active"
        /\ ScopeAt(f) \subseteq ScopeAt(g) /\ ScopeAt(g) # ScopeAt(f)
    BY <1>6, <1>8, GrownIntent, SoftwareAssumption
  <2>2. Intent!Grow
    BY <1>5, <2>1, Mapping DEF Intent!Grow
  <2> QED BY <1>4, <2>1, <2>2 DEF Intent!IntentNext
<1>9. CASE Opened(f, g)
  <2>1. /\ g.desired = f.desired /\ g.active # NoActive /\ PhaseOf(f) = "published" /\ PhaseOf(g) = "active"
        /\ ReachedAt(g) = {}
    BY <1>6, <1>9, OpenedIntent, SoftwareAssumption
  <2>2. Intent!ActivateIntent
    BY <1>5, <2>1, Mapping DEF Intent!ActivateIntent
  <2> QED BY <1>4, <2>1, <2>2 DEF Intent!IntentNext
<1>10. CASE Published(f, g)
  <2>1. /\ g.desired > f.desired /\ PhaseOf(f) # "active" /\ PhaseOf(g) = "published"
        /\ ScopeAt(g) = {} /\ ReachedAt(g) = {}
    BY <1>6, <1>10, PublishedIntent, SoftwareAssumption
  <2>2. Intent!PublishIntent
    BY <2>1, Mapping DEF Intent!PublishIntent
  <2> QED BY <1>4, <2>2 DEF Intent!IntentNext
<1>11. CASE Gone(f, g)
  <2>1. PhaseOf(f) # "idle" /\ g.desired = 0 /\ PhaseOf(g) = "idle" /\ ScopeAt(g) = {} /\ ReachedAt(g) = {}
    BY <1>6, <1>11, GoneIntent, SoftwareAssumption
  <2>2. Intent!WithdrawIntent
    BY <2>1, Mapping DEF Intent!WithdrawIntent
  <2> QED BY <1>4, <2>2 DEF Intent!IntentNext
<1> QED BY <1>1, <1>7, <1>8, <1>9, <1>10, <1>11 DEF Course

(* The Controller, the Agents and the updaters together implement the intent  *)
(* of a release: what GenStudio is told moves only as an intent may.          *)
THEOREM IntentIsImplemented == Spec => ImplementsIntent
<1>1. IInv /\ IInv' /\ [Next]_vars => Intent!IntentNext
  BY IntentSteps
<1> QED BY <1>1, IntentBegins, Invariance, PTL DEF Spec, ImplementsIntent, Intent!IntentSpec
=============================================================================
