--------------------------- MODULE Suspensions_proofs ---------------------------
(***************************************************************************)
(* Proofs about Suspensions, for every length of the clock, every policy   *)
(* history, every set of hours and notes and any number of suspensions by  *)
(* staff.                                                                  *)
(*                                                                         *)
(* Sound(f) -- the file is well-formed and every suspension is earned --   *)
(* is kept by each stage of a reconciliation and by each operation after   *)
(* it, so it is inductive as it stands.  There are two kinds of change:    *)
(* those that extend the file (Extends) and those that begin a suspension  *)
(* (Begun).                                                                *)
(***************************************************************************)
EXTENDS Suspensions, FiniteSetTheorems, SequenceTheorems, TLAPS

Sound(f) == FileOK(f) /\ Earned(f)

\* g has f's suspensions, with other ends perhaps, and f's violations, some
\* voided since, and unspent new ones.
Extends(f, g) ==
  /\ g.held \subseteq Hours
  /\ DOMAIN f.violations \subseteq DOMAIN g.violations
  /\ DOMAIN g.violations \subseteq Hours \cup Notes
  /\ g.violations \in [DOMAIN g.violations -> ViolationType]
  /\ \A k \in DOMAIN f.violations :
       /\ g.violations[k].consumer = f.violations[k].consumer
       /\ g.violations[k].occurred = f.violations[k].occurred
       /\ g.violations[k].expires = f.violations[k].expires
       /\ g.violations[k].counts = f.violations[k].counts
  /\ \A k \in DOMAIN g.violations \ DOMAIN f.violations : g.violations[k].consumer = 0
  /\ DOMAIN g.suspensions = DOMAIN f.suspensions
  /\ \A i \in DOMAIN f.suspensions :
       /\ g.suspensions[i] \in SuspensionType
       /\ g.suspensions[i].starts = f.suspensions[i].starts
       /\ g.suspensions[i].source = f.suspensions[i].source
       /\ g.suspensions[i].needed = f.suspensions[i].needed
       /\ g.suspensions[i].consumed = f.suspensions[i].consumed
       /\ g.suspensions[i].ends # NoEnd => g.suspensions[i].starts < g.suspensions[i].ends
       /\ g.suspensions[i].source = "AUTO" => g.suspensions[i].ends # NoEnd
  /\ g.suspensions \in [1..Len(f.suspensions) -> SuspensionType]

\* The policy in force is a policy.
LEMMA PolicyType ==
  ASSUME version \in DOMAIN Versions
  PROVE  policy.threshold \in Nat \ {0} /\ policy.window \in Nat \ {0} /\ policy.days \in Nat \ {0}
<1>1. policy \in Policies
  <2> HIDE DEF Policies
  <2> QED BY SuspensionsAssumption DEF policy
<1> QED BY <1>1 DEF Policies

\* What a sound file is made of.
LEMMA SoundType ==
  ASSUME NEW f, Sound(f)
  PROVE  /\ f.held \subseteq Hours
         /\ DOMAIN f.violations \subseteq Hours \cup Notes
         /\ f.violations \in [DOMAIN f.violations -> ViolationType]
         /\ f.suspensions \in [1..Len(f.suspensions) -> SuspensionType]
         /\ f.suspensions \in Seq(SuspensionType)
         /\ \A i \in DOMAIN f.suspensions :
              /\ f.suspensions[i] \in SuspensionType
              /\ f.suspensions[i].ends # NoEnd =>
                   f.suspensions[i].starts < f.suspensions[i].ends
              /\ f.suspensions[i].source = "AUTO" => f.suspensions[i].ends # NoEnd
BY DEF Sound, FileOK

\* Extending a file keeps it sound.
LEMMA Kept ==
  ASSUME NEW f, NEW g, Sound(f), Extends(f, g)
  PROVE  Sound(g)
<1>1. /\ Len(f.suspensions) \in Nat
      /\ DOMAIN f.suspensions = 1..Len(f.suspensions)
  BY DEF Sound, FileOK
<1>2. g.suspensions \in Seq(SuspensionType) /\ Len(g.suspensions) = Len(f.suspensions)
  BY <1>1 DEF Extends
<1>3. \A k \in DOMAIN g.violations : g.violations[k].consumer \in 0..Len(g.suspensions)
  BY <1>1, <1>2 DEF Extends, Sound, FileOK
<1>4. FileOK(g)
  BY <1>1, <1>2, <1>3 DEF FileOK, Extends
<1>5. ASSUME NEW i \in DOMAIN g.suspensions
      PROVE  EarnedBy(g, i)
  <2>1. i \in DOMAIN f.suspensions /\ i # 0
    BY <1>1 DEF Extends
  <2>2. Spent(g, i) = Spent(f, i)
    BY <2>1 DEF Spent, Extends
  <2>3. EarnedBy(f, i)
    BY <2>1 DEF Sound, Earned
  <2>4. Spent(f, i) \subseteq DOMAIN f.violations
    BY DEF Spent
  <2>5. /\ g.suspensions[i].starts = f.suspensions[i].starts
        /\ g.suspensions[i].source = f.suspensions[i].source
        /\ g.suspensions[i].needed = f.suspensions[i].needed
        /\ g.suspensions[i].consumed = f.suspensions[i].consumed
    BY <2>1 DEF Extends
  <2>6. \A k \in Spent(f, i) :
          /\ g.violations[k].occurred = f.violations[k].occurred
          /\ g.violations[k].expires = f.violations[k].expires
          /\ g.violations[k].counts = f.violations[k].counts
    BY <2>4 DEF Extends
  <2> QED BY <2>2, <2>3, <2>5, <2>6 DEF EarnedBy
<1> QED BY <1>4, <1>5 DEF Sound, Earned

\* Spending a violation changes nothing else about it.
LEMMA SpendingType ==
  ASSUME NEW v \in ViolationType, NEW i \in Nat
  PROVE  /\ SpentOn(v, i) \in ViolationType
         /\ SpentOn(v, i).consumer = i
         /\ SpentOn(v, i).occurred = v.occurred
         /\ SpentOn(v, i).expires = v.expires
         /\ SpentOn(v, i).counts = v.counts
BY DEF SpentOn, ViolationType

\* Beginning a suspension that spends eligible strikes keeps the file sound.
LEMMA Begun ==
  ASSUME NEW f, NEW g, Sound(f), now \in Nat,
         NEW end \in Nat, NEW source \in {"AUTO", "MANUAL"}, NEW needed \in Nat,
         NEW spent \in SUBSET Strikes(f, now),
         Cardinality(spent) >= needed,
         end # NoEnd => now < end,
         source = "AUTO" => needed >= 1 /\ end # NoEnd,
         g.held \subseteq Hours,
         g.violations = [k \in DOMAIN f.violations |->
           IF k \in spent THEN SpentOn(f.violations[k], Len(f.suspensions) + 1)
           ELSE f.violations[k]],
         g.suspensions = Append(f.suspensions, Suspension(end, source, needed, spent))
  PROVE  Sound(g)
<1> DEFINE me == Len(f.suspensions) + 1
           new == Suspension(end, source, needed, spent)
<1>1. /\ Len(f.suspensions) \in Nat
      /\ DOMAIN f.suspensions = 1..Len(f.suspensions)
      /\ DOMAIN f.violations \subseteq Hours \cup Notes
      /\ spent \subseteq DOMAIN f.violations
  BY DEF Sound, FileOK, Strikes
<1>2. /\ new \in SuspensionType
      /\ new.starts = now /\ new.ends = end /\ new.source = source
      /\ new.needed = needed /\ new.consumed = spent
  BY <1>1 DEF Suspension, SuspensionType
<1> HIDE DEF new
<1>3. /\ g.suspensions \in Seq(SuspensionType)
      /\ Len(g.suspensions) = me
      /\ g.suspensions[me] = new
      /\ \A i \in DOMAIN f.suspensions : g.suspensions[i] = f.suspensions[i]
      /\ DOMAIN g.suspensions = 1..me
  <2>1. f.suspensions \in Seq(SuspensionType)
    BY DEF Sound, FileOK
  <2>2. g.suspensions = Append(f.suspensions, new)
    BY DEF new
  <2> QED BY <1>1, <1>2, <2>1, <2>2
<1>4. ASSUME NEW k \in DOMAIN g.violations
      PROVE  /\ g.violations[k] \in ViolationType
             /\ k \in spent => g.violations[k].consumer = me
             /\ k \notin spent => g.violations[k].consumer = f.violations[k].consumer
             /\ f.violations[k].consumer # me
             /\ g.violations[k].occurred = f.violations[k].occurred
             /\ g.violations[k].expires = f.violations[k].expires
             /\ g.violations[k].counts = f.violations[k].counts
             /\ f.violations[k].consumer \in 0..Len(f.suspensions)
  <2>1. k \in DOMAIN f.violations /\ f.violations[k] \in ViolationType
        /\ f.violations[k].consumer \in 0..Len(f.suspensions)
        /\ f.violations[k].consumer # me
    BY <1>1 DEF Sound, FileOK
  <2>2. /\ SpentOn(f.violations[k], me) \in ViolationType
        /\ SpentOn(f.violations[k], me).consumer = me
        /\ SpentOn(f.violations[k], me).occurred = f.violations[k].occurred
        /\ SpentOn(f.violations[k], me).expires = f.violations[k].expires
        /\ SpentOn(f.violations[k], me).counts = f.violations[k].counts
    <3>1. me \in Nat
      BY <1>1
    <3> HIDE DEF me
    <3> QED BY <2>1, <3>1, SpendingType
  <2> QED BY <2>1, <2>2
<1>5. DOMAIN g.violations = DOMAIN f.violations
  BY <1>1
<1>6. FileOK(g)
  <2>1. \A k \in DOMAIN g.violations : g.violations[k].consumer \in 0..Len(g.suspensions)
    <3>1. \A k \in DOMAIN g.violations :
             g.violations[k].consumer \in 0..Len(f.suspensions) \cup {me}
      BY <1>4
    <3>2. 0..Len(g.suspensions) = 0..Len(f.suspensions) \cup {me}
      BY <1>1, <1>3
    <3> HIDE DEF me
    <3> QED BY <3>1, <3>2
  <2>2. ASSUME NEW i \in DOMAIN g.suspensions
        PROVE  /\ g.suspensions[i].ends # NoEnd => g.suspensions[i].starts < g.suspensions[i].ends
               /\ g.suspensions[i].source = "AUTO" => g.suspensions[i].ends # NoEnd
    <3>1. CASE i = me
      BY <3>1, <1>2, <1>3
    <3>2. CASE i # me
      <4>1. i \in DOMAIN f.suspensions
        BY <3>2, <1>1, <1>3
      <4> QED BY <4>1, <1>3 DEF Sound, FileOK
    <3> QED BY <3>1, <3>2
  <2> QED BY <1>1, <1>3, <1>4, <1>5, <2>1, <2>2 DEF FileOK
<1>7. ASSUME NEW i \in DOMAIN g.suspensions
      PROVE  EarnedBy(g, i)
  <2>1. CASE i = me
    <3>1. Spent(g, i) = spent
      <4> HIDE DEF me
      <4> QED BY <2>1, <1>1, <1>4, <1>5 DEF Spent
    <3>2. \A k \in spent : f.violations[k].counts /\ f.violations[k].occurred <= now
                           /\ now < f.violations[k].expires
      BY DEF Strikes, EligibleStrike
    <3> QED BY <2>1, <1>1, <1>2, <1>3, <1>4, <1>5, <3>1, <3>2 DEF EarnedBy
  <2>2. CASE i # me
    <3>1. i \in DOMAIN f.suspensions /\ i # 0
      BY <2>2, <1>1, <1>3
    <3>2. \A k \in spent : f.violations[k].consumer = 0
      BY DEF Strikes, EligibleStrike, None
    <3>3. Spent(g, i) = Spent(f, i)
      BY <2>2, <3>1, <3>2, <1>4, <1>5 DEF Spent
    <3>4. EarnedBy(f, i)
      BY <3>1 DEF Sound, Earned
    <3>5. Spent(f, i) \subseteq DOMAIN g.violations
      BY <1>5 DEF Spent
    <3> QED BY <3>1, <3>3, <3>4, <3>5, <1>3, <1>4 DEF EarnedBy
  <2> QED BY <2>1, <2>2
<1> QED BY <1>6, <1>7 DEF Sound, Earned

\* Recording no-shows adds unspent strikes and rewrites none.
LEMMA NoShowsSound ==
  ASSUME NEW f, Sound(f), now \in Nat, version \in DOMAIN Versions
  PROVE  Sound(NoShows(f)) /\ NoShows(f).suspensions = f.suspensions
<1> DEFINE g == NoShows(f)
           due == {d \in f.held : Deadline(d) <= now}
<1>1. /\ g.held = f.held \ due
      /\ g.violations = [k \in DOMAIN f.violations \cup due |->
                           IF k \in DOMAIN f.violations THEN f.violations[k]
                           ELSE Violation(Deadline(k), TRUE)]
      /\ g.suspensions = f.suspensions
  BY DEF NoShows, File
<1> HIDE DEF g
<1>2. /\ f.held \subseteq Hours
      /\ DOMAIN f.violations \subseteq Hours \cup Notes
      /\ f.violations \in [DOMAIN f.violations -> ViolationType]
      /\ f.suspensions \in [1..Len(f.suspensions) -> SuspensionType]
      /\ \A i \in DOMAIN f.suspensions :
           /\ f.suspensions[i] \in SuspensionType
           /\ f.suspensions[i].ends # NoEnd => f.suspensions[i].starts < f.suspensions[i].ends
           /\ f.suspensions[i].source = "AUTO" => f.suspensions[i].ends # NoEnd
  BY SoundType
<1>3. \A k \in due : Violation(Deadline(k), TRUE) \in ViolationType
                     /\ Violation(Deadline(k), TRUE).consumer = 0
  <2>1. \A k \in due : k \in Nat /\ Deadline(k) \in Nat
    <3>1. Hours \subseteq Nat
      BY SuspensionsAssumption
    <3>2. \A k \in due : k \in Nat
      BY <1>2, <3>1
    <3> HIDE DEF due
    <3> QED BY <3>2 DEF Deadline
  <2>2. policy.window \in Nat
    BY PolicyType
  <2> QED BY <2>1, <2>2 DEF Violation, ViolationType, None
<1> HIDE DEF due
<1>4. /\ DOMAIN g.violations = DOMAIN f.violations \cup due
      /\ \A k \in DOMAIN f.violations : g.violations[k] = f.violations[k]
      /\ \A k \in due \ DOMAIN f.violations : g.violations[k] = Violation(Deadline(k), TRUE)
  BY <1>1
<1>5. due \subseteq Hours
  BY <1>2 DEF due
<1>6. g.violations \in [DOMAIN g.violations -> ViolationType]
  <2>1. \A k \in DOMAIN g.violations : g.violations[k] \in ViolationType
    BY <1>2, <1>3, <1>4
  <2>2. g.violations = [k \in DOMAIN g.violations |-> g.violations[k]]
    BY <1>1
  <2> QED BY <2>1, <2>2
<1>7. Extends(f, g)
  BY <1>1, <1>2, <1>3, <1>4, <1>5, <1>6 DEF Extends
<1> QED BY <1>1, <1>7, Kept DEF g

\* The automatic suspension spends what it rests on.
LEMMA ThresholdsSound ==
  ASSUME NEW f, Sound(f), now \in Nat, version \in DOMAIN Versions
  PROVE  Sound(Thresholds(f))
<1>1. CASE InForce(f, now) = {} /\ Cardinality(Strikes(f, now)) >= policy.threshold
  <2> DEFINE g == AutomaticSuspension(f)
             spent == Strikes(f, now)
  <2>1. /\ g.held = {}
        /\ g.violations = [k \in DOMAIN f.violations |->
             IF k \in spent THEN SpentOn(f.violations[k], Len(f.suspensions) + 1)
             ELSE f.violations[k]]
        /\ g.suspensions = Append(f.suspensions,
             Suspension(now + policy.days, "AUTO", policy.threshold, spent))
    BY DEF AutomaticSuspension, File
  <2>2. /\ now + policy.days \in Nat /\ now < now + policy.days
        /\ now + policy.days # NoEnd
        /\ policy.threshold \in Nat /\ policy.threshold >= 1
    BY PolicyType DEF NoEnd
  <2> HIDE DEF g
  <2>3. Sound(g)
    BY <1>1, <2>1, <2>2, Begun
  <2> QED BY <1>1, <2>3 DEF g, Thresholds
<1>2. CASE ~(InForce(f, now) = {} /\ Cardinality(Strikes(f, now)) >= policy.threshold)
  BY <1>2 DEF Thresholds
<1> QED BY <1>1, <1>2

\* Announcing what is over only marks it.
LEMMA FinishedSound ==
  ASSUME NEW f, Sound(f)
  PROVE  Sound(Finished(f))
<1> DEFINE g == Finished(f)
           over == {i \in DOMAIN f.suspensions :
                      LET s == f.suspensions[i]
                      IN  ~s.lifted /\ s.ends # NoEnd /\ s.ends <= now /\ ~s.endNotified}
<1>1. /\ g.held = f.held
      /\ g.violations = f.violations
      /\ g.suspensions = [i \in DOMAIN f.suspensions |->
              [f.suspensions[i] EXCEPT !.endNotified = @ \/ i \in over]]
  BY DEF Finished, File
<1> HIDE DEF g, over
<1>2. ASSUME NEW i \in DOMAIN f.suspensions
      PROVE  /\ g.suspensions[i] \in SuspensionType
             /\ g.suspensions[i].starts = f.suspensions[i].starts
             /\ g.suspensions[i].source = f.suspensions[i].source
             /\ g.suspensions[i].needed = f.suspensions[i].needed
             /\ g.suspensions[i].consumed = f.suspensions[i].consumed
             /\ g.suspensions[i].ends = f.suspensions[i].ends
  <2>1. f.suspensions[i] \in SuspensionType
    BY SoundType
  <2>2. g.suspensions[i] = [f.suspensions[i] EXCEPT !.endNotified = @ \/ i \in over]
    BY <1>1
  <2> QED BY <2>1, <2>2 DEF SuspensionType
<1>3. DOMAIN f.suspensions = 1..Len(f.suspensions)
  BY SoundType
<1>4. g.suspensions \in [1..Len(f.suspensions) -> SuspensionType]
  BY <1>1, <1>2, <1>3
<1>5. Extends(f, g)
  BY <1>1, <1>2, <1>3, <1>4, SoundType DEF Extends
<1> QED BY <1>5, Kept DEF g

\* Announcing changes nothing about who is suspended.
LEMMA FinishedForce ==
  ASSUME NEW f, Sound(f)
  PROVE  /\ InForce(Finished(f), now) = InForce(f, now)
         /\ Len(Finished(f).suspensions) = Len(f.suspensions)
         /\ Finished(f).violations = f.violations
         /\ Finished(f).held = f.held
<1> DEFINE g == Finished(f)
           over == {i \in DOMAIN f.suspensions :
                      LET s == f.suspensions[i]
                      IN  ~s.lifted /\ s.ends # NoEnd /\ s.ends <= now /\ ~s.endNotified}
<1>1. g.violations = f.violations /\ g.held = f.held
  BY DEF Finished, File
<1>2. g.suspensions = [i \in DOMAIN f.suspensions |->
              [f.suspensions[i] EXCEPT !.endNotified = @ \/ i \in over]]
  BY DEF Finished, File
<1> HIDE DEF g, over
<1>3. ASSUME NEW i \in DOMAIN f.suspensions
      PROVE  Active(g.suspensions[i], now) <=> Active(f.suspensions[i], now)
  <2>1. f.suspensions[i] \in SuspensionType
    BY SoundType
  <2>2. g.suspensions[i] = [f.suspensions[i] EXCEPT !.endNotified = @ \/ i \in over]
    BY <1>2
  <2>3. /\ g.suspensions[i].lifted = f.suspensions[i].lifted
        /\ g.suspensions[i].starts = f.suspensions[i].starts
        /\ g.suspensions[i].ends = f.suspensions[i].ends
    BY <2>1, <2>2 DEF SuspensionType
  <2> QED BY <2>3 DEF Active
<1>4. Len(f.suspensions) \in Nat /\ DOMAIN f.suspensions = 1..Len(f.suspensions)
  BY SoundType
<1>5. DOMAIN g.suspensions = DOMAIN f.suspensions
  BY <1>2
<1>6. Len(g.suspensions) = Len(f.suspensions)
  BY <1>4, <1>5
<1> QED BY <1>1, <1>3, <1>5, <1>6 DEF InForce, g

\* A reconciliation keeps the file sound.
LEMMA ReconciledSound ==
  ASSUME Sound(file), now \in Nat, version \in DOMAIN Versions
  PROVE  Sound(Reconciled)
<1>1. Sound(NoShows(file))
  BY NoShowsSound
<1>2. Sound(Thresholds(NoShows(file)))
  BY <1>1, ThresholdsSound
<1> QED BY <1>2, FinishedSound DEF Reconciled

\* A file with other hours is as sound.
LEMMA HeldSound ==
  ASSUME NEW f, NEW held \in SUBSET Hours, NEW notices, Sound(f)
  PROVE  Sound(File(held, f.violations, f.suspensions, notices))
<1> DEFINE g == File(held, f.violations, f.suspensions, notices)
<1>1. g.held = held /\ g.violations = f.violations /\ g.suspensions = f.suspensions
  BY DEF File
<1> HIDE DEF g
<1>2. Extends(f, g)
  BY <1>1, SoundType DEF Extends
<1> QED BY <1>2, Kept DEF g

\* A change of one suspension that keeps what it was begun with.
LEMMA AmendedSound ==
  ASSUME NEW f, Sound(f), NEW i \in DOMAIN f.suspensions, NEW s \in SuspensionType, NEW notices,
         s.starts = f.suspensions[i].starts, s.source = f.suspensions[i].source,
         s.needed = f.suspensions[i].needed, s.consumed = f.suspensions[i].consumed,
         s.ends # NoEnd => s.starts < s.ends,
         s.source = "AUTO" => s.ends # NoEnd
  PROVE  Sound(File(f.held, f.violations, [f.suspensions EXCEPT ![i] = s], notices))
<1> DEFINE g == File(f.held, f.violations, [f.suspensions EXCEPT ![i] = s], notices)
<1>1. /\ g.held = f.held
      /\ g.violations = f.violations
      /\ g.suspensions = [f.suspensions EXCEPT ![i] = s]
  BY DEF File
<1> HIDE DEF g
<1>2. g.suspensions \in [1..Len(f.suspensions) -> SuspensionType]
  BY <1>1, SoundType
<1>3. \A j \in DOMAIN f.suspensions :
        g.suspensions[j] = IF j = i THEN s ELSE f.suspensions[j]
  BY <1>1, SoundType
<1>4. Extends(f, g)
  BY <1>1, <1>2, <1>3, SoundType DEF Extends
<1> QED BY <1>4, Kept DEF g

\* Another end.
LEMMA AdjustedSound ==
  ASSUME NEW f, Sound(f), NEW i \in DOMAIN f.suspensions, NEW end \in Nat,
         Adjustable(f, i, end)
  PROVE  Sound(Adjusted(f, i, end))
<1> DEFINE s == [f.suspensions[i] EXCEPT !.ends = end, !.endNotified = FALSE]
<1>1. f.suspensions[i] \in SuspensionType
  BY SoundType
<1>2. /\ s \in SuspensionType
      /\ s.starts = f.suspensions[i].starts /\ s.source = f.suspensions[i].source
      /\ s.needed = f.suspensions[i].needed /\ s.consumed = f.suspensions[i].consumed
      /\ s.ends = end
  BY <1>1 DEF SuspensionType
<1>3. (end # NoEnd => s.starts < end) /\ (s.source = "AUTO" => end # NoEnd)
  BY <1>1, <1>2 DEF Adjustable, SuspensionType, NoEnd
<1>4. Adjusted(f, i, end)
        = File(f.held, f.violations, [f.suspensions EXCEPT ![i] = s], f.notices)
  BY DEF Adjusted
<1> HIDE DEF s
<1> QED BY <1>2, <1>3, <1>4, AmendedSound

\* Lifting.
LEMMA LiftedSound ==
  ASSUME NEW f, Sound(f), NEW i \in DOMAIN f.suspensions, NEW notices
  PROVE  Sound(File(f.held, f.violations, [f.suspensions EXCEPT ![i].lifted = TRUE], notices))
<1> DEFINE s == [f.suspensions[i] EXCEPT !.lifted = TRUE]
<1>1. /\ f.suspensions[i] \in SuspensionType
      /\ f.suspensions[i].ends # NoEnd => f.suspensions[i].starts < f.suspensions[i].ends
      /\ f.suspensions[i].source = "AUTO" => f.suspensions[i].ends # NoEnd
  BY SoundType
<1>2. /\ s \in SuspensionType
      /\ s.starts = f.suspensions[i].starts /\ s.source = f.suspensions[i].source
      /\ s.needed = f.suspensions[i].needed /\ s.consumed = f.suspensions[i].consumed
      /\ s.ends = f.suspensions[i].ends
  BY <1>1 DEF SuspensionType
<1>3. [f.suspensions EXCEPT ![i].lifted = TRUE] = [f.suspensions EXCEPT ![i] = s]
  OBVIOUS
<1> HIDE DEF s
<1> QED BY <1>1, <1>2, <1>3, AmendedSound

\* Voiding.
LEMMA VoidedSound ==
  ASSUME NEW f, Sound(f), NEW k \in DOMAIN f.violations, NEW notices
  PROVE  Sound(File(f.held, [f.violations EXCEPT ![k].voided = TRUE], f.suspensions, notices))
<1> DEFINE g == File(f.held, [f.violations EXCEPT ![k].voided = TRUE], f.suspensions, notices)
<1>0. g.held = f.held /\ g.suspensions = f.suspensions
  BY DEF File
<1>1. g.violations = [f.violations EXCEPT ![k].voided = TRUE]
  BY DEF File
<1> HIDE DEF g
<1>2. ASSUME NEW j \in DOMAIN f.violations
      PROVE  /\ g.violations[j] \in ViolationType
             /\ g.violations[j].consumer = f.violations[j].consumer
             /\ g.violations[j].occurred = f.violations[j].occurred
             /\ g.violations[j].expires = f.violations[j].expires
             /\ g.violations[j].counts = f.violations[j].counts
  <2>1. f.violations[j] \in ViolationType
    BY SoundType
  <2>2. g.violations[j] = IF j = k THEN [f.violations[j] EXCEPT !.voided = TRUE]
                          ELSE f.violations[j]
    BY <1>1
  <2> QED BY <2>1, <2>2 DEF ViolationType
<1>3. DOMAIN g.violations = DOMAIN f.violations
  BY <1>1
<1>4. g.violations \in [DOMAIN g.violations -> ViolationType]
  BY <1>1, <1>2, <1>3
<1>5. Extends(f, g)
  BY <1>0, <1>2, <1>3, <1>4, SoundType DEF Extends
<1> QED BY <1>5, Kept DEF g

\* A violation staff record, under a note not used before.
LEMMA RecordedSound ==
  ASSUME NEW f, Sound(f), NEW n \in Notes, NEW counts \in BOOLEAN,
         n \notin DOMAIN f.violations, now \in Nat, version \in DOMAIN Versions
  PROVE  Sound(File(f.held, [k \in DOMAIN f.violations \cup {n} |->
                              IF k = n THEN Violation(now, counts) ELSE f.violations[k]],
                    f.suspensions, f.notices))
<1> DEFINE g == File(f.held, [k \in DOMAIN f.violations \cup {n} |->
                              IF k = n THEN Violation(now, counts) ELSE f.violations[k]],
                    f.suspensions, f.notices)
<1>0. g.held = f.held /\ g.suspensions = f.suspensions
  BY DEF File
<1>1. g.violations = [k \in DOMAIN f.violations \cup {n} |->
                        IF k = n THEN Violation(now, counts) ELSE f.violations[k]]
  BY DEF File
<1> HIDE DEF g
<1>2. Violation(now, counts) \in ViolationType /\ Violation(now, counts).consumer = 0
  BY PolicyType DEF Violation, ViolationType, None
<1>3. \A j \in DOMAIN f.violations : g.violations[j] = f.violations[j]
  BY <1>1
<1>4. DOMAIN g.violations = DOMAIN f.violations \cup {n} /\ g.violations[n] = Violation(now, counts)
  BY <1>1
<1>5. /\ g.violations \in [DOMAIN g.violations -> ViolationType]
      /\ \A j \in DOMAIN g.violations \ DOMAIN f.violations : g.violations[j].consumer = 0
      /\ DOMAIN g.violations \subseteq Hours \cup Notes
  BY <1>1, <1>2, <1>3, <1>4, SoundType
<1>6. Extends(f, g)
  BY <1>0, <1>3, <1>4, <1>5, SoundType DEF Extends
<1> QED BY <1>6, Kept DEF g

--------------------------------------------------------------------------------
(* The specification.                                                        *)

Inv == now \in Days /\ version \in DOMAIN Versions /\ Sound(file)

\* At the start the file is empty.
LEMMA InitInv == Init => Inv
<1> SUFFICES ASSUME Init PROVE Inv
  OBVIOUS
<1>1. /\ file.held = {} /\ file.violations = << >> /\ file.suspensions = << >>
  BY DEF Init, File
<1>2. now \in Days /\ version \in DOMAIN Versions
  <2> HIDE DEF Policies
  <2>1. Len(Versions) \in Nat /\ Len(Versions) # 0 /\ DOMAIN Versions = 1..Len(Versions)
    BY SuspensionsAssumption, EmptySeq
  <2> QED BY <2>1, SuspensionsAssumption DEF Init, Days
<1>3. FileOK(file)
  BY <1>1 DEF FileOK
<1>4. Earned(file)
  BY <1>1 DEF Earned
<1> QED BY <1>2, <1>3, <1>4 DEF Inv, Sound

\* Every operation keeps the file sound.
LEMMA NextInv == Inv /\ [Next]_vars => Inv'
<1> SUFFICES ASSUME Inv, [Next]_vars PROVE Inv'
  OBVIOUS
<1> DEFINE f == Reconciled
<1>1. /\ now \in Nat /\ version \in DOMAIN Versions /\ Sound(file)
  BY SuspensionsAssumption DEF Inv, Days
<1>2. Sound(f)
  BY <1>1, ReconciledSound
<1> HIDE DEF f
<1>3. ASSUME Elapse PROVE Inv'
  BY <1>3, SuspensionsAssumption DEF Elapse, Inv, Days, Sound, FileOK, Earned, EarnedBy, Spent
<1>4. ASSUME UNCHANGED <<now, version>>, Sound(file') PROVE Inv'
  BY <1>4 DEF Inv, Sound, FileOK, Earned, EarnedBy, Spent, Days
<1>5. ASSUME Tick PROVE Inv'
  BY <1>2, <1>4, <1>5 DEF Tick, f
<1>6. ASSUME NEW d \in Hours, Book(d) PROVE Inv'
  <2>1. f.held \cup {d} \in SUBSET Hours
    BY <1>2, SoundType
  <2>2. file' = File(f.held \cup {d}, f.violations, f.suspensions, f.notices)
    BY <1>6 DEF Book, f
  <2> QED BY <1>2, <1>4, <1>6, <2>1, <2>2, HeldSound DEF Book
<1>7. ASSUME CheckIn PROVE Inv'
  <2>1. f.held \ {now} \in SUBSET Hours
    BY <1>2, SoundType
  <2>2. file' = File(f.held \ {now}, f.violations, f.suspensions, f.notices)
    BY <1>7 DEF CheckIn, f
  <2> QED BY <1>2, <1>4, <1>7, <2>1, <2>2, HeldSound DEF CheckIn
<1>8. ASSUME NEW d \in Hours, Cancel(d) PROVE Inv'
  <2>1. f.held \ {d} \in SUBSET Hours
    BY <1>2, SoundType
  <2>2. file' = File(f.held \ {d}, f.violations, f.suspensions, f.notices)
    BY <1>8 DEF Cancel, f
  <2> QED BY <1>2, <1>4, <1>8, <2>1, <2>2, HeldSound DEF Cancel
<1>9. ASSUME NEW n \in Notes, NEW counts \in BOOLEAN, RecordManual(n, counts) PROVE Inv'
  <2> DEFINE g == File(f.held, [k \in DOMAIN f.violations \cup {n} |->
                              IF k = n THEN Violation(now, counts) ELSE f.violations[k]],
                       f.suspensions, f.notices)
  <2>1. n \notin DOMAIN f.violations /\ file' = Thresholds(g)
    BY <1>9 DEF RecordManual, Recorded, f
  <2>2. Sound(g)
    BY <1>1, <1>2, <2>1, RecordedSound
  <2> HIDE DEF g
  <2>3. Sound(file')
    BY <1>1, <2>1, <2>2, ThresholdsSound
  <2> QED BY <1>4, <1>9, <2>3 DEF RecordManual
<1>10. ASSUME NEW k \in Hours \cup Notes, Void(k) PROVE Inv'
  <2>1. PICK notices : k \in DOMAIN f.violations
          /\ file' = File(f.held, [f.violations EXCEPT ![k].voided = TRUE], f.suspensions, notices)
    BY <1>10 DEF Void, Voided, f
  <2> QED BY <1>2, <1>4, <1>10, <2>1, VoidedSound DEF Void
<1>11. ASSUME NEW end \in Ends, Suspend(end) PROVE Inv'
  <2>0. end \in Nat
    BY SuspensionsAssumption
  <2>1. CASE \E i \in Latest(f, now) : Adjustable(f, i, end) /\ file' = Adjusted(f, i, end)
    <3>1. PICK i \in Latest(f, now) : Adjustable(f, i, end) /\ file' = Adjusted(f, i, end)
      BY <2>1
    <3>2. i \in DOMAIN f.suspensions
      BY DEF Latest, InForce
    <3>3. Sound(file')
      BY <1>2, <2>0, <3>1, <3>2, AdjustedSound
    <3> QED BY <1>4, <1>11, <3>3 DEF Suspend
  <2>2. CASE /\ end # NoEnd => end > now
             /\ file' = File({}, f.violations,
                             Append(f.suspensions, Suspension(end, "MANUAL", 0, {})),
                             f.notices \cup {<<"applied", Len(f.suspensions) + 1>>})
    <3>1. /\ file'.held = {} /\ file'.violations = f.violations
          /\ file'.suspensions = Append(f.suspensions, Suspension(end, "MANUAL", 0, {}))
      BY <2>2 DEF File
    <3>2. f.violations = [k \in DOMAIN f.violations |->
            IF k \in {} THEN SpentOn(f.violations[k], Len(f.suspensions) + 1)
            ELSE f.violations[k]]
      BY <1>2, SoundType
    <3>3. Cardinality({}) >= 0
      BY FS_EmptySet
    <3>4. Sound(file')
      BY <1>1, <1>2, <2>0, <2>2, <3>1, <3>2, <3>3, Begun
    <3> QED BY <1>4, <1>11, <3>4 DEF Suspend
  <2> QED BY <1>11, <2>1, <2>2 DEF Suspend, ManualSuspension, f
<1>12. ASSUME NEW i \in Records, Lift(i) PROVE Inv'
  <2>1. PICK notices : i \in DOMAIN f.suspensions
          /\ file' = File(f.held, f.violations, [f.suspensions EXCEPT ![i].lifted = TRUE], notices)
    BY <1>12 DEF Lift, Lifted, f
  <2> QED BY <1>2, <1>4, <1>12, <2>1, LiftedSound DEF Lift
<1>13. ASSUME NEW i \in Records, NEW end \in Ends, Adjust(i, end) PROVE Inv'
  <2>1. i \in DOMAIN f.suspensions /\ Adjustable(f, i, end) /\ file' = Adjusted(f, i, end)
    BY <1>13 DEF Adjust, f
  <2>2. end \in Nat
    BY SuspensionsAssumption
  <2>3. Sound(file')
    BY <1>2, <2>1, <2>2, AdjustedSound
  <2> QED BY <1>4, <1>13, <2>3 DEF Adjust
<1>14. ASSUME CreatePolicyVersion PROVE Inv'
  <2>1. Sound(file')
    BY <1>2, <1>14 DEF CreatePolicyVersion, f
  <2>2. version' \in DOMAIN Versions
    <3> HIDE DEF Policies
    <3>1. Len(Versions) \in Nat /\ DOMAIN Versions = 1..Len(Versions)
      BY SuspensionsAssumption
    <3> QED BY <1>1, <1>14, <3>1 DEF CreatePolicyVersion
  <2> QED BY <1>14, <2>1, <2>2 DEF CreatePolicyVersion, Inv, Days, Sound, FileOK, Earned, EarnedBy, Spent
<1>15. CASE UNCHANGED vars
  BY <1>1, <1>4, <1>15 DEF vars, Sound, FileOK, Earned, EarnedBy, Spent
<1> QED
  BY <1>3, <1>5, <1>6, <1>7, <1>8, <1>9, <1>10, <1>11, <1>12, <1>13, <1>14, <1>15 DEF Next

THEOREM Invariance == Spec => []Inv
BY InitInv, NextInv, PTL DEF Spec

\* Whatever the calendar, the policies and the staff do, the file is well
\* typed: consumers are suspensions on the file, ends come after starts.
THEOREM TypeCorrect == Spec => []TypeOK
<1>1. Inv => TypeOK
  BY DEF Inv, TypeOK, Sound
<1> QED BY <1>1, Invariance, PTL

\* Every automatic suspension rests on enough live strikes of its own, for
\* good.
THEOREM EarnedSanctions == Spec => []SanctionsAreEarned
<1>1. Inv => SanctionsAreEarned
  BY DEF Inv, SanctionsAreEarned, Sound
<1> QED BY <1>1, Invariance, PTL

--------------------------------------------------------------------------------
(* The action properties.                                                    *)

\* A reconciliation begins no suspension while one is in force.
LEMMA ReconciledInForce ==
  ASSUME Sound(file), now \in Nat, version \in DOMAIN Versions, InForce(file, now) # {}
  PROVE  /\ Len(Reconciled.suspensions) = Len(file.suspensions)
         /\ InForce(Reconciled, now) # {}
<1> DEFINE g == NoShows(file)
<1>1. Sound(g) /\ g.suspensions = file.suspensions
  BY NoShowsSound
<1>2. InForce(g, now) # {}
  BY <1>1 DEF InForce
<1>3. Thresholds(g) = g
  BY <1>2 DEF Thresholds
<1>4. Reconciled = Finished(g)
  BY <1>3 DEF Reconciled
<1> HIDE DEF g
<1>5. InForce(Finished(g), now) = InForce(g, now) /\ Len(Finished(g).suspensions) = Len(g.suspensions)
  BY <1>1, FinishedForce
<1> QED BY <1>1, <1>2, <1>4, <1>5

\* No second suspension while one is in force.
THEOREM NoneStacked == Spec => NeverStacked
<1> DEFINE A == InForce(file, now) # {} => Len(file'.suspensions) = Len(file.suspensions)
<1>1. ASSUME Inv, [Next]_vars, InForce(file, now) # {}
      PROVE  Len(file'.suspensions) = Len(file.suspensions)
  <2> DEFINE f == Reconciled
  <2>1. now \in Nat /\ version \in DOMAIN Versions /\ Sound(file)
    BY <1>1, SuspensionsAssumption DEF Inv, Days
  <2>2. Sound(f) /\ Len(f.suspensions) = Len(file.suspensions) /\ InForce(f, now) # {}
    BY <1>1, <2>1, ReconciledInForce, ReconciledSound
  <2> HIDE DEF f
  <2>3. ASSUME file'.suspensions = f.suspensions
        PROVE  Len(file'.suspensions) = Len(file.suspensions)
    BY <2>2, <2>3
  <2>4. CASE Elapse \/ UNCHANGED vars
    BY <2>4 DEF Elapse, vars
  <2>5. CASE Tick \/ CheckIn \/ CreatePolicyVersion
    BY <2>3, <2>5 DEF Tick, CheckIn, CreatePolicyVersion, File, f
  <2>6. ASSUME NEW d \in Hours, Book(d) \/ Cancel(d)
        PROVE  Len(file'.suspensions) = Len(file.suspensions)
    BY <2>3, <2>6 DEF Book, Cancel, File, f
  <2>7. ASSUME NEW n \in Notes, NEW counts \in BOOLEAN, RecordManual(n, counts)
        PROVE  Len(file'.suspensions) = Len(file.suspensions)
    <3> DEFINE g == File(f.held, [k \in DOMAIN f.violations \cup {n} |->
                              IF k = n THEN Violation(now, counts) ELSE f.violations[k]],
                         f.suspensions, f.notices)
    <3>1. file' = Thresholds(g) /\ g.suspensions = f.suspensions
      BY <2>7 DEF RecordManual, Recorded, f, File
    <3> HIDE DEF g
    <3>2. InForce(g, now) # {}
      BY <2>2, <3>1 DEF InForce
    <3> QED BY <2>3, <3>1, <3>2 DEF Thresholds
  <2>8. ASSUME NEW k \in Hours \cup Notes, Void(k)
        PROVE  Len(file'.suspensions) = Len(file.suspensions)
    BY <2>3, <2>8 DEF Void, Voided, File, f
  <2>9. ASSUME NEW i \in DOMAIN f.suspensions, NEW s, NEW held, NEW violations, NEW notices,
               file' = File(held, violations, [f.suspensions EXCEPT ![i] = s], notices)
        PROVE  Len(file'.suspensions) = Len(file.suspensions)
    <3>1. file'.suspensions = [f.suspensions EXCEPT ![i] = s]
      BY <2>9 DEF File
    <3>2. f.suspensions \in Seq(SuspensionType)
      BY <2>2, SoundType
    <3> QED BY <2>2, <3>1, <3>2
  <2>10. ASSUME NEW end \in Ends, Suspend(end)
         PROVE  Len(file'.suspensions) = Len(file.suspensions)
    <3>1. PICK i \in Latest(f, now) : file' = Adjusted(f, i, end)
      BY <2>2, <2>10 DEF Suspend, f
    <3>2. i \in DOMAIN f.suspensions
      BY DEF Latest, InForce
    <3> QED BY <2>9, <3>1, <3>2 DEF Adjusted
  <2>11. ASSUME NEW i \in Records, NEW end \in Ends, Adjust(i, end)
         PROVE  Len(file'.suspensions) = Len(file.suspensions)
    BY <2>9, <2>11 DEF Adjust, Adjusted, f
  <2>12. ASSUME NEW i \in Records, Lift(i)
         PROVE  Len(file'.suspensions) = Len(file.suspensions)
    BY <2>9, <2>12 DEF Lift, Lifted, f
  <2> QED BY <1>1, <2>4, <2>5, <2>6, <2>7, <2>8, <2>10, <2>11, <2>12 DEF Next
<1>2. Inv /\ [Next]_vars => [A]_vars
  BY <1>1
<1> QED BY <1>2, Invariance, PTL DEF Spec, NeverStacked

\* Strikes can be counted.
LEMMA StrikesFinite ==
  ASSUME NEW f, Sound(f)
  PROVE  Cardinality(Strikes(f, now)) \in Nat
<1>1. Strikes(f, now) \subseteq Hours \cup Notes
  BY SoundType DEF Strikes
<1>2. IsFiniteSet(Hours \cup Notes)
  BY SuspensionsAssumption, FS_Union
<1> QED BY <1>1, <1>2, FS_Subset, FS_CardinalityType

\* Whoever is not suspended after a reconciliation is below the threshold.
LEMMA GoodStanding ==
  ASSUME Sound(file), now \in Nat, version \in DOMAIN Versions, InForce(Reconciled, now) = {}
  PROVE  Cardinality(Strikes(Reconciled, now)) < policy.threshold
<1> DEFINE g == NoShows(file)
<1>1. Sound(g) /\ Sound(Thresholds(g))
  BY NoShowsSound, ThresholdsSound
<1>2. Reconciled = Finished(Thresholds(g))
  BY DEF Reconciled
<1> HIDE DEF g
<1>3. /\ InForce(Thresholds(g), now) = {}
      /\ Reconciled.violations = Thresholds(g).violations
  BY <1>1, <1>2, FinishedForce
<1>4. CASE InForce(g, now) = {} /\ Cardinality(Strikes(g, now)) >= policy.threshold
  <2> DEFINE t == AutomaticSuspension(g)
             me == Len(g.suspensions) + 1
             new == Suspension(now + policy.days, "AUTO", policy.threshold, Strikes(g, now))
  <2>1. Thresholds(g) = t
    BY <1>4 DEF Thresholds
  <2>2. t.suspensions = Append(g.suspensions, new)
    BY DEF AutomaticSuspension, File
  <2>3. Active(new, now)
    BY PolicyType DEF Active, Suspension, NoEnd
  <2>4. g.suspensions \in Seq(SuspensionType)
    BY <1>1, SoundType
  <2> HIDE DEF t, new
  <2>5. me \in DOMAIN t.suspensions /\ t.suspensions[me] = new
    BY <2>2, <2>4
  <2>6. me \in InForce(t, now)
    BY <2>3, <2>5 DEF InForce
  <2> QED BY <1>3, <2>1, <2>6
<1>5. CASE ~(InForce(g, now) = {} /\ Cardinality(Strikes(g, now)) >= policy.threshold)
  <2>1. Thresholds(g) = g
    BY <1>5 DEF Thresholds
  <2>2. ~(Cardinality(Strikes(g, now)) >= policy.threshold)
    BY <1>3, <1>5, <2>1
  <2>3. Strikes(Reconciled, now) = Strikes(g, now)
    BY <1>3, <2>1 DEF Strikes
  <2> QED BY <1>1, <2>2, <2>3, StrikesFinite, PolicyType
<1> QED BY <1>4, <1>5

\* Thresholds and announcements hold no hour that was not held.
LEMMA HeldShrinks ==
  ASSUME Sound(file), now \in Nat, version \in DOMAIN Versions
  PROVE  Reconciled.held \subseteq file.held
<1> DEFINE g == NoShows(file)
<1>1. Sound(g) /\ Sound(Thresholds(g)) /\ g.held \subseteq file.held
  BY NoShowsSound, ThresholdsSound DEF NoShows, File
<1>2. Thresholds(g).held \subseteq g.held
  BY DEF Thresholds, AutomaticSuspension, File
<1> HIDE DEF g
<1>3. Finished(Thresholds(g)).held = Thresholds(g).held
  BY <1>1, FinishedForce
<1> QED BY <1>1, <1>2, <1>3 DEF Reconciled, g

\* Only students in good standing book.
THEOREM GoodStandingBooks == Spec => BookersInGoodStanding
<1> DEFINE A == ~(file'.held \subseteq file.held) =>
                  /\ InForce(file', now) = {}
                  /\ Cardinality(Strikes(file', now)) < policy.threshold
<1>1. ASSUME Inv, [Next]_vars PROVE A
  <2> DEFINE f == Reconciled
  <2>1. now \in Nat /\ version \in DOMAIN Versions /\ Sound(file)
    BY <1>1, SuspensionsAssumption DEF Inv, Days
  <2>2. f.held \subseteq file.held
    BY <2>1, HeldShrinks
  <2>3. InForce(f, now) = {} => Cardinality(Strikes(f, now)) < policy.threshold
    BY <2>1, GoodStanding
  <2> HIDE DEF f
  <2>4. CASE Elapse \/ Tick \/ CheckIn \/ CreatePolicyVersion \/ UNCHANGED vars
    <3>1. CASE Elapse \/ UNCHANGED vars
      BY <3>1 DEF Elapse, vars
    <3>2. CASE Tick \/ CreatePolicyVersion
      BY <2>2, <3>2 DEF Tick, CreatePolicyVersion, f
    <3>3. CASE CheckIn
      BY <2>2, <3>3 DEF CheckIn, File, f
    <3> QED BY <2>4, <3>1, <3>2, <3>3
  <2>5. ASSUME NEW d \in Hours, Book(d) PROVE A
    <3>1. /\ InForce(f, now) = {}
          /\ file'.violations = f.violations /\ file'.suspensions = f.suspensions
      BY <2>5 DEF Book, File, f
    <3>2. InForce(file', now) = InForce(f, now) /\ Strikes(file', now) = Strikes(f, now)
      BY <3>1 DEF InForce, Strikes
    <3> QED BY <2>3, <3>1, <3>2
  <2>6. ASSUME NEW d \in Hours, Cancel(d) PROVE A
    BY <2>2, <2>6 DEF Cancel, File, f
  <2>7. ASSUME NEW n \in Notes, NEW counts \in BOOLEAN, RecordManual(n, counts) PROVE A
    <3>1. file'.held \subseteq f.held
      BY <2>7 DEF RecordManual, Recorded, Thresholds, AutomaticSuspension, File, f
    <3> QED BY <2>2, <3>1
  <2>8. ASSUME NEW k \in Hours \cup Notes, Void(k) PROVE A
    BY <2>2, <2>8 DEF Void, Voided, File, f
  <2>9. ASSUME NEW end \in Ends, Suspend(end) PROVE A
    <3>1. file'.held \subseteq f.held
      <4>1. CASE \E i \in Latest(f, now) : Adjustable(f, i, end) /\ file' = Adjusted(f, i, end)
        BY <4>1 DEF Adjusted, File
      <4>2. CASE \E violations, suspensions, notices :
                   file' = File({}, violations, suspensions, notices)
        BY <4>2 DEF File
      <4> QED BY <2>9, <4>1, <4>2 DEF Suspend, ManualSuspension, f
    <3> QED BY <2>2, <3>1
  <2>10. ASSUME NEW i \in Records, Lift(i) PROVE A
    BY <2>2, <2>10 DEF Lift, Lifted, File, f
  <2>11. ASSUME NEW i \in Records, NEW end \in Ends, Adjust(i, end) PROVE A
    BY <2>2, <2>11 DEF Adjust, Adjusted, File, f
  <2> HIDE DEF A
  <2> QED BY <1>1, <2>4, <2>5, <2>6, <2>7, <2>8, <2>9, <2>10, <2>11 DEF Next
<1>2. Inv /\ [Next]_vars => [A]_vars
  BY <1>1
<1> QED BY <1>2, Invariance, PTL DEF Spec, BookersInGoodStanding

--------------------------------------------------------------------------------
(* What the scheduler leaves: nothing unanswered, nothing unannounced.       *)

\* Whatever is marked as announced was announced.
Told(f) ==
  \A i \in DOMAIN f.suspensions :
    f.suspensions[i].endNotified => <<"ended", i>> \in f.notices

LEMMA StillTold ==
  ASSUME NEW f, NEW g, Told(f), f.notices \subseteq g.notices,
         \A i \in DOMAIN g.suspensions :
           g.suspensions[i].endNotified =>
             \/ i \in DOMAIN f.suspensions /\ f.suspensions[i].endNotified
             \/ <<"ended", i>> \in g.notices
  PROVE  Told(g)
BY DEF Told

\* A suspension that begins is not announced as over.
LEMMA BegunTold ==
  ASSUME NEW f, NEW g, Sound(f), Told(f), f.notices \subseteq g.notices,
         NEW end, NEW source, NEW needed, NEW spent,
         g.suspensions = Append(f.suspensions, Suspension(end, source, needed, spent))
  PROVE  Told(g)
<1> DEFINE new == Suspension(end, source, needed, spent)
           me == Len(f.suspensions) + 1
<1>1. ~new.endNotified
  BY DEF Suspension
<1> HIDE DEF new
<1>2. f.suspensions \in Seq(SuspensionType)
  BY SoundType
<1>3. /\ DOMAIN g.suspensions = DOMAIN f.suspensions \cup {me}
      /\ g.suspensions[me] = new
      /\ \A i \in DOMAIN f.suspensions : g.suspensions[i] = f.suspensions[i]
  BY <1>2 DEF new
<1> QED BY <1>1, <1>3, StillTold

LEMMA ThresholdsTold ==
  ASSUME NEW f, Sound(f), Told(f)
  PROVE  Told(Thresholds(f)) /\ f.notices \subseteq Thresholds(f).notices
<1>1. CASE InForce(f, now) = {} /\ Cardinality(Strikes(f, now)) >= policy.threshold
  <2> DEFINE g == AutomaticSuspension(f)
  <2>1. Thresholds(f) = g
    BY <1>1 DEF Thresholds
  <2>2. /\ g.suspensions = Append(f.suspensions,
             Suspension(now + policy.days, "AUTO", policy.threshold, Strikes(f, now)))
        /\ f.notices \subseteq g.notices
    BY DEF AutomaticSuspension, File
  <2> HIDE DEF g
  <2> QED BY <2>1, <2>2, BegunTold
<1>2. CASE ~(InForce(f, now) = {} /\ Cardinality(Strikes(f, now)) >= policy.threshold)
  BY <1>2 DEF Thresholds
<1> QED BY <1>1, <1>2

\* After the last stage every end that has come is announced.
LEMMA FinishedTold ==
  ASSUME NEW f, Sound(f), Told(f)
  PROVE  /\ Told(Finished(f))
         /\ \A i \in DOMAIN Finished(f).suspensions :
              LET s == Finished(f).suspensions[i] IN
              ~s.lifted /\ s.ends # NoEnd /\ s.ends <= now =>
                s.endNotified /\ <<"ended", i>> \in Finished(f).notices
<1> DEFINE g == Finished(f)
           over == {i \in DOMAIN f.suspensions :
                      LET s == f.suspensions[i]
                      IN  ~s.lifted /\ s.ends # NoEnd /\ s.ends <= now /\ ~s.endNotified}
<1>1. /\ g.suspensions = [i \in DOMAIN f.suspensions |->
              [f.suspensions[i] EXCEPT !.endNotified = @ \/ i \in over]]
      /\ g.notices = f.notices \cup {<<"ended", i>> : i \in over}
  BY DEF Finished, File
<1> HIDE DEF g
<1>2. ASSUME NEW i \in DOMAIN f.suspensions
      PROVE  /\ g.suspensions[i].endNotified <=> f.suspensions[i].endNotified \/ i \in over
             /\ g.suspensions[i].lifted = f.suspensions[i].lifted
             /\ g.suspensions[i].ends = f.suspensions[i].ends
  <2>1. f.suspensions[i] \in SuspensionType
    BY SoundType
  <2>2. g.suspensions[i] = [f.suspensions[i] EXCEPT !.endNotified = @ \/ i \in over]
    BY <1>1
  <2> HIDE DEF over
  <2> QED BY <2>1, <2>2 DEF SuspensionType
<1>3. DOMAIN g.suspensions = DOMAIN f.suspensions
  BY <1>1
<1>4. Told(g)
  BY <1>1, <1>2, <1>3 DEF Told
<1>5. ASSUME NEW i \in DOMAIN g.suspensions, ~g.suspensions[i].lifted,
             g.suspensions[i].ends # NoEnd, g.suspensions[i].ends <= now
      PROVE  g.suspensions[i].endNotified
  BY <1>2, <1>3, <1>5
<1> QED BY <1>4, <1>5 DEF Told, g

LEMMA ReconciledTold ==
  ASSUME Sound(file), Told(file), now \in Nat, version \in DOMAIN Versions
  PROVE  /\ Told(Reconciled)
         /\ \A i \in DOMAIN Reconciled.suspensions :
              LET s == Reconciled.suspensions[i] IN
              ~s.lifted /\ s.ends # NoEnd /\ s.ends <= now =>
                s.endNotified /\ <<"ended", i>> \in Reconciled.notices
<1> DEFINE g == NoShows(file)
           h == Thresholds(g)
<1>1. Sound(g) /\ g.suspensions = file.suspensions /\ g.notices = file.notices
  BY NoShowsSound DEF NoShows, File
<1>2. Told(g)
  BY <1>1 DEF Told
<1> HIDE DEF g
<1>3. Sound(h) /\ Told(h)
  BY <1>1, <1>2, ThresholdsSound, ThresholdsTold
<1>4. Reconciled = Finished(h)
  BY DEF Reconciled, g
<1> HIDE DEF h
<1> QED BY <1>3, <1>4, FinishedTold

\* Staff unmark an end when they move it, and mark none.
LEMMA NextTold == Inv /\ Told(file) /\ [Next]_vars => Told(file')
<1> SUFFICES ASSUME Inv, Told(file), [Next]_vars PROVE Told(file')
  OBVIOUS
<1> DEFINE f == Reconciled
<1>1. now \in Nat /\ version \in DOMAIN Versions /\ Sound(file)
  BY SuspensionsAssumption DEF Inv, Days
<1>2. Sound(f) /\ Told(f)
  BY <1>1, ReconciledSound, ReconciledTold
<1> HIDE DEF f
<1>3. f.suspensions \in Seq(SuspensionType)
  BY <1>2, SoundType
<1>4. ASSUME file'.suspensions = f.suspensions, f.notices \subseteq file'.notices
      PROVE  Told(file')
  BY <1>2, <1>4 DEF Told
<1>5. CASE Elapse \/ UNCHANGED vars
  BY <1>5 DEF Elapse, vars
<1>6. CASE Tick \/ CheckIn \/ CreatePolicyVersion
  BY <1>4, <1>6 DEF Tick, CheckIn, CreatePolicyVersion, File, f
<1>7. ASSUME NEW d \in Hours, Book(d) \/ Cancel(d) PROVE Told(file')
  BY <1>4, <1>7 DEF Book, Cancel, File, f
<1>8. ASSUME NEW n \in Notes, NEW counts \in BOOLEAN, RecordManual(n, counts) PROVE Told(file')
  <2> DEFINE g == File(f.held, [k \in DOMAIN f.violations \cup {n} |->
                            IF k = n THEN Violation(now, counts) ELSE f.violations[k]],
                       f.suspensions, f.notices)
  <2>1. n \notin DOMAIN f.violations /\ file' = Thresholds(g)
    BY <1>8 DEF RecordManual, Recorded, f
  <2>2. Sound(g)
    BY <1>1, <1>2, <2>1, RecordedSound
  <2>3. Told(g)
    BY <1>2 DEF Told, File
  <2> HIDE DEF g
  <2> QED BY <2>1, <2>2, <2>3, ThresholdsTold
<1>9. ASSUME NEW k \in Hours \cup Notes, Void(k) PROVE Told(file')
  BY <1>4, <1>9 DEF Void, Voided, File, f
<1>10. ASSUME NEW i \in DOMAIN f.suspensions, NEW end, file' = Adjusted(f, i, end)
       PROVE  Told(file')
  <2>1. /\ file'.suspensions = [f.suspensions EXCEPT ![i].ends = end, ![i].endNotified = FALSE]
        /\ file'.notices = f.notices
    BY <1>10 DEF Adjusted, File
  <2>2. \A j \in DOMAIN f.suspensions : f.suspensions[j] \in SuspensionType
    BY <1>2, SoundType
  <2>3. ASSUME NEW j \in DOMAIN file'.suspensions, file'.suspensions[j].endNotified
        PROVE  j \in DOMAIN f.suspensions /\ f.suspensions[j].endNotified
    BY <2>1, <2>2, <2>3 DEF SuspensionType
  <2> QED BY <1>2, <2>1, <2>3, StillTold
<1>11. ASSUME NEW end \in Ends, Suspend(end) PROVE Told(file')
  <2>1. CASE \E i \in Latest(f, now) : file' = Adjusted(f, i, end)
    BY <1>10, <2>1 DEF Latest, InForce
  <2>2. CASE file' = ManualSuspension(f, end)
    <3>1. /\ file'.suspensions = Append(f.suspensions, Suspension(end, "MANUAL", 0, {}))
          /\ f.notices \subseteq file'.notices
      BY <2>2 DEF ManualSuspension, File
    <3> QED BY <1>2, <3>1, BegunTold
  <2> QED BY <1>11, <2>1, <2>2 DEF Suspend, f
<1>12. ASSUME NEW i \in Records, NEW end \in Ends, Adjust(i, end) PROVE Told(file')
  BY <1>10, <1>12 DEF Adjust, f
<1>13. ASSUME NEW i \in Records, Lift(i) PROVE Told(file')
  <2>1. /\ i \in DOMAIN f.suspensions
        /\ file'.suspensions = [f.suspensions EXCEPT ![i].lifted = TRUE]
        /\ f.notices \subseteq file'.notices
    BY <1>13 DEF Lift, Lifted, File, f
  <2>2. \A j \in DOMAIN f.suspensions : f.suspensions[j] \in SuspensionType
    BY <1>2, SoundType
  <2>3. ASSUME NEW j \in DOMAIN file'.suspensions, file'.suspensions[j].endNotified
        PROVE  j \in DOMAIN f.suspensions /\ f.suspensions[j].endNotified
    BY <2>1, <2>2, <2>3 DEF SuspensionType
  <2> QED BY <1>2, <2>1, <2>3, StillTold
<1> QED
  BY <1>5, <1>6, <1>7, <1>8, <1>9, <1>11, <1>12, <1>13 DEF Next

\* Of the file: what is marked as announced was announced.
Announced == Told(file)

LEMMA SpecTold == Spec => []Announced
<1>1. Init => Announced
  BY DEF Init, Announced, Told, File
<1>2. Inv /\ Announced /\ [Next]_vars => Announced'
  <2>1. Told(file') => Announced'
    BY DEF Announced, Told
  <2> QED BY <2>1, NextTold DEF Announced
<1> QED BY <1>1, <1>2, Invariance, PTL DEF Spec

\* One run of the scheduler settles the file: strikes that reached the
\* threshold are answered, and the student has heard of every suspension that
\* ran out (reconcile.py:207-225, 321-345).  With ticks that never stop this is
\* what makes StrikesAnswered and EndsAreNotified true.
SettledByTick ==
  [][Tick => /\ Unheard' = {}
             /\ InForce(file', now) # {} \/ Cardinality(Strikes(file', now)) < policy.threshold]_vars

\* Every run of the scheduler settles the file.
THEOREM TickSettles == Spec => SettledByTick
<1> DEFINE A == /\ Unheard' = {}
                /\ InForce(file', now) # {}
                     \/ Cardinality(Strikes(file', now)) < policy.threshold
<1>1. ASSUME Inv, Announced, Tick PROVE A
  <2>1. now \in Nat /\ version \in DOMAIN Versions /\ Sound(file) /\ Told(file)
    BY <1>1, SuspensionsAssumption DEF Inv, Days, Announced
  <2>2. file' = Reconciled /\ now' = now
    BY <1>1 DEF Tick
  <2>3. \A i \in DOMAIN file'.suspensions :
          LET s == file'.suspensions[i] IN
          ~s.lifted /\ s.ends # NoEnd /\ s.ends <= now => <<"ended", i>> \in file'.notices
    BY <2>1, <2>2, ReconciledTold
  <2>4. Unheard' = {}
    BY <2>1, <2>2, <2>3 DEF Unheard, NoEnd
  <2> QED BY <2>1, <2>2, <2>4, GoodStanding
<1>2. Inv /\ Announced /\ [Next]_vars => [Tick => A]_vars
  BY <1>1
<1> QED BY <1>2, Invariance, SpecTold, PTL DEF Spec, SettledByTick

\* A reconciled file stays as it is when the three stages run again.
LEMMA ReconciledIdle ==
  ASSUME Sound(file), Told(file), now \in Nat, version \in DOMAIN Versions,
         NEW f, f = Reconciled
  PROVE  Finished(Thresholds(NoShows(f))) = f
<1> DEFINE g == NoShows(file)
           h == Thresholds(g)
<1>1. Sound(g) /\ Sound(h) /\ Sound(f)
  BY NoShowsSound, ThresholdsSound, ReconciledSound
<1>2. f = Finished(h) /\ g.held = {d \in file.held : ~(Deadline(d) <= now)}
  BY DEF Reconciled, NoShows, File
<1>3. h.held \subseteq g.held
  BY DEF Thresholds, AutomaticSuspension, File
<1> HIDE DEF g, h
<1>4. f = File(f.held, f.violations, f.suspensions, f.notices)
  BY <1>2 DEF Finished, File
<1>5. \A d \in f.held : ~(Deadline(d) <= now)
  BY <1>1, <1>2, <1>3, FinishedForce
<1>6. NoShows(f) = f
  <2>1. {d \in f.held : Deadline(d) <= now} = {}
    BY <1>5
  <2>2. f.violations = [k \in DOMAIN f.violations |-> f.violations[k]]
    BY <1>1, SoundType
  <2>3. [k \in DOMAIN f.violations \cup {} |->
           IF k \in DOMAIN f.violations THEN f.violations[k] ELSE Violation(Deadline(k), TRUE)]
        = f.violations
    BY <2>2
  <2>4. NoShows(f) = File(f.held \ {}, [k \in DOMAIN f.violations \cup {} |->
           IF k \in DOMAIN f.violations THEN f.violations[k] ELSE Violation(Deadline(k), TRUE)],
           f.suspensions, f.notices)
    BY <2>1 DEF NoShows
  <2> QED BY <1>4, <2>3, <2>4
<1>7. Thresholds(f) = f
  <2>1. InForce(f, now) = {} => Cardinality(Strikes(f, now)) < policy.threshold
    BY GoodStanding
  <2>2. Cardinality(Strikes(f, now)) \in Nat /\ policy.threshold \in Nat
    BY <1>1, StrikesFinite, PolicyType
  <2>3. ~(InForce(f, now) = {} /\ Cardinality(Strikes(f, now)) >= policy.threshold)
    BY <2>1, <2>2
  <2> QED BY <2>3 DEF Thresholds
<1>8. Finished(f) = f
  <2> DEFINE over == {i \in DOMAIN f.suspensions :
                        LET s == f.suspensions[i]
                        IN  ~s.lifted /\ s.ends # NoEnd /\ s.ends <= now /\ ~s.endNotified}
             same == [i \in DOMAIN f.suspensions |->
                        [f.suspensions[i] EXCEPT !.endNotified = @ \/ i \in over]]
  <2>1. over = {}
    BY ReconciledTold
  <2>2. Finished(f) = File(f.held, f.violations, same, f.notices \cup {<<"ended", i>> : i \in over})
    BY DEF Finished
  <2> HIDE DEF over
  <2>3. ASSUME NEW i \in DOMAIN f.suspensions PROVE same[i] = f.suspensions[i]
    <3>1. f.suspensions[i] \in SuspensionType
      BY <1>1, SoundType
    <3>2. same[i] = [f.suspensions[i] EXCEPT !.endNotified = @ \/ i \in over]
      OBVIOUS
    <3> QED BY <2>1, <3>1, <3>2 DEF SuspensionType
  <2>4. f.suspensions = [i \in DOMAIN f.suspensions |-> f.suspensions[i]]
    BY <1>1, SoundType
  <2>5. same = f.suspensions
    BY <2>3, <2>4
  <2>6. f.notices \cup {<<"ended", i>> : i \in over} = f.notices
    BY <2>1
  <2> HIDE DEF same
  <2> QED BY <1>4, <2>2, <2>5, <2>6
<1> QED BY <1>6, <1>7, <1>8

\* Reconciling again without anything in between is not even a write: a
\* request that follows a tick, or is tried again, starts from the same file
\* (protocol.py, reconcile.py).
SettledOnce == [][Tick => Reconciled' = file']_vars

\* A second reconciliation finds nothing to do.
THEOREM TickTwice == Spec => SettledOnce
<1> DEFINE A == Reconciled' = file'
<1>1. ASSUME Inv, Announced, Tick PROVE A
  <2>1. now \in Nat /\ version \in DOMAIN Versions /\ Sound(file) /\ Told(file)
    BY <1>1, SuspensionsAssumption DEF Inv, Days, Announced
  <2>2. file' = Reconciled /\ now' = now /\ version' = version
    BY <1>1 DEF Tick
  <2>3. Finished(Thresholds(NoShows(file'))) = file'
    BY <2>1, <2>2, ReconciledIdle
  <2>4. Reconciled' = Finished(Thresholds(NoShows(file')))
    <3>1. policy' = policy
      BY <2>2 DEF policy
    <3>2. NoShows(file)' = NoShows(file')
      BY <2>2, <3>1 DEF NoShows, File, Violation
    <3>3. Thresholds(NoShows(file))' = Thresholds(NoShows(file'))
      <4>1. AutomaticSuspension(NoShows(file))' = AutomaticSuspension(NoShows(file'))
        BY <2>2, <3>1, <3>2 DEF AutomaticSuspension, Suspension, SpentOn, Strikes, EligibleStrike
      <4> QED BY <2>2, <3>1, <3>2, <4>1 DEF Thresholds, InForce, Active, Strikes, EligibleStrike
    <3> QED BY <2>2, <3>3 DEF Reconciled, Finished
  <2> QED BY <2>3, <2>4
<1>2. Inv /\ Announced /\ [Next]_vars => [Tick => A]_vars
  BY <1>1
<1> QED BY <1>2, Invariance, SpecTold, PTL DEF Spec, SettledOnce

================================================================================
