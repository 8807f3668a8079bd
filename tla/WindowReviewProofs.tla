------------------------- MODULE WindowReviewProofs -------------------------
(***************************************************************************)
(* What a check reports, for every set of paths, rules, sources and        *)
(* commits, and any number of changes under it.  The snapshot is that of   *)
(* one instant, and what the check adds is evaluated on it.                *)
(***************************************************************************)
EXTENDS WindowReview, TLAPS

-----------------------------------------------------------------------------
(* The snapshot.  What the first pass read of a path held before the second *)
(* listing, what the second pass read held after it; if both are the same,  *)
(* and no path returns to a state it has left, it held at the listing.      *)

\* What a path was when it got this entry.
StateOf(entry) == IF entry = Missing THEN Absent ELSE entry

Telling(entry) == entry \notin {None, Undecodable}

\* Unless edits are undone, no path is in a state that it has left.
NeverBack == ~Undo => \A p \in Paths : tree[p] \notin past[p]

\* The first pass reads what the path is or has been.
FirstWas ==
    \A p \in Paths :
        Telling(first[p]) =>
            StateOf(first[p]) \in past[p] \cup {tree[p]}

\* By the second listing it is still what the first pass read, or has left
\* it for good.
WitnessSince ==
    stage \in {"second", "collected"} =>
        \A p \in Paths :
            /\ Telling(first[p]) =>
                  StateOf(first[p]) \in past[p] \cup {witness[p]}
            /\ ~Undo /\ Telling(second[p]) /\ second[p] = first[p] =>
                  StateOf(second[p]) = witness[p]

\* A path that the second pass leaves out was not there when it began.
AllListed ==
    stage \in {"second", "collected"} =>
        \A p \in Paths \ todo : second[p] = None => witness[p] = Absent

\* An inventory is empty before its pass.
NotYet ==
    /\ stage = "idle" => first = NothingRead
    /\ stage \in {"idle", "first"} => second = NothingRead

SnapshotInv ==
    /\ SnapshotTypeOK /\ NeverBack
    /\ FirstWas /\ WitnessSince /\ AllListed /\ NotYet

-----------------------------------------------------------------------------

\* Nothing has been read at first.
LEMMA SnapshotInvInit == SnapshotInit => SnapshotInv
  BY DEF SnapshotInit, NothingRead, SnapshotInv, SnapshotTypeOK, NeverBack,
         FirstWas, WitnessSince, AllListed, NotYet, Telling, States, Entries

\* An entry that tells something tells the state the path is in.
LEMMA EntryTells ==
  ASSUME SnapshotTypeOK, NEW p \in Paths
  PROVE  /\ Entry(p) \in Entries \ {None}
         /\ StateOf(Entry(p)) = tree[p]
  BY SnapshotAssumption DEF Entry, StateOf, Entries, States, SnapshotTypeOK

\* A path is read in either pass.
LEMMA SnapshotInvNote ==
  ASSUME SnapshotInv, NEW p \in Paths, NEW entry \in Entries \ {None},
         Telling(entry) => StateOf(entry) = tree[p],
         Note(p, entry)
  PROVE  SnapshotInv'
<1> USE DEF Note, treeVars
<1>1. SnapshotTypeOK'
  BY DEF SnapshotInv, SnapshotTypeOK
<1>2. NeverBack'
  BY DEF SnapshotInv, NeverBack
<1>3. FirstWas'
  BY DEF SnapshotInv, SnapshotTypeOK, FirstWas, Telling, StateOf
<1>4. WitnessSince'
  <2>1. CASE stage = "first"
    BY <2>1 DEF WitnessSince
  <2>2. CASE stage = "second"
    <3>1. UNCHANGED <<first, past, witness, tree>>
      BY <2>2
    <3> SUFFICES ASSUME ~Undo, NEW q \in Paths
                 PROVE  Telling(second'[q]) /\ second'[q] = first[q] =>
                            StateOf(second'[q]) = witness[q]
      BY <2>2, <3>1 DEF SnapshotInv, WitnessSince, Telling, StateOf
    <3>2. CASE q # p
      <4>1. second'[q] = second[q]
        BY <2>2, <3>2 DEF SnapshotInv, SnapshotTypeOK
      <4>. QED
        BY <2>2, <4>1 DEF SnapshotInv, WitnessSince
    <3>3. CASE q = p
      <4>1. second'[q] = entry
        BY <2>2, <3>3 DEF SnapshotInv, SnapshotTypeOK
      <4>2. Telling(entry) /\ entry = first[p] => StateOf(entry) = witness[p]
        BY <2>2 DEF SnapshotInv, WitnessSince, NeverBack, Telling, StateOf
      <4>. QED
        BY <3>3, <4>1, <4>2
    <3>. QED
      BY <3>2, <3>3
  <2>. QED
    BY <2>1, <2>2
<1>5. AllListed'
  BY DEF SnapshotInv, SnapshotTypeOK, AllListed
<1>6. NotYet'
  BY DEF SnapshotInv, NotYet
<1>. QED
  BY <1>1, <1>2, <1>3, <1>4, <1>5, <1>6 DEF SnapshotInv

\* The tree changes under the collection.
LEMMA SnapshotInvEdit ==
  ASSUME SnapshotInv, EditPath
  PROVE  SnapshotInv'
<1> USE DEF collectVars
<1>1. ASSUME NEW p \in Paths, EditIndex(p) PROVE SnapshotInv'
  BY <1>1 DEF EditIndex, SnapshotInv, SnapshotTypeOK, NeverBack, FirstWas,
              WitnessSince, AllListed, NotYet, Telling, StateOf
<1>2. ASSUME NEW p \in Paths, NEW state \in States, EditFile(p, state)
      PROVE  SnapshotInv'
  <2> USE <1>2 DEF EditFile
  <2>1. /\ tree' = [tree EXCEPT ![p] = state]
        /\ past' = [past EXCEPT ![p] = @ \cup {tree[p]}]
        /\ state # tree[p] /\ (~Undo => state \notin past[p])
    OBVIOUS
  <2>2. SnapshotTypeOK'
    BY <2>1 DEF SnapshotInv, SnapshotTypeOK
  <2>3. NeverBack'
    BY <2>1 DEF SnapshotInv, SnapshotTypeOK, NeverBack
  <2>4. FirstWas'
    BY <2>1 DEF SnapshotInv, SnapshotTypeOK, FirstWas, Telling, StateOf
  <2>5. WitnessSince'
    BY <2>1 DEF SnapshotInv, SnapshotTypeOK, WitnessSince, Telling, StateOf
  <2>6. AllListed' /\ NotYet'
    BY DEF SnapshotInv, AllListed, NotYet
  <2>. QED
    BY <2>2, <2>3, <2>4, <2>5, <2>6 DEF SnapshotInv
<1>. QED
  BY <1>1, <1>2 DEF EditPath

\* The first listing.
LEMMA SnapshotInvList ==
  ASSUME SnapshotInv, NEW missing \in SUBSET Paths, List(missing)
  PROVE  SnapshotInv'
  BY DEF List, Listed, treeVars, NothingRead, SnapshotInv, SnapshotTypeOK,
         NeverBack, FirstWas, WitnessSince, AllListed, NotYet, Telling, StateOf

\* Both passes and the second listing.
LEMMA SnapshotInvStep ==
  ASSUME SnapshotInv, CollectStep
  PROVE  SnapshotInv'
<1>1. ASSUME NEW p \in Paths, Read(p) PROVE SnapshotInv'
  BY <1>1, EntryTells, SnapshotInvNote DEF Read, SnapshotInv
<1>2. ASSUME NEW p \in Paths, ReadFails(p) PROVE SnapshotInv'
  <2>1. Undecodable \in Entries \ {None} /\ ~Telling(Undecodable)
    BY SnapshotAssumption DEF Entries, States, Telling
  <2>. QED
    BY <1>2, <2>1, SnapshotInvNote DEF ReadFails
<1>3. CASE Relist
  BY <1>3 DEF Relist, Listed, treeVars, SnapshotInv, SnapshotTypeOK,
              NeverBack, FirstWas, WitnessSince, AllListed, NotYet, NothingRead,
              Telling, StateOf
<1>4. CASE Finish
  BY <1>4 DEF Finish, treeVars, SnapshotInv, SnapshotTypeOK,
              NeverBack, FirstWas, WitnessSince, AllListed, NotYet, Telling,
              StateOf
<1>. QED
  BY <1>1, <1>2, <1>3, <1>4 DEF CollectStep

\* Everything else.
LEMMA SnapshotInvStutter ==
  ASSUME SnapshotInv, UNCHANGED snapshotVars
  PROVE  SnapshotInv'
  BY DEF snapshotVars, treeVars, collectVars, SnapshotInv, SnapshotTypeOK,
         NeverBack, FirstWas, WitnessSince, AllListed, NotYet, Telling, StateOf

\* A complete snapshot has no entry that says nothing.
LEMMA SnapshotInvInstant == ~Undo /\ SnapshotInv => SnapshotIsInstant
<1> SUFFICES ASSUME ~Undo, SnapshotInv, stage = "collected", CoverageComplete,
                    NEW p \in Paths
             PROVE  /\ witness[p] # Undecodable
                    /\ witness[p] \in Sources => Inventory[p] = witness[p]
                    /\ Inventory[p] \in Sources => Inventory[p] = witness[p]
  BY DEF SnapshotIsInstant
<1>1. /\ Inventory = second /\ second = first
      /\ second[p] \notin {Undecodable, Missing}
  BY DEF CoverageComplete, Stable, Inventory
<1>2. CASE second[p] = None
  <2>1. witness[p] = Absent
    BY <1>2 DEF SnapshotInv, SnapshotTypeOK, AllListed
  <2>. QED
    BY <1>1, <1>2, <2>1, SnapshotAssumption
<1>3. CASE second[p] # None
  <2>1. witness[p] = second[p]
    BY <1>1, <1>3 DEF SnapshotInv, WitnessSince, Telling, StateOf
  <2>. QED
    BY <1>1, <2>1
<1>. QED
  BY <1>2, <1>3


-----------------------------------------------------------------------------
(* The inductive invariant of the check                                    *)

\* Where the collection is while the check is somewhere.
Together ==
    /\ phase \in {"begin", "base", "list", "diff"} => stage = "idle"
    /\ phase = "collect" => stage # "collected"
    /\ phase = "verify" => stage = "collected"
    /\ phase = "done" /\ report # Failure => stage = "collected"

\* From the second listing on, a registry that is as expected has been seen.
Vouching == stage \in {"second", "collected"} /\ trusted => vouched

\* The report is what Verify made of the inventory.
Reported ==
    phase = "done" /\ report # Failure =>
        /\ report.exit = ExitCode(Inventory, base, CoverageComplete)
        /\ report.results = [r \in Rules |-> Result(r, Inventory, base)]

IInv ==
    /\ TypeOK
    /\ SnapshotInv
    /\ Together
    /\ Vouching
    /\ Reported
    /\ SelfModifiedNeverPasses

-----------------------------------------------------------------------------
(* Types                                                                   *)

\* What is said of a rule has the form of a result.
LEMMA ResultTyped ==
  ASSUME NEW r \in Rules, NEW inventory \in [Paths -> Entries],
         NEW commit \in Commits \cup {None}
  PROVE  Result(r, inventory, commit) \in Results
<1>1. Consumers(r, inventory) \subseteq Paths \X Functions
  BY ReviewAssumption DEF Consumers, Files
<1>2. Status(r, inventory) \in {"OPEN", "VIOLATED", "UNVERIFIED"}
  BY DEF Status
<1>3. Added(r, inventory, commit) \in
          (SUBSET (Paths \X Functions)) \cup {None}
  BY <1>1 DEF Added
<1>. QED
  BY <1>1, <1>2, <1>3 DEF Result, Results

LEMMA ExitTyped ==
  ASSUME NEW inventory, NEW commit, NEW covered
  PROVE  ExitCode(inventory, commit, covered) \in 0 .. 2
  BY DEF ExitCode

LEMMA DisturbTyped ==
  ASSUME disturbed \in 0 .. MaxDisturbed, meddled \in BOOLEAN,
         \/ Meddle
         \/ Disturb /\ UNCHANGED meddled
         \/ UNCHANGED <<disturbed, meddled>>
  PROVE  disturbed' \in 0 .. MaxDisturbed /\ meddled' \in BOOLEAN
<1>1. Meddle => Disturb /\ meddled' \in BOOLEAN
  BY DEF Meddle
<1>2. Disturb => disturbed' \in 0 .. MaxDisturbed
  BY ReviewAssumption DEF Disturb
<1>. QED
  BY <1>1, <1>2

LEMMA InventoryTyped == SnapshotTypeOK => Inventory \in [Paths -> Entries]
  BY DEF SnapshotTypeOK, Inventory

-----------------------------------------------------------------------------
(* The invariant                                                           *)

LEMMA IInvInit == Init => IInv
<1> SUFFICES ASSUME Init PROVE IInv
  OBVIOUS
<1>1. SnapshotInv
  BY SnapshotInvInit DEF Init
<1>2. TypeOK
  <2>1. SnapshotTypeOK
    BY <1>1 DEF SnapshotInv
  <2>2. disturbed \in 0 .. MaxDisturbed
    BY ReviewAssumption DEF Init
  <2>. QED
    BY <2>1, <2>2 DEF Init, TypeOK, Phases
<1>3. Together /\ Vouching /\ Reported /\ SelfModifiedNeverPasses
  BY DEF Init, SnapshotInit, Together, Vouching, Reported,
         SelfModifiedNeverPasses
<1>. QED
  BY <1>1, <1>2, <1>3 DEF IInv

\* Reads of the registry and of Git before the collection, and what fails.
LEMMA IInvBefore ==
  ASSUME IInv,
         \/ ReadRegistry \/ ReadHead \/ ListChanges \/ DiffChanges
         \/ GitFails \/ CollectFails
  PROVE  IInv'
<1>1. UNCHANGED snapshotVars /\ UNCHANGED <<trusted, vouched>>
  BY DEF ReadRegistry, ReadHead, ListChanges, DiffChanges, GitFails,
         CollectFails, historyVars
<1>2. SnapshotInv'
  BY <1>1, SnapshotInvStutter DEF IInv
<1>3. TypeOK'
  <2>1. SnapshotTypeOK'
    BY <1>2 DEF SnapshotInv
  <2>2. Listed \subseteq Paths
    BY DEF IInv, TypeOK, SnapshotTypeOK, Listed
  <2>3. Deleted \subseteq Paths
    BY DEF Deleted, C!Removed, C!Committed
  <2>4. Failure.exit \in 0 .. 2 /\ Failure.results = None
    BY DEF Failure
  <2>5. disturbed' \in 0 .. MaxDisturbed /\ meddled' \in BOOLEAN
    BY DisturbTyped DEF IInv, TypeOK, ReadRegistry, ReadHead, ListChanges,
       DiffChanges, GitFails, CollectFails, historyVars
  <2> USE <1>1, <2>1, <2>5 DEF IInv, TypeOK, Phases
  <2>6. CASE ReadRegistry
    BY <2>4, <2>6 DEF ReadRegistry
  <2>7. CASE ReadHead
    BY <2>7 DEF ReadHead
  <2>8. CASE ListChanges
    BY <2>2, <2>8 DEF ListChanges, C!Committed
  <2>9. CASE DiffChanges
    BY <2>3, <2>9 DEF DiffChanges
  <2>10. CASE GitFails
    BY <2>10 DEF GitFails
  <2>11. CASE CollectFails
    BY <2>4, <2>11 DEF CollectFails
  <2>. QED
    BY <2>6, <2>7, <2>8, <2>9, <2>10, <2>11
<1>4. Together' /\ Vouching' /\ Reported' /\ SelfModifiedNeverPasses'
  <2>1. phase' = "done" => report' = Failure /\ report'.results = None
    BY DEF IInv, TypeOK, ReadRegistry, ReadHead, ListChanges, DiffChanges,
           GitFails, CollectFails, Failure
  <2>. QED
    BY <1>1, <2>1
       DEF IInv, Together, Vouching, Reported, SelfModifiedNeverPasses,
           snapshotVars, collectVars, ReadRegistry, ReadHead, ListChanges,
           DiffChanges, GitFails, CollectFails
<1>. QED
  BY <1>2, <1>3, <1>4 DEF IInv

\* One step of the collection.
LEMMA IInvCollect ==
  ASSUME IInv, Collect
  PROVE  IInv'
<1>1. SnapshotInv'
  BY SnapshotInvList, SnapshotInvStep DEF IInv, TypeOK, Collect
<1>2. TypeOK'
  <2>1. SnapshotTypeOK'
    BY <1>1 DEF SnapshotInv
  <2>2. disturbed' \in 0 .. MaxDisturbed /\ meddled' \in BOOLEAN
    BY DisturbTyped DEF IInv, TypeOK, Collect
  <2>3. vouched' \in BOOLEAN
    BY DEF IInv, TypeOK, Collect
  <2>4. phase' \in {"collect", "verify"} /\ phase = "collect"
    BY DEF Collect
  <2>. QED
    BY <2>1, <2>2, <2>3, <2>4 DEF IInv, TypeOK, Collect, Phases
<1>3. stage' \in {"first", "second", "collected"}
  BY DEF IInv, TypeOK, SnapshotTypeOK, Together, Collect, List, CollectStep,
         Read, ReadFails, Note, Relist, Finish
<1>4. stage' = "second" => stage \in {"first", "second"}
  BY DEF Collect, List, CollectStep, Read, ReadFails, Note, Relist, Finish
<1>5. stage' = "collected" => stage = "second"
  BY DEF IInv, Together, Collect, List, CollectStep, Read, ReadFails, Note,
         Relist, Finish
<1>6. Together' /\ Vouching' /\ Reported' /\ SelfModifiedNeverPasses'
  BY <1>3, <1>4, <1>5 DEF IInv, Together, Vouching, Reported,
     SelfModifiedNeverPasses, Collect
<1>. QED
  BY <1>1, <1>2, <1>6 DEF IInv

\* The end of the check.
LEMMA IInvVerify ==
  ASSUME IInv, Verify
  PROVE  IInv'
<1>1. SnapshotInv' /\ UNCHANGED <<snapshotVars, base, trusted, vouched>>
  BY SnapshotInvStutter DEF IInv, Verify, historyVars
<1>2. UNCHANGED <<Inventory, CoverageComplete>>
  BY <1>1 DEF snapshotVars, collectVars, Inventory, CoverageComplete, Stable
<1>3. CASE trusted
  <2>1. /\ phase' = "done"
        /\ report'.exit = ExitCode(Inventory, base, CoverageComplete)
        /\ report'.results = [r \in Rules |-> Result(r, Inventory, base)]
    BY <1>3 DEF Verify
  <2>2. Inventory \in [Paths -> Entries]
    BY InventoryTyped DEF IInv, SnapshotInv
  <2>3. report'.exit \in 0 .. 2
    BY <2>1, ExitTyped
  <2>4. base \in Commits \cup {None}
    BY DEF IInv, TypeOK
  <2>5. report'.results \in [Rules -> Results]
    BY <2>1, <2>2, <2>4, ResultTyped
  <2>6. TypeOK'
    BY <1>1, <2>1, <2>3, <2>5
       DEF IInv, TypeOK, SnapshotInv, Phases, Verify, historyVars
  <2>7. Together' /\ Vouching' /\ SelfModifiedNeverPasses'
    BY <1>1, <1>3, <2>1
       DEF IInv, Together, Vouching, SelfModifiedNeverPasses, Verify,
           snapshotVars, collectVars
  <2>8. Reported'
    <3>1. ExitCode(Inventory, base, CoverageComplete)'
            = ExitCode(Inventory, base, CoverageComplete)
      BY <1>1, <1>2
    <3>2. [r \in Rules |-> Result(r, Inventory, base)]'
            = [r \in Rules |-> Result(r, Inventory, base)]
      BY <1>1, <1>2
    <3>. QED
      BY <2>1, <3>1, <3>2 DEF Reported
  <2>. QED
    BY <1>1, <2>6, <2>7, <2>8 DEF IInv
<1>4. CASE ~trusted
  <2>1. /\ phase' = "done" /\ report' = Failure
        /\ report'.exit = 2 /\ report'.results = None
    BY <1>4 DEF Verify, Failure
  <2>2. TypeOK'
    BY <1>1, <2>1 DEF IInv, TypeOK, SnapshotInv, Phases, Verify, historyVars
  <2>3. Together' /\ Vouching' /\ Reported' /\ SelfModifiedNeverPasses'
    BY <1>1, <1>4, <2>1
       DEF IInv, Together, Vouching, Reported, SelfModifiedNeverPasses
  <2>. QED
    BY <1>1, <2>2, <2>3 DEF IInv
<1>. QED
  BY <1>3, <1>4

\* What others do.
LEMMA IInvOthers ==
  ASSUME IInv, EditTree \/ EditRegistry \/ MoveHead
  PROVE  IInv'
<1>1. phase # "done" /\ UNCHANGED reviewVars
  BY DEF EditTree, EditRegistry, MoveHead
<1>2. stage' = stage
  BY DEF EditTree, EditPath, EditIndex, EditFile, EditRegistry, MoveHead,
         snapshotVars, collectVars
<1>3. SnapshotInv'
  BY SnapshotInvEdit, SnapshotInvStutter
     DEF IInv, EditTree, EditRegistry, MoveHead
<1>4. TypeOK'
  <2>1. SnapshotTypeOK'
    BY <1>3 DEF SnapshotInv
  <2>2. disturbed' \in 0 .. MaxDisturbed /\ meddled' \in BOOLEAN
    BY DisturbTyped DEF IInv, TypeOK, EditTree, EditRegistry, MoveHead
  <2>3. trusted' \in BOOLEAN /\ vouched' \in BOOLEAN
    BY DEF IInv, TypeOK, EditTree, EditRegistry, MoveHead
  <2>4. head' \in Commits \cup {None}
    BY DEF IInv, TypeOK, EditTree, EditRegistry, MoveHead
  <2>. QED
    BY <1>1, <2>1, <2>2, <2>3, <2>4 DEF IInv, TypeOK, reviewVars
<1>5. Together' /\ Reported' /\ SelfModifiedNeverPasses'
  BY <1>1, <1>2 DEF IInv, Together, Reported, SelfModifiedNeverPasses,
     reviewVars
<1>6. Vouching'
  BY <1>2 DEF IInv, Vouching, EditTree, EditRegistry, MoveHead
<1>. QED
  BY <1>3, <1>4, <1>5, <1>6 DEF IInv

LEMMA IInvNext == IInv /\ [Next]_vars => IInv'
<1> SUFFICES ASSUME IInv, [Next]_vars PROVE IInv'
  OBVIOUS
<1>1. CASE UNCHANGED vars
  <2>1. SnapshotInv'
    BY <1>1, SnapshotInvStutter DEF IInv, vars
  <2>2. TypeOK' /\ Together' /\ Vouching' /\ SelfModifiedNeverPasses'
    BY <1>1, <2>1
       DEF IInv, TypeOK, Together, Vouching, SelfModifiedNeverPasses,
           SnapshotInv, vars, reviewVars, historyVars, snapshotVars,
           collectVars
  <2>3. UNCHANGED <<phase, report, base, Inventory, CoverageComplete>>
    BY <1>1 DEF vars, reviewVars, snapshotVars, collectVars, Inventory,
       CoverageComplete, Stable
  <2>4. Reported'
    BY <2>3 DEF IInv, Reported
  <2>. QED
    BY <2>1, <2>2, <2>4 DEF IInv
<1>. QED
  BY <1>1, IInvBefore, IInvCollect, IInvVerify, IInvOthers DEF Next

THEOREM Invariance == Spec => []IInv
<1>1. Init => IInv
  BY IInvInit
<1>2. IInv /\ [Next]_vars => IInv'
  BY IInvNext
<1>. QED
  BY <1>1, <1>2, PTL DEF Spec

-----------------------------------------------------------------------------
(* The theorems                                                            *)

\* What a complete report says of the inventory it would say of the tree at
\* the second listing: an evaluation looks at the sources only.
LEMMA SameSources ==
  ASSUME NEW one, NEW other,
         \A p \in Paths : one[p] \in Sources \/ other[p] \in Sources =>
                             one[p] = other[p],
         NEW r \in Rules
  PROVE  /\ Consumers(r, one) = Consumers(r, other)
         /\ InDoubt(r, one) <=> InDoubt(r, other)
<1>1. Files(one) = Files(other) /\ \A p \in Files(one) : one[p] = other[p]
  BY DEF Files
<1>2. Home[r] \in Paths
  BY ReviewAssumption
<1>3. Located(r, one) <=> Located(r, other)
  BY <1>2 DEF Located
<1>4. \A p \in Files(one) \ {Home[r]} :
         /\ {p} \X Callers[one[p]][r] = {p} \X Callers[other[p]][r]
         /\ Unclear[one[p]] = Unclear[other[p]]
  BY <1>1
<1>. QED
  BY <1>1, <1>3, <1>4 DEF Consumers, InDoubt

\* The variables of the check keep their types.
THEOREM TypeCorrect == Spec => []TypeOK
<1>1. IInv => TypeOK
  BY DEF IInv
<1>. QED
  BY <1>1, Invariance, PTL

\* Rules that are changed before the tree is read, and stay changed, are never
\* reported on.
THEOREM NeverSelfModified == Spec => []SelfModifiedNeverPasses
<1>1. IInv => SelfModifiedNeverPasses
  BY DEF IInv
<1>. QED
  BY <1>1, Invariance, PTL

\* A complete snapshot of the check is the working tree at one instant, if no
\* path returns to a state it has left.
THEOREM CompleteIsInstant ==
  ASSUME ~Undo
  PROVE  Spec => []SnapshotIsInstant
<1>1. IInv => SnapshotIsInstant
  BY SnapshotInvInstant DEF IInv
<1>. QED
  BY <1>1, Invariance, PTL

\* A consumer that is called added is not one of the commit.
THEOREM AddedNew == Spec => []AddedIsNew
<1>1. IInv => AddedIsNew
  <2> SUFFICES ASSUME IInv, phase = "done", report.results # None,
                      NEW r \in Rules, report.results[r].added # None
               PROVE  /\ base # None
                      /\ \A c \in report.results[r].added :
                            base[c[1]] \in Sources =>
                                c[2] \notin Callers[base[c[1]]][r]
    BY DEF AddedIsNew
  <2>1. report.results[r].added = Added(r, Inventory, base)
    BY DEF IInv, Reported, Result, Failure
  <2>2. /\ base # None /\ Located(r, base)
        /\ report.results[r].added
             = Consumers(r, Inventory) \ Consumers(r, base)
    BY <2>1 DEF Added, InDoubt
  <2>3. ASSUME NEW c \in report.results[r].added,
               base[c[1]] \in Sources, c[2] \in Callers[base[c[1]]][r]
        PROVE  FALSE
    <3>1. c \in Consumers(r, Inventory) /\ c \notin Consumers(r, base)
      BY <2>2, <2>3
    <3>2. PICK p \in Files(Inventory) \ {Home[r]} :
             c \in {p} \X Callers[Inventory[p]][r]
      BY <3>1 DEF Consumers
    <3>3. c = <<c[1], c[2]>> /\ c[1] = p
      BY <3>2
    <3>4. p \in Files(base) \ {Home[r]}
      BY <2>3, <3>2, <3>3 DEF Files
    <3>5. c \in {p} \X Callers[base[p]][r]
      BY <2>3, <3>3
    <3>6. c \in Consumers(r, base)
      BY <2>2, <3>4, <3>5 DEF Consumers
    <3>. QED
      BY <3>1, <3>6
  <2>. QED
    BY <2>2, <2>3
<1>. QED
  BY <1>1, Invariance, PTL

\* A report that claims to be complete evaluates the whole tree of one instant
\* against the commit it names, if no path returns to a state it has left.
THEOREM CompleteExact ==
  ASSUME ~Undo
  PROVE  Spec => []CompleteReportIsExact
<1>1. IInv => CompleteReportIsExact
  <2> SUFFICES ASSUME IInv, phase = "done", report.exit \in {0, 1}
               PROVE  /\ base # None
                      /\ report.results
                           = [r \in Rules |-> Result(r, witness, base)]
                      /\ report.exit = 0 <=>
                            \A r \in Rules : Status(r, witness) = "OPEN"
    BY DEF CompleteReportIsExact
  <2>1. report # Failure
    BY DEF Failure
  <2>2. /\ report.exit = ExitCode(Inventory, base, CoverageComplete)
        /\ report.results = [r \in Rules |-> Result(r, Inventory, base)]
        /\ stage = "collected"
    BY <2>1 DEF IInv, Reported, Together
  <2>3. /\ CoverageComplete /\ base # None
        /\ \A r \in Rules : ~InDoubt(r, Inventory)
        /\ report.exit = IF \E r \in Rules : Status(r, Inventory) = "VIOLATED"
                         THEN 1 ELSE 0
    BY <2>2 DEF ExitCode, BaseComplete
  <2>4. \A p \in Paths :
           Inventory[p] \in Sources \/ witness[p] \in Sources =>
               Inventory[p] = witness[p]
    BY <2>2, <2>3, SnapshotInvInstant DEF IInv, SnapshotIsInstant
  <2>5. \A r \in Rules :
           /\ Consumers(r, Inventory) = Consumers(r, witness)
           /\ InDoubt(r, Inventory) <=> InDoubt(r, witness)
    BY <2>4, SameSources
  <2>6. \A r \in Rules :
           /\ Status(r, Inventory) = Status(r, witness)
           /\ Result(r, Inventory, base) = Result(r, witness, base)
    BY <2>5 DEF Status, Result, Added
  <2>7. report.exit = 0 <=> \A r \in Rules : Status(r, witness) = "OPEN"
    BY <2>3, <2>6 DEF Status
  <2>. QED
    BY <2>2, <2>3, <2>6, <2>7
<1>. QED
  BY <1>1, Invariance, PTL

-----------------------------------------------------------------------------
(* A check that files, index and Git do not interfere with                 *)

\* What git diff says is deleted is ignored, renamed files excepted.
Foreseen ==
    ~meddled /\ base # None =>
        /\ phase = "collect" /\ stage = "idle" =>
              Deleted \ Renamable \subseteq gone
        /\ stage # "idle" => Deleted \ Renamable \subseteq ignored

\* What a pass has noted, some paths still being unread.
Pass(inventory, unread) ==
    \A p \in Paths :
        inventory[p] = IF p \in Listed \ unread THEN Entry(p) ELSE None

AsRead ==
    ~meddled =>
        /\ todo \subseteq Listed
        /\ stage = "first" => Pass(first, todo)
        /\ stage \in {"second", "collected"} =>
              Pass(first, {}) /\ Pass(second, todo)

Quiet == Foreseen /\ AsRead

\* In such a check the tree stays, and nothing fails; HEAD and the registry may
\* be moved.
LEMMA QuietStep ==
  ASSUME IInv, [Next]_vars, ~meddled'
  PROVE  /\ ~meddled /\ UNCHANGED treeVars
         /\ \/ ReadRegistry \/ ReadHead \/ ListChanges \/ DiffChanges
            \/ Collect \/ Verify \/ EditRegistry \/ MoveHead
            \/ UNCHANGED vars
         /\ Collect => \A p \in todo \ todo' : ~ReadFails(p)
<1>1. ~Meddle
  BY DEF Meddle
<1>2. UNCHANGED treeVars
  BY <1>1
     DEF Next, vars, snapshotVars, ReadRegistry, ReadHead, ListChanges,
         DiffChanges, GitFails, Collect, CollectFails, Verify, EditTree,
         EditRegistry, MoveHead, List, CollectStep, Read, ReadFails, Note,
         Relist, Finish
<1>3. UNCHANGED meddled
  BY <1>1
     DEF Next, vars, historyVars, ReadRegistry, ReadHead, ListChanges,
         DiffChanges, GitFails, Collect, CollectFails, Verify, EditTree,
         EditRegistry, MoveHead
<1>. QED
  BY <1>1, <1>2, <1>3
     DEF Next, GitFails, Collect, CollectFails, EditTree

LEMMA QuietNext == IInv /\ Quiet /\ [Next]_vars => Quiet'
<1> SUFFICES ASSUME IInv, Quiet, [Next]_vars, ~meddled'
             PROVE  Quiet'
  BY DEF Quiet, Foreseen, AsRead
<1>1. ~meddled /\ UNCHANGED treeVars
  BY QuietStep
<1>2. UNCHANGED Listed
  BY <1>1 DEF treeVars, Listed
<1>3. SnapshotTypeOK /\ NotYet
  BY DEF IInv, SnapshotInv
<1>4. ASSUME UNCHANGED snapshotVars PROVE AsRead'
  <2>1. UNCHANGED Listed /\ \A p \in Paths : UNCHANGED Entry(p)
    BY <1>4 DEF snapshotVars, treeVars, collectVars, Listed, Entry
  <2>. QED
    BY <1>1, <1>4, <2>1
       DEF Quiet, AsRead, Pass, snapshotVars, treeVars, collectVars
<1>5. ASSUME UNCHANGED against PROVE UNCHANGED <<Deleted, Renamable>>
  BY <1>1, <1>5 DEF treeVars, Deleted, Renamable, Renamings
<1>6. CASE ReadRegistry \/ ReadHead \/ ListChanges
  <2>1. UNCHANGED snapshotVars /\ stage = "idle"
    BY <1>6 DEF IInv, Together, ReadRegistry, ReadHead, ListChanges
  <2>2. phase' = "collect" => base' = None
    BY <1>6 DEF ReadRegistry, ReadHead, ListChanges
  <2>. QED
    BY <1>4, <2>1, <2>2 DEF Quiet, Foreseen, snapshotVars, collectVars
<1>7. CASE DiffChanges
  <2>1. UNCHANGED snapshotVars /\ stage = "idle" /\ UNCHANGED against
    BY <1>7 DEF IInv, Together, DiffChanges
  <2>2. Deleted \ Renamable \subseteq gone'
    BY <1>7 DEF DiffChanges, Renamable
  <2>. QED
    BY <1>4, <1>5, <2>1, <2>2
       DEF Quiet, Foreseen, snapshotVars, collectVars
<1>8. CASE Verify \/ EditRegistry \/ MoveHead \/ UNCHANGED vars
  <2>1. /\ UNCHANGED snapshotVars /\ UNCHANGED <<base, against, gone>>
        /\ phase' # "collect" \/ UNCHANGED phase
    BY <1>8 DEF Verify, EditRegistry, MoveHead, vars, reviewVars
  <2>. QED
    BY <1>1, <1>4, <1>5, <2>1
       DEF Quiet, Foreseen, snapshotVars, collectVars
<1>9. CASE Collect
  <2>1. phase = "collect" /\ UNCHANGED <<base, against, gone>>
    BY <1>9 DEF Collect
  <2>2. CASE List(gone)
    <3>1. Foreseen'
      BY <1>1, <1>5, <2>1, <2>2 DEF Quiet, Foreseen, List
    <3>2. Pass(first, todo)'
      BY <1>2, <1>3, <2>2 DEF Pass, List, NotYet, NothingRead
    <3>. QED
      BY <1>2, <2>2, <3>1, <3>2 DEF Quiet, AsRead, List
  <2>3. CASE CollectStep
    <3>1. /\ UNCHANGED ignored /\ stage # "idle" /\ stage' # "idle"
      BY <1>3, <2>3
         DEF SnapshotTypeOK, CollectStep, Read, ReadFails, Note, Relist,
             Finish
    <3>2. Foreseen'
      BY <1>1, <1>5, <2>1, <3>1 DEF Quiet, Foreseen
    <3>3. \A p \in Paths : UNCHANGED Entry(p)
      BY <1>1, <3>1 DEF treeVars, Entry
    <3>4. AsRead
      BY DEF Quiet
    <3>5. CASE \E p \in Paths : Read(p) \/ ReadFails(p)
      <4>1. PICK p \in Paths : Read(p) \/ ReadFails(p)
        BY <3>5
      <4>2. p \in todo \ todo'
        BY <4>1 DEF Read, ReadFails, Note
      <4>3. Read(p)
        BY <1>9, <4>1, <4>2, QuietStep
      <4>4. /\ p \in Listed /\ todo' = todo \ {p} /\ UNCHANGED stage
            /\ \/ /\ stage = "first"
                  /\ first' = [first EXCEPT ![p] = Entry(p)]
               \/ /\ stage = "second"
                  /\ second' = [second EXCEPT ![p] = Entry(p)]
                  /\ UNCHANGED first
        BY <1>1, <3>4, <4>2, <4>3 DEF AsRead, Read, Note
      <4>5. CASE stage = "first"
        <5>1. Pass(first, todo)'
          BY <1>1, <1>2, <1>3, <3>3, <3>4, <4>4, <4>5
             DEF AsRead, Pass, SnapshotTypeOK
        <5>. QED
          BY <1>1, <1>2, <3>2, <3>4, <4>4, <4>5, <5>1 DEF Quiet, AsRead
      <4>6. CASE stage = "second"
        <5>1. Pass(second, todo)'
          BY <1>1, <1>2, <1>3, <3>3, <3>4, <4>4, <4>6
             DEF AsRead, Pass, SnapshotTypeOK
        <5>2. Pass(first, {})'
          BY <1>1, <1>2, <3>3, <3>4, <4>4, <4>6 DEF AsRead, Pass
        <5>. QED
          BY <1>1, <1>2, <3>2, <3>4, <4>4, <4>6, <5>1, <5>2
             DEF Quiet, AsRead
      <4>. QED
        BY <4>4, <4>5, <4>6
    <3>6. CASE Relist
      <4>1. Pass(second, todo)'
        BY <1>2, <1>3, <3>6 DEF Pass, Relist, NotYet, NothingRead
      <4>2. Pass(first, {})'
        BY <1>1, <1>2, <3>3, <3>4, <3>6 DEF AsRead, Pass, Relist
      <4>. QED
        BY <1>2, <3>2, <3>6, <4>1, <4>2 DEF Quiet, AsRead, Relist
    <3>7. CASE Finish
      <4>1. Pass(first, {})' /\ Pass(second, todo)'
        BY <1>1, <1>2, <3>3, <3>4, <3>7 DEF AsRead, Pass, Finish
      <4>. QED
        BY <1>1, <1>2, <3>2, <3>4, <3>7, <4>1 DEF Quiet, AsRead, Finish
    <3>. QED
      BY <2>3, <3>5, <3>6, <3>7 DEF CollectStep
  <2>. QED
    BY <1>9, <2>2, <2>3 DEF Collect
<1>. QED
  BY <1>6, <1>7, <1>8, <1>9, QuietStep

\* Deleting tracked files does not make the coverage incomplete by itself, for
\* any similarity of contents by which Git pairs renames, and wherever HEAD
\* moves during the check.
THEOREM DeletedFilesTolerated == Spec => []DeletionsTolerated
<1>1. Init => Quiet
  BY DEF Init, SnapshotInit, Quiet, Foreseen, AsRead
<1>2. IInv /\ Quiet => DeletionsTolerated
  <2> SUFFICES ASSUME IInv, Quiet, phase = "done", report.results # None,
                      ~meddled, base # None,
                      \A p \in Paths :
                          /\ tree[p] # Undecodable
                          /\ p \in tracked /\ tree[p] = Absent =>
                                against[p] # Absent /\ p \notin Renamable
               PROVE  CoverageComplete
    BY DEF DeletionsTolerated
  <2>1. stage = "collected" /\ todo = {} /\ SnapshotTypeOK
    BY DEF IInv, SnapshotInv, SnapshotTypeOK, Together, Failure
  <2>2. Pass(first, {}) /\ Pass(second, {})
    BY <2>1 DEF Quiet, AsRead
  <2>3. first = second
    BY <2>1, <2>2 DEF Pass, SnapshotTypeOK
  <2>4. ASSUME NEW p \in Paths PROVE second[p] \notin {Undecodable, Missing}
    <3>1. CASE p \in Listed
      <4>1. second[p] = Entry(p) /\ tree[p] # Undecodable
        BY <2>2, <2>4, <3>1 DEF Pass
      <4>2. tree[p] = Absent => p \in ignored
        BY <2>1, <3>1
           DEF Quiet, Foreseen, Listed, Deleted, C!Removed, C!Committed
      <4>3. tree[p] \in States
        BY <2>1 DEF SnapshotTypeOK
      <4>. QED
        BY <4>1, <4>2, <4>3, SnapshotAssumption DEF Entry, States
    <3>2. CASE p \notin Listed
      BY <2>2, <3>2, SnapshotAssumption DEF Pass
    <3>. QED
      BY <3>1, <3>2
  <2>. QED
    BY <2>3, <2>4 DEF CoverageComplete, Stable, Inventory
<1>. QED
  BY <1>1, <1>2, QuietNext, Invariance, PTL DEF Spec

=============================================================================
