---------------------------- MODULE Uploads_proofs ----------------------------
(***************************************************************************)
(* Theorems about Uploads, for any number of files and of batches, and any *)
(* limit of batches at once.  A batch that is being deleted has left the   *)
(* registry and never comes back, since its creation is over when the      *)
(* browser knows its id: so no write of it can start any more.             *)
(***************************************************************************)
EXTENDS Uploads, FiniteSetTheorems, TLAPS

FiniteRegistry == IsFiniteSet(registry)

\* What a write knows of itself: a replacement was agreed to, what is about to
\* be published is whole, and what was published can be found.
WritesAgree ==
  \A b \in Batches :
    LET w == write[b]
    IN /\ w # Idle /\ w.mode = "replace" => w.agreed
       /\ w.at = "publishing" => w.whole
       /\ w.at = "published" /\ workspace # "gone" =>
            disk[w.file] = "ours" \/ w.file \in copies

\* The browser listens to the write of the file it works on, and deletes only
\* a batch whose creation is over.  No choice is left over for the next file.
Attends ==
  /\ step \in {"idle", "creating", "next"} => mode = "error"
  /\ step = "sending" /\ write[batch] # Idle => write[batch].file = current
  /\ step = "creating" => creation[batch] # "new"
  /\ step \in {"next", "sending", "asking", "ending"} => creation[batch] \in {"made", "over"}

\* A batch that is being deleted never comes back.
Deleted ==
  \A b \in Batches :
    /\ deletion[b] # "none" => creation[b] \in {"made", "over"}
    /\ deletion[b] \in {"waiting", "answered"} => b \notin registry

IInv ==
  /\ TypeOK /\ FiniteRegistry /\ WritesAgree /\ Attends /\ Deleted
  /\ NoClobber /\ WholeOrNothing /\ CancelIsFinal

LEMMA NoneIsNew == None \notin Batches /\ None \notin Files
BY BoundAssumption DEF Files

LEMMA InitInv == Init => IInv
<1> SUFFICES ASSUME Init PROVE IInv
  OBVIOUS
<1> USE DEF Init, Idle
<1>1. registry = {} /\ IsFiniteSet(registry) /\ Cardinality(registry) <= MaxBatches
  BY FS_EmptySet, BoundAssumption
<1>2. TypeOK
  BY <1>1, NoneIsNew DEF TypeOK, WritesTo
<1> QED
  BY <1>1, <1>2 DEF IInv, FiniteRegistry, WritesAgree, Attends, Deleted, NoClobber,
                    WholeOrNothing, CancelIsFinal

\* A registry grows by one batch when there is room for it.
LEMMA FewerBatches ==
  ASSUME IInv, NEW S \in SUBSET registry
  PROVE  IsFiniteSet(S) /\ Cardinality(S) <= MaxBatches
<1>1. IsFiniteSet(registry) /\ Cardinality(registry) <= MaxBatches
  BY DEF IInv, FiniteRegistry, TypeOK
<1>2. IsFiniteSet(S) /\ Cardinality(S) <= Cardinality(registry)
  BY <1>1, FS_Subset
<1> QED
  BY <1>1, <1>2, FS_CardinalityType, BoundAssumption

LEMMA OneMoreBatch ==
  ASSUME IInv, NEW b, Cardinality(registry) < MaxBatches
  PROVE  IsFiniteSet(registry \cup {b}) /\ Cardinality(registry \cup {b}) <= MaxBatches
<1>1. IsFiniteSet(registry) /\ Cardinality(registry) \in Nat
  BY FS_CardinalityType DEF IInv, FiniteRegistry
<1>2. IsFiniteSet(registry \cup {b})
      /\ Cardinality(registry \cup {b}) \in {Cardinality(registry), Cardinality(registry) + 1}
  BY <1>1, FS_AddElement
<1> QED
  BY <1>1, <1>2, BoundAssumption

LEMMA RegistryChanges ==
  IInv /\ [Next]_vars =>
      \/ registry' \subseteq registry
      \/ \E b \in Batches :
          Cardinality(registry) < MaxBatches /\ registry' = registry \cup {b}
<1> SUFFICES ASSUME IInv, [Next]_vars
             PROVE  \/ registry' \subseteq registry
                    \/ \E b \in Batches :
                        Cardinality(registry) < MaxBatches /\ registry' = registry \cup {b}
  OBVIOUS
<1> USE DEF operation, browser, runtime, files
<1>1. CASE Select
  BY <1>1 DEF Select, Begin
<1>2. CASE Retry
  BY <1>2 DEF Retry, Begin
<1>3. CASE GetsBatch
  BY <1>3 DEF GetsBatch
<1>4. CASE GetsNoBatch
  BY <1>4 DEF GetsNoBatch, Breaks, NoOperation
<1>5. CASE Send
  BY <1>5 DEF Send, Put
<1>6. CASE Finish
  BY <1>6 DEF Finish, DeletesBatch
<1>7. CASE Succeeds
  BY <1>7 DEF Succeeds, Leaves, Hears
<1>8. CASE Conflicts
  BY <1>8 DEF Conflicts, Hears
<1>9. CASE Chooses
  BY <1>9 DEF Chooses, Choose, Leaves, Put
<1>10. CASE Fails
  BY <1>10 DEF Fails, Leaves, Hears, DeletesBatch
<1>11. CASE Disconnects
  BY <1>11 DEF Disconnects, Leaves, Breaks, DeletesBatch
<1>12. CASE Cancel
  BY <1>12 DEF Cancel, Leaves
<1>13. CASE Ended
  BY <1>13 DEF Ended, NoOperation
<1>14. CASE LeavePage
  BY <1>14 DEF LeavePage, NoOperation, Breaks
<1>15. CASE \E b \in Batches : CreateBegins(b)
  <2>1. Cardinality(registry) \in Nat /\ MaxBatches \in Nat
    BY FS_CardinalityType, BoundAssumption DEF IInv, FiniteRegistry
  <2> QED
    BY <1>15, <2>1 DEF CreateBegins
<1>16. CASE \E b \in Batches : RefusesManifest(b)
  BY <1>16 DEF RefusesManifest
<1>17. CASE \E b \in Batches : CreateEnds(b)
  BY <1>17 DEF CreateEnds
<1>18. CASE \E b \in Batches : CreateFails(b)
  BY <1>18 DEF CreateFails
<1>19. CASE \E b \in Batches : Expires(b)
  BY <1>19 DEF Expires
<1>20. CASE \E b \in Batches : DeleteBegins(b)
  BY <1>20 DEF DeleteBegins
<1>21. CASE \E b \in Batches : DeleteEnds(b)
  BY <1>21 DEF DeleteEnds, Settled
<1>22. CASE \E b \in Batches : Starts(b)
  BY <1>22 DEF Starts, To, Taken, Stopped
<1>23. CASE \E b \in Batches : Receives(b)
  BY <1>23 DEF Receives, Complete, Stopped
<1>24. CASE \E b \in Batches : Publishes(b)
  BY <1>24 DEF Publishes, Rename, Link, Content, To
<1>25. CASE \E b \in Batches : WriteFails(b)
  BY <1>25 DEF WriteFails, To
<1>26. CASE \E b \in Batches : Unheard(b)
  BY <1>26 DEF Unheard
<1>27. CASE \E f \in Files : Appears(f)
  BY <1>27 DEF Appears
<1>28. CASE CloseBegins
  BY <1>28 DEF CloseBegins
<1>29. CASE CloseEnds
  BY <1>29 DEF CloseEnds, Settled
<1>30. CASE Crash
  BY <1>30 DEF Crash
<1>31. CASE UNCHANGED vars
  BY <1>31 DEF vars
<1> QED
  BY <1>1, <1>2, <1>3, <1>4, <1>5, <1>6, <1>7, <1>8, <1>9, <1>10, <1>11, <1>12, <1>13, <1>14,
     <1>15, <1>16, <1>17, <1>18, <1>19, <1>20, <1>21, <1>22, <1>23, <1>24, <1>25, <1>26, <1>27,
     <1>28, <1>29, <1>30, <1>31
  DEF Next

LEMMA RegistryStep ==
  IInv /\ [Next]_vars => IsFiniteSet(registry') /\ Cardinality(registry') <= MaxBatches
<1> SUFFICES ASSUME IInv, [Next]_vars
             PROVE  IsFiniteSet(registry') /\ Cardinality(registry') <= MaxBatches
  OBVIOUS
<1>1. CASE registry' \subseteq registry
  BY <1>1, FewerBatches
<1>2. CASE \E b \in Batches : Cardinality(registry) < MaxBatches /\ registry' = registry \cup {b}
  BY <1>2, OneMoreBatch
<1> QED
  BY <1>1, <1>2, RegistryChanges

LEMMA TypeStep == IInv /\ [Next]_vars => TypeOK'
<1> SUFFICES ASSUME IInv, [Next]_vars
             PROVE  TypeOK'
  OBVIOUS
<1>0. Cardinality(registry') <= MaxBatches
  BY RegistryStep
<1> USE <1>0
<1> USE NoneIsNew DEF IInv, TypeOK, Idle, WritesTo, Places, operation, browser, runtime, files
<1>1. CASE Select
  BY <1>1 DEF Select, Begin
<1>2. CASE Retry
  BY <1>2 DEF Retry, Begin
<1>3. CASE GetsBatch
  BY <1>3 DEF GetsBatch
<1>4. CASE GetsNoBatch
  BY <1>4 DEF GetsNoBatch, Breaks, NoOperation
<1>5. CASE Send
  BY <1>5 DEF Send, Put
<1>6. CASE Finish
  BY <1>6 DEF Finish, DeletesBatch
<1>7. CASE Succeeds
  BY <1>7 DEF Succeeds, Leaves, Hears
<1>8. CASE Conflicts
  BY <1>8 DEF Conflicts, Hears
<1>9. CASE Chooses
  <2>1. PICK choice \in {"replace", "rename", "skip"} :
          Choose(choice) /\ policy' \in {"none", "replace", "rename", "skip"}
    BY <1>9 DEF Chooses
  <2>2. CASE choice = "skip"
    BY <1>9, <2>1, <2>2 DEF Chooses, Choose, Leaves
  <2>3. CASE choice # "skip"
    <3>1. batch \in Batches /\ current \in Files /\ choice \in {"replace", "rename"}
      BY <1>9, <2>1, <2>3 DEF Chooses
    <3>2. write' = [write EXCEPT ![batch] =
                      [at |-> "begun", file |-> current, mode |-> choice, whole |-> FALSE,
                       agreed |-> choice = "replace"]]
      BY <2>1, <2>3 DEF Choose, Put
    <3>3. (choice = "replace") \in BOOLEAN
      OBVIOUS
    <3>4. write' \in [Batches -> WritesTo(Files)]
      BY <3>1, <3>2, <3>3
    <3> QED
      BY <1>9, <2>1, <2>3, <3>4 DEF Chooses, Choose
  <2> QED
    BY <2>2, <2>3
<1>10. CASE Fails
  BY <1>10 DEF Fails, Leaves, Hears, DeletesBatch
<1>11. CASE Disconnects
  BY <1>11 DEF Disconnects, Leaves, Breaks, DeletesBatch
<1>12. CASE Cancel
  BY <1>12 DEF Cancel, Leaves
<1>13. CASE Ended
  BY <1>13 DEF Ended, NoOperation
<1>14. CASE LeavePage
  BY <1>14 DEF LeavePage, NoOperation, Breaks
<1>15. CASE \E b \in Batches : CreateBegins(b)
  BY <1>15 DEF CreateBegins
<1>16. CASE \E b \in Batches : RefusesManifest(b)
  BY <1>16 DEF RefusesManifest
<1>17. CASE \E b \in Batches : CreateEnds(b)
  BY <1>17 DEF CreateEnds
<1>18. CASE \E b \in Batches : CreateFails(b)
  BY <1>18 DEF CreateFails
<1>19. CASE \E b \in Batches : Expires(b)
  BY <1>19 DEF Expires
<1>20. CASE \E b \in Batches : DeleteBegins(b)
  BY <1>20 DEF DeleteBegins
<1>21. CASE \E b \in Batches : DeleteEnds(b)
  BY <1>21 DEF DeleteEnds, Settled
<1>22. CASE \E b \in Batches : Starts(b)
  BY <1>22 DEF Starts, To, Taken, Stopped
<1>23. CASE \E b \in Batches : Receives(b)
  BY <1>23 DEF Receives, Complete, Stopped
<1>24. CASE \E b \in Batches : Publishes(b)
  BY <1>24 DEF Publishes, Rename, Link, Content, To
<1>25. CASE \E b \in Batches : WriteFails(b)
  BY <1>25 DEF WriteFails, To
<1>26. CASE \E b \in Batches : Unheard(b)
  BY <1>26 DEF Unheard
<1>27. CASE \E f \in Files : Appears(f)
  BY <1>27 DEF Appears
<1>28. CASE CloseBegins
  BY <1>28 DEF CloseBegins
<1>29. CASE CloseEnds
  BY <1>29 DEF CloseEnds, Settled
<1>30. CASE Crash
  BY <1>30 DEF Crash
<1>31. CASE UNCHANGED vars
  BY <1>31 DEF vars
<1> QED
  BY <1>1, <1>2, <1>3, <1>4, <1>5, <1>6, <1>7, <1>8, <1>9, <1>10, <1>11, <1>12, <1>13, <1>14,
     <1>15, <1>16, <1>17, <1>18, <1>19, <1>20, <1>21, <1>22, <1>23, <1>24, <1>25, <1>26, <1>27,
     <1>28, <1>29, <1>30, <1>31
  DEF Next

LEMMA WriteStep == IInv /\ [Next]_vars => WritesAgree'
<1> SUFFICES ASSUME IInv, [Next]_vars
             PROVE  WritesAgree'
  OBVIOUS
<1> USE NoneIsNew DEF IInv, TypeOK, WritesAgree, Attends, Idle, WritesTo, Places, operation,
     browser, runtime, files
<1>1. CASE Select
  BY <1>1 DEF Select, Begin
<1>2. CASE Retry
  BY <1>2 DEF Retry, Begin
<1>3. CASE GetsBatch
  BY <1>3 DEF GetsBatch
<1>4. CASE GetsNoBatch
  BY <1>4 DEF GetsNoBatch, Breaks, NoOperation
<1>5. CASE Send
  BY <1>5 DEF Send, Put
<1>6. CASE Finish
  BY <1>6 DEF Finish, DeletesBatch
<1>7. CASE Succeeds
  BY <1>7 DEF Succeeds, Leaves, Hears
<1>8. CASE Conflicts
  BY <1>8 DEF Conflicts, Hears
<1>9. CASE Chooses
  <2>1. PICK choice \in {"replace", "rename", "skip"} : Choose(choice)
    BY <1>9 DEF Chooses
  <2>2. CASE choice = "skip"
    BY <1>9, <2>1, <2>2 DEF Chooses, Choose
  <2>3. CASE choice # "skip"
    <3>1. write' = [write EXCEPT ![batch] =
                      [at |-> "begun", file |-> current, mode |-> choice, whole |-> FALSE,
                       agreed |-> choice = "replace"]]
      BY <2>1, <2>3 DEF Choose, Put
    <3>2. batch \in Batches /\ UNCHANGED <<workspace, disk, copies>>
      BY <1>9 DEF Chooses
    <3> QED
      BY <3>1, <3>2
  <2> QED
    BY <2>2, <2>3
<1>10. CASE Fails
  BY <1>10 DEF Fails, Leaves, Hears, DeletesBatch
<1>11. CASE Disconnects
  BY <1>11 DEF Disconnects, Leaves, Breaks, DeletesBatch
<1>12. CASE Cancel
  BY <1>12 DEF Cancel, Leaves
<1>13. CASE Ended
  BY <1>13 DEF Ended, NoOperation
<1>14. CASE LeavePage
  BY <1>14 DEF LeavePage, NoOperation, Breaks
<1>15. CASE \E b \in Batches : CreateBegins(b)
  BY <1>15 DEF CreateBegins
<1>16. CASE \E b \in Batches : RefusesManifest(b)
  BY <1>16 DEF RefusesManifest
<1>17. CASE \E b \in Batches : CreateEnds(b)
  BY <1>17 DEF CreateEnds
<1>18. CASE \E b \in Batches : CreateFails(b)
  BY <1>18 DEF CreateFails
<1>19. CASE \E b \in Batches : Expires(b)
  BY <1>19 DEF Expires
<1>20. CASE \E b \in Batches : DeleteBegins(b)
  BY <1>20 DEF DeleteBegins
<1>21. CASE \E b \in Batches : DeleteEnds(b)
  BY <1>21 DEF DeleteEnds, Settled
<1>22. CASE \E b \in Batches : Starts(b)
  BY <1>22 DEF Starts, To, Taken, Stopped
<1>23. CASE \E b \in Batches : Receives(b)
  BY <1>23 DEF Receives, Complete, Stopped
<1>24. CASE \E b \in Batches : Publishes(b)
  BY <1>24 DEF Publishes, Rename, Link, Content, To
<1>25. CASE \E b \in Batches : WriteFails(b)
  BY <1>25 DEF WriteFails, To
<1>26. CASE \E b \in Batches : Unheard(b)
  BY <1>26 DEF Unheard
<1>27. CASE \E f \in Files : Appears(f)
  BY <1>27 DEF Appears
<1>28. CASE CloseBegins
  BY <1>28 DEF CloseBegins
<1>29. CASE CloseEnds
  BY <1>29 DEF CloseEnds, Settled
<1>30. CASE Crash
  BY <1>30 DEF Crash
<1>31. CASE UNCHANGED vars
  BY <1>31 DEF vars
<1> QED
  BY <1>1, <1>2, <1>3, <1>4, <1>5, <1>6, <1>7, <1>8, <1>9, <1>10, <1>11, <1>12, <1>13, <1>14,
     <1>15, <1>16, <1>17, <1>18, <1>19, <1>20, <1>21, <1>22, <1>23, <1>24, <1>25, <1>26, <1>27,
     <1>28, <1>29, <1>30, <1>31
  DEF Next

LEMMA DiskStep == IInv /\ [Next]_vars => NoClobber' /\ WholeOrNothing'
<1> SUFFICES ASSUME IInv, [Next]_vars
             PROVE  NoClobber' /\ WholeOrNothing'
  OBVIOUS
<1> USE NoneIsNew DEF IInv, TypeOK, WritesAgree, NoClobber, WholeOrNothing, Attends, Idle,
     WritesTo, Places, operation, browser, runtime, files
<1>1. CASE Select
  BY <1>1 DEF Select, Begin
<1>2. CASE Retry
  BY <1>2 DEF Retry, Begin
<1>3. CASE GetsBatch
  BY <1>3 DEF GetsBatch
<1>4. CASE GetsNoBatch
  BY <1>4 DEF GetsNoBatch, Breaks, NoOperation
<1>5. CASE Send
  BY <1>5 DEF Send, Put
<1>6. CASE Finish
  BY <1>6 DEF Finish, DeletesBatch
<1>7. CASE Succeeds
  BY <1>7 DEF Succeeds, Leaves, Hears
<1>8. CASE Conflicts
  BY <1>8 DEF Conflicts, Hears
<1>9. CASE Chooses
  BY <1>9 DEF Chooses, Choose, Leaves, Put
<1>10. CASE Fails
  BY <1>10 DEF Fails, Leaves, Hears, DeletesBatch
<1>11. CASE Disconnects
  BY <1>11 DEF Disconnects, Leaves, Breaks, DeletesBatch
<1>12. CASE Cancel
  BY <1>12 DEF Cancel, Leaves
<1>13. CASE Ended
  BY <1>13 DEF Ended, NoOperation
<1>14. CASE LeavePage
  BY <1>14 DEF LeavePage, NoOperation, Breaks
<1>15. CASE \E b \in Batches : CreateBegins(b)
  BY <1>15 DEF CreateBegins
<1>16. CASE \E b \in Batches : RefusesManifest(b)
  BY <1>16 DEF RefusesManifest
<1>17. CASE \E b \in Batches : CreateEnds(b)
  BY <1>17 DEF CreateEnds
<1>18. CASE \E b \in Batches : CreateFails(b)
  BY <1>18 DEF CreateFails
<1>19. CASE \E b \in Batches : Expires(b)
  BY <1>19 DEF Expires
<1>20. CASE \E b \in Batches : DeleteBegins(b)
  BY <1>20 DEF DeleteBegins
<1>21. CASE \E b \in Batches : DeleteEnds(b)
  BY <1>21 DEF DeleteEnds, Settled
<1>22. CASE \E b \in Batches : Starts(b)
  BY <1>22 DEF Starts, To, Taken, Stopped
<1>23. CASE \E b \in Batches : Receives(b)
  BY <1>23 DEF Receives, Complete, Stopped
<1>24. CASE \E b \in Batches : Publishes(b)
  BY <1>24 DEF Publishes, Rename, Link, Content, To
<1>25. CASE \E b \in Batches : WriteFails(b)
  BY <1>25 DEF WriteFails, To
<1>26. CASE \E b \in Batches : Unheard(b)
  BY <1>26 DEF Unheard
<1>27. CASE \E f \in Files : Appears(f)
  BY <1>27 DEF Appears
<1>28. CASE CloseBegins
  BY <1>28 DEF CloseBegins
<1>29. CASE CloseEnds
  BY <1>29 DEF CloseEnds, Settled
<1>30. CASE Crash
  BY <1>30 DEF Crash
<1>31. CASE UNCHANGED vars
  BY <1>31 DEF vars
<1> QED
  BY <1>1, <1>2, <1>3, <1>4, <1>5, <1>6, <1>7, <1>8, <1>9, <1>10, <1>11, <1>12, <1>13, <1>14,
     <1>15, <1>16, <1>17, <1>18, <1>19, <1>20, <1>21, <1>22, <1>23, <1>24, <1>25, <1>26, <1>27,
     <1>28, <1>29, <1>30, <1>31
  DEF Next

LEMMA AttendStep == IInv /\ [Next]_vars => Attends'
<1> SUFFICES ASSUME IInv, [Next]_vars
             PROVE  Attends'
  OBVIOUS
<1> USE NoneIsNew DEF IInv, TypeOK, Attends, Idle, WritesTo, Places, operation, browser,
     runtime, files
<1>1. CASE Select
  BY <1>1 DEF Select, Begin
<1>2. CASE Retry
  BY <1>2 DEF Retry, Begin
<1>3. CASE GetsBatch
  BY <1>3 DEF GetsBatch
<1>4. CASE GetsNoBatch
  BY <1>4 DEF GetsNoBatch, Breaks, NoOperation
<1>5. CASE Send
  BY <1>5 DEF Send, Put
<1>6. CASE Finish
  BY <1>6 DEF Finish, DeletesBatch
<1>7. CASE Succeeds
  BY <1>7 DEF Succeeds, Leaves, Hears
<1>8. CASE Conflicts
  BY <1>8 DEF Conflicts, Hears
<1>9. CASE Chooses
  BY <1>9 DEF Chooses, Choose, Leaves, Put
<1>10. CASE Fails
  BY <1>10 DEF Fails, Leaves, Hears, DeletesBatch
<1>11. CASE Disconnects
  BY <1>11 DEF Disconnects, Leaves, Breaks, DeletesBatch
<1>12. CASE Cancel
  BY <1>12 DEF Cancel, Leaves
<1>13. CASE Ended
  BY <1>13 DEF Ended, NoOperation
<1>14. CASE LeavePage
  BY <1>14 DEF LeavePage, NoOperation, Breaks
<1>15. CASE \E b \in Batches : CreateBegins(b)
  BY <1>15 DEF CreateBegins
<1>16. CASE \E b \in Batches : RefusesManifest(b)
  BY <1>16 DEF RefusesManifest
<1>17. CASE \E b \in Batches : CreateEnds(b)
  BY <1>17 DEF CreateEnds
<1>18. CASE \E b \in Batches : CreateFails(b)
  BY <1>18 DEF CreateFails
<1>19. CASE \E b \in Batches : Expires(b)
  BY <1>19 DEF Expires
<1>20. CASE \E b \in Batches : DeleteBegins(b)
  BY <1>20 DEF DeleteBegins
<1>21. CASE \E b \in Batches : DeleteEnds(b)
  BY <1>21 DEF DeleteEnds, Settled
<1>22. CASE \E b \in Batches : Starts(b)
  BY <1>22 DEF Starts, To, Taken, Stopped
<1>23. CASE \E b \in Batches : Receives(b)
  BY <1>23 DEF Receives, Complete, Stopped
<1>24. CASE \E b \in Batches : Publishes(b)
  BY <1>24 DEF Publishes, Rename, Link, Content, To
<1>25. CASE \E b \in Batches : WriteFails(b)
  BY <1>25 DEF WriteFails, To
<1>26. CASE \E b \in Batches : Unheard(b)
  BY <1>26 DEF Unheard
<1>27. CASE \E f \in Files : Appears(f)
  BY <1>27 DEF Appears
<1>28. CASE CloseBegins
  BY <1>28 DEF CloseBegins
<1>29. CASE CloseEnds
  BY <1>29 DEF CloseEnds, Settled
<1>30. CASE Crash
  BY <1>30 DEF Crash
<1>31. CASE UNCHANGED vars
  BY <1>31 DEF vars
<1> QED
  BY <1>1, <1>2, <1>3, <1>4, <1>5, <1>6, <1>7, <1>8, <1>9, <1>10, <1>11, <1>12, <1>13, <1>14,
     <1>15, <1>16, <1>17, <1>18, <1>19, <1>20, <1>21, <1>22, <1>23, <1>24, <1>25, <1>26, <1>27,
     <1>28, <1>29, <1>30, <1>31
  DEF Next

LEMMA DeleteStep == IInv /\ [Next]_vars => Deleted' /\ CancelIsFinal'
<1> SUFFICES ASSUME IInv, [Next]_vars
             PROVE  Deleted' /\ CancelIsFinal'
  OBVIOUS
<1> USE NoneIsNew DEF IInv, TypeOK, Attends, Deleted, CancelIsFinal, Idle, WritesTo, Places,
     operation, browser, runtime, files
<1>1. CASE Select
  BY <1>1 DEF Select, Begin
<1>2. CASE Retry
  BY <1>2 DEF Retry, Begin
<1>3. CASE GetsBatch
  BY <1>3 DEF GetsBatch
<1>4. CASE GetsNoBatch
  BY <1>4 DEF GetsNoBatch, Breaks, NoOperation
<1>5. CASE Send
  BY <1>5 DEF Send, Put
<1>6. CASE Finish
  BY <1>6 DEF Finish, DeletesBatch
<1>7. CASE Succeeds
  BY <1>7 DEF Succeeds, Leaves, Hears
<1>8. CASE Conflicts
  BY <1>8 DEF Conflicts, Hears
<1>9. CASE Chooses
  BY <1>9 DEF Chooses, Choose, Leaves, Put
<1>10. CASE Fails
  BY <1>10 DEF Fails, Leaves, Hears, DeletesBatch
<1>11. CASE Disconnects
  BY <1>11 DEF Disconnects, Leaves, Breaks, DeletesBatch
<1>12. CASE Cancel
  BY <1>12 DEF Cancel, Leaves
<1>13. CASE Ended
  BY <1>13 DEF Ended, NoOperation
<1>14. CASE LeavePage
  BY <1>14 DEF LeavePage, NoOperation, Breaks
<1>15. CASE \E b \in Batches : CreateBegins(b)
  BY <1>15 DEF CreateBegins
<1>16. CASE \E b \in Batches : RefusesManifest(b)
  BY <1>16 DEF RefusesManifest
<1>17. CASE \E b \in Batches : CreateEnds(b)
  BY <1>17 DEF CreateEnds
<1>18. CASE \E b \in Batches : CreateFails(b)
  BY <1>18 DEF CreateFails
<1>19. CASE \E b \in Batches : Expires(b)
  BY <1>19 DEF Expires
<1>20. CASE \E b \in Batches : DeleteBegins(b)
  BY <1>20 DEF DeleteBegins
<1>21. CASE \E b \in Batches : DeleteEnds(b)
  BY <1>21 DEF DeleteEnds, Settled
<1>22. CASE \E b \in Batches : Starts(b)
  BY <1>22 DEF Starts, To, Taken, Stopped
<1>23. CASE \E b \in Batches : Receives(b)
  BY <1>23 DEF Receives, Complete, Stopped
<1>24. CASE \E b \in Batches : Publishes(b)
  BY <1>24 DEF Publishes, Rename, Link, Content, To
<1>25. CASE \E b \in Batches : WriteFails(b)
  BY <1>25 DEF WriteFails, To
<1>26. CASE \E b \in Batches : Unheard(b)
  BY <1>26 DEF Unheard
<1>27. CASE \E f \in Files : Appears(f)
  BY <1>27 DEF Appears
<1>28. CASE CloseBegins
  BY <1>28 DEF CloseBegins
<1>29. CASE CloseEnds
  BY <1>29 DEF CloseEnds, Settled
<1>30. CASE Crash
  BY <1>30 DEF Crash
<1>31. CASE UNCHANGED vars
  BY <1>31 DEF vars
<1> QED
  BY <1>1, <1>2, <1>3, <1>4, <1>5, <1>6, <1>7, <1>8, <1>9, <1>10, <1>11, <1>12, <1>13, <1>14,
     <1>15, <1>16, <1>17, <1>18, <1>19, <1>20, <1>21, <1>22, <1>23, <1>24, <1>25, <1>26, <1>27,
     <1>28, <1>29, <1>30, <1>31
  DEF Next

\* The invariant holds in every reachable state.
THEOREM UploadsInvariant == Spec => []IInv
<1>1. IInv /\ [Next]_vars => IInv'
  BY RegistryStep, TypeStep, WriteStep, DiskStep, AttendStep, DeleteStep DEF IInv, FiniteRegistry
<1> QED
  BY InitInv, <1>1, PTL DEF Spec

\* Type correctness, with the limit of batches: it holds although a batch takes
\* its place before its directories are made, and gives it back in many ways.
THEOREM UploadsTypeCorrect == Spec => []TypeOK
<1>1. IInv => TypeOK
  BY DEF IInv
<1> QED
  BY <1>1, UploadsInvariant, PTL

\* Nothing of another is overwritten unless the user chose to replace it.
THEOREM NothingIsClobbered == Spec => []NoClobber
<1>1. IInv => NoClobber
  BY DEF IInv
<1> QED
  BY <1>1, UploadsInvariant, PTL

\* Visible files are complete, and what is reported as done is there.
THEOREM UploadsAreAtomic == Spec => []WholeOrNothing
<1>1. IInv => WholeOrNothing
  BY DEF IInv
<1> QED
  BY <1>1, UploadsInvariant, PTL

\* No write goes on once its batch is deleted, or the workspace.
THEOREM CancelledIsOver == Spec => []CancelIsFinal
<1>1. IInv => CancelIsFinal
  BY DEF IInv
<1> QED
  BY <1>1, UploadsInvariant, PTL
=============================================================================
