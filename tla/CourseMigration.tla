-------------------------- MODULE CourseMigration --------------------------
(***************************************************************************)
(* Assignments from before there were courses are given one whenever a     *)
(* server starts: MigrateLegacyCourses of server/internal/store/courses.go.*)
(* A start may be killed between any two statements, and two servers may   *)
(* start together; the rows are read with a lock held for the transaction. *)
(***************************************************************************)
EXTENDS Naturals, FiniteSets

CONSTANTS
  Starts,      \* servers that may be starting
  Legacy,      \* assignments without a course
  TeacherOf,   \* of an assignment
  Submitters,  \* of an assignment: the students who submitted to it
  Nobody

ASSUME MigrationAssumption ==
  /\ IsFiniteSet(Legacy)
  /\ Nobody \notin Starts
  /\ DOMAIN TeacherOf = Legacy /\ DOMAIN Submitters = Legacy

\* The database: a course is known by its number and belongs to a teacher.
Teachers == {TeacherOf[a] : a \in Legacy}
Numbers == 1..Cardinality(Legacy)
Database ==
  [courses : UNION {[ns -> Teachers] : ns \in SUBSET Numbers},
   courseOf : [Legacy -> Numbers \cup {0}],
   enrolled : SUBSET (Numbers \X UNION {Submitters[a] : a \in Legacy})]

VARIABLES
  committed,  \* the database as others see it
  lockedBy,   \* the start whose transaction holds the rows, or Nobody
  written,    \* the database as that transaction sees it
  toMigrate,  \* the assignments it still has to go through
  madeFor     \* the course it has made for a teacher

migrationVars == <<committed, lockedBy, written, toMigrate, madeFor>>

CourseMigrationTypeOK ==
  /\ committed \in Database /\ written \in Database
  /\ lockedBy \in Starts \cup {Nobody}
  /\ toMigrate \subseteq Legacy
  /\ madeFor \in [Teachers -> Numbers \cup {0}]

NoneMade == [t \in Teachers |-> 0]

CourseMigrationInit ==
  /\ committed = [courses |-> [n \in {} |-> 0], courseOf |-> [a \in Legacy |-> 0],
                  enrolled |-> {}]
  /\ lockedBy = Nobody
  /\ written = committed
  /\ toMigrate = {}
  /\ madeFor = NoneMade

-----------------------------------------------------------------------------
\* Reading FOR UPDATE waits for another transaction to end.
Unlocked == lockedBy = Nobody

BeginMigration(s) ==
  /\ Unlocked
  /\ lockedBy' = s
  /\ written' = committed
  /\ toMigrate' = {a \in Legacy : committed.courseOf[a] = 0}
  /\ madeFor' = NoneMade
  /\ UNCHANGED committed

\* The next assignment goes to the course of its teacher, made when it is the
\* first one, with those who submitted to it.
MigrateAssignment(a) ==
  /\ lockedBy # Nobody
  /\ a \in toMigrate
  /\ LET t == TeacherOf[a]
         new == CHOOSE n \in Numbers : n \notin DOMAIN written.courses
         c == IF madeFor[t] = 0 THEN new ELSE madeFor[t]
     IN /\ madeFor' = [madeFor EXCEPT ![t] = c]
        /\ written' =
             [courses |-> [n \in DOMAIN written.courses \cup {c} |->
                             IF n = c THEN t ELSE written.courses[n]],
              courseOf |-> [written.courseOf EXCEPT ![a] = c],
              enrolled |-> written.enrolled \cup ({c} \X Submitters[a])]
  /\ toMigrate' = toMigrate \ {a}
  /\ UNCHANGED <<committed, lockedBy>>

CommitMigration ==
  /\ lockedBy # Nobody
  /\ toMigrate = {}
  /\ committed' = written
  /\ lockedBy' = Nobody
  /\ UNCHANGED <<written, toMigrate, madeFor>>

\* An error, or the end of the server: nothing of the transaction stays.
KeepWritten == written
RollBack == committed
AbortMigration ==
  /\ lockedBy # Nobody
  /\ committed' = RollBack
  /\ written' = RollBack
  /\ lockedBy' = Nobody
  /\ toMigrate' = {}
  /\ UNCHANGED madeFor

CourseMigrationNext ==
  \/ \E s \in Starts : BeginMigration(s)
  \/ \E a \in Legacy : MigrateAssignment(a)
  \/ CommitMigration
  \/ AbortMigration

CourseMigrationSpec == CourseMigrationInit /\ [][CourseMigrationNext]_migrationVars

-----------------------------------------------------------------------------
\* A whole database: an assignment with a course has its teacher's, with all who
\* submitted to it, and no teacher has a second course or one that holds nothing.
Whole(db) ==
  /\ \A a \in Legacy : db.courseOf[a] # 0 =>
       /\ db.courseOf[a] \in DOMAIN db.courses
       /\ db.courses[db.courseOf[a]] = TeacherOf[a]
       /\ {db.courseOf[a]} \X Submitters[a] \subseteq db.enrolled
  /\ \A m, n \in DOMAIN db.courses : db.courses[m] = db.courses[n] => m = n
  /\ \A n \in DOMAIN db.courses : \E a \in Legacy : db.courseOf[a] = n

\* What others see is whole, however often a start was interrupted.
MigratedOnce == Whole(committed)
=============================================================================
