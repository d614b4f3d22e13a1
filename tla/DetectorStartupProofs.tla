------------------------- MODULE DetectorStartupProofs -------------------------
(* That DetectorStartup keeps its safety invariants for any number of engines,  *)
(* isolates, activities and calls.                                              *)
EXTENDS DetectorStartup, SequenceTheorems, TLAPS

-----------------------------------------------------------------------------
(* The inductive invariant.                                                 *)

\* "initialize" is among the calls on their way.
Asked == \E i \in 1..Len(calls) : calls[i] = "initialize"

\* Each isolate asks for its detector once.
AskedOnce ==
    /\ \A i, j \in 1..Len(calls) : calls[i] = "initialize" /\ calls[j] = "initialize" => i = j
    /\ step # "listening" => ~Asked
    /\ engine = 0 => step = "off" /\ calls = << >>

\* Until it is answered, no detector is on its way and none is owed.
Owed ==
    engine # 0 /\ (step # "listening" \/ Asked) => adding = 0 /\ ~mNeedInitialize

\* Fragments belong to an activity, or wait for the next one.
Placed ==
    /\ activity = "none" => fragments = 0 /\ adding = 0
    /\ activity # "none" => retained = 0 /\ engine # 0 /\ ~changing
    /\ mActivity = "current" => activity # "none"

\* The port is set after Dart_InitializeApiDL has succeeded, and messages come after it.
Ports ==
    /\ step = "port" => posting
    /\ PostInitialized
    /\ port # engine => queue = << >> /\ known = FALSE
    /\ engine = 0 => reports = << >> /\ queue = << >> /\ known = FALSE

\* What Dart will think when it has handled everything that is on its way.
Latest == IF reports # << >> THEN reports[Len(reports)] = "attached"
          ELSE IF queue # << >> THEN queue[Len(queue)] = "attached" ELSE known

\* The parts of TypeOK: numbers, flags and states, and what is on its way.
Numbers ==
    /\ port \in {NoPort} \cup Engines /\ engine \in {0} \cup Engines
    /\ fragments \in Nat /\ adding \in Nat /\ retained \in Nat
    /\ inputs \in 0..MaxInputs

Flags ==
    /\ posting \in BOOLEAN /\ compatible \in BOOLEAN /\ mNeedInitialize \in BOOLEAN
    /\ changing \in BOOLEAN /\ tracked \in BOOLEAN /\ held \in BOOLEAN /\ known \in BOOLEAN
    /\ late \in {"none", "fragment", "gone"}
    /\ mActivity \in {"unset", "current", "destroyed", "cleared"}
    /\ activity \in {"none", "created", "started"}
    /\ step \in {"off", "init", "port", "initialize", "listening"}

Queues == calls \in Seq(Call) /\ reports \in Seq(Report) /\ queue \in Seq(Report)

IInv == TypeOK /\ OneDetector /\ AskedOnce /\ Owed /\ Placed /\ Ports /\ (Latest => held)

-----------------------------------------------------------------------------
USE DEF Engines, NoPort, Call, Report

\* Numbers, Flags and Queues together are TypeOK.
LEMMA TypeParts == TypeOK <=> Numbers /\ Flags /\ Queues
BY DEF TypeOK, Numbers, Flags, Queues

\* Putting an element at the end of a sequence.
LEMMA Put ==
    ASSUME NEW S, NEW s \in Seq(S), NEW e \in S
    PROVE  /\ Append(s, e) \in Seq(S)
           /\ Append(s, e) # << >>
           /\ Len(Append(s, e)) = Len(s) + 1
           /\ \A i \in 1..Len(s) : Append(s, e)[i] = s[i]
           /\ Append(s, e)[Len(s) + 1] = e
BY AppendProperties

\* Taking the first element of a sequence.
LEMMA Take ==
    ASSUME NEW S, NEW s \in Seq(S), s # << >>
    PROVE  /\ Head(s) \in S /\ Head(s) = s[1]
           /\ Tail(s) \in Seq(S)
           /\ Len(s) \in Nat /\ Len(s) > 0
           /\ Len(Tail(s)) = Len(s) - 1
           /\ \A i \in 1..Len(Tail(s)) : Tail(s)[i] = s[i + 1]
           /\ Tail(s) = << >> <=> Len(s) = 1
<1>1. Head(s) \in S /\ Tail(s) \in Seq(S) /\ Len(Tail(s)) = Len(s) - 1
      /\ \A i \in 1..Len(Tail(s)) : Tail(s)[i] = s[i + 1]
  BY HeadTailProperties
<1>2. Head(s) = s[1] /\ Len(s) \in Nat /\ Len(s) > 0  BY EmptySeq
<1>3. Tail(s) = << >> <=> Len(Tail(s)) = 0  BY <1>1, EmptySeq
<1> QED  BY <1>1, <1>2, <1>3

\* A camera that is given to the library is held, and reported at most to an engine.
LEMMA Given ==
    reports \in Seq(Report) /\ GiveDevice =>
        reports' \in Seq(Report) /\ held' = TRUE /\ (engine = 0 => reports' = reports)
<1> SUFFICES ASSUME reports \in Seq(Report), GiveDevice
             PROVE reports' \in Seq(Report) /\ held' = TRUE /\ (engine = 0 => reports' = reports)
  OBVIOUS
<1>1. Append(reports, "attached") \in Seq(Report)  BY Put
<1> QED  BY <1>1 DEF GiveDevice, Reported

\* A camera that is added is held, or was tracked before.
LEMMA Added ==
    reports \in Seq(Report) /\ tracked \in BOOLEAN /\ AddDevices =>
        /\ reports' \in Seq(Report) /\ tracked' \in BOOLEAN /\ late' = late
        /\ (held' = held /\ reports' = reports) \/ held' = TRUE
        /\ engine = 0 => reports' = reports
BY Given DEF AddDevices

\* Adding keeps flags flags.
LEMMA AddedFlags ==
    ASSUME tracked \in BOOLEAN, held \in BOOLEAN, AddDevices
    PROVE  tracked' \in BOOLEAN /\ held' \in BOOLEAN /\ late' = late
<1>1. CASE tracked  BY <1>1 DEF AddDevices
<1>2. CASE ~tracked
  <2>1. tracked' = TRUE /\ GiveDevice /\ late' = late  BY <1>2 DEF AddDevices
  <2> QED  BY <2>1 DEF GiveDevice
<1> QED  BY <1>1, <1>2

\* After a camera has been removed, the last report says so.
LEMMA Removed ==
    reports \in Seq(Report) /\ engine # 0 /\ RemoveDevices =>
        /\ reports' \in Seq(Report) /\ tracked' = FALSE
        /\ \/ held' = held /\ reports' = reports
           \/ held' = FALSE /\ reports' # << >> /\ reports'[Len(reports')] = "detached"
<1> SUFFICES ASSUME reports \in Seq(Report), engine # 0, RemoveDevices
             PROVE  /\ reports' \in Seq(Report) /\ tracked' = FALSE
                    /\ \/ held' = held /\ reports' = reports
                       \/ held' = FALSE /\ reports' # << >> /\ reports'[Len(reports')] = "detached"
  OBVIOUS
<1> DEFINE r == Append(reports, "detached")
<1>1. r \in Seq(Report) /\ r # << >> /\ r[Len(r)] = "detached"  BY Put
<1> QED  BY <1>1 DEF RemoveDevices, Reported

\* The last element stays last when the first is taken.
LEMMA LastOfTail ==
    ASSUME NEW S, NEW s \in Seq(S), s # << >>
    PROVE  /\ Tail(s) # << >> => Tail(s)[Len(Tail(s))] = s[Len(s)]
           /\ Tail(s) = << >> => Head(s) = s[Len(s)]
<1>1. CASE Len(s) = 1  BY <1>1, Take
<1>2. CASE Len(s) > 1
  <2>1. Len(Tail(s)) \in 1..Len(Tail(s)) /\ Len(Tail(s)) + 1 = Len(s)  BY <1>2, Take
  <2>2. Tail(s)[Len(Tail(s))] = s[Len(Tail(s)) + 1]  BY <2>1, Take
  <2> QED  BY <1>2, <2>1, <2>2, Take
<1> QED  BY <1>1, <1>2, Take

\* The initial states satisfy the invariant.
LEMMA InitIInv == Init => IInv
<1> SUFFICES ASSUME Init PROVE IInv  OBVIOUS
<1> USE DEF Init
<1>1. TypeOK
  <2>1. port \in {NoPort} \cup Engines /\ engine \in {0} \cup Engines /\ inputs \in 0..MaxInputs
    BY BoundAssumption
  <2>2. calls \in Seq(Call) /\ reports \in Seq(Report) /\ queue \in Seq(Report)  OBVIOUS
  <2>3. fragments \in Nat /\ adding \in Nat /\ retained \in Nat  OBVIOUS
  <2> QED  BY <2>1, <2>2, <2>3 DEF TypeOK
<1>2. OneDetector  BY DEF OneDetector
<1>3. AskedOnce /\ Owed  BY DEF AskedOnce, Owed, Asked
<1>4. Placed /\ Ports  BY DEF Placed, Ports, PostInitialized
<1>5. Latest => tracked  BY DEF Latest
<1> QED  BY <1>1, <1>2, <1>3, <1>4, <1>5 DEF IInv

\* Every step keeps the types of the numbers.
LEMMA NumbersStep ==
    Numbers /\ [Next]_vars
        => Numbers'
<1> SUFFICES ASSUME Numbers, [Next]_vars PROVE Numbers'
  OBVIOUS
<1> USE BoundAssumption DEF Numbers,
        process, kotlin, android, detector, native, dart
<1>1. CASE RunDart  BY <1>1 DEF RunDart
<1>2. CASE InitDartApi  BY <1>2 DEF InitDartApi, After
<1>3. CASE SetPort  BY <1>3 DEF SetPort, After
<1>4. CASE Initialize  BY <1>4 DEF Initialize, After
<1>5. CASE HandleMessage  BY <1>5 DEF HandleMessage
<1>6. CASE OnInitialize  BY <1>6 DEF OnInitialize, InitDeviceDetector
<1>7. CASE OnRescanDevices  BY <1>7 DEF OnRescanDevices, AddDevices
<1>8. CASE RunTransaction  BY <1>8 DEF RunTransaction, AddDevices
<1>9. CASE SendReport  BY <1>9 DEF SendReport
<1>10. CASE OnAttachedToEngine  BY <1>10 DEF OnAttachedToEngine
<1>11. CASE OnDetachedFromEngine  BY <1>11 DEF OnDetachedFromEngine, Input
<1>12. CASE OnAttachedToActivity  BY <1>12 DEF OnAttachedToActivity, InitDeviceDetector, Input
<1>13. CASE OnDetachedFromActivity  BY <1>13 DEF OnDetachedFromActivity, Input
<1>14. CASE OnDetachedForConfigChanges  BY <1>14 DEF OnDetachedForConfigChanges, Saved, Input
<1>15. CASE OnReattachedForConfigChanges  BY <1>15 DEF OnReattachedForConfigChanges
<1>16. CASE Collect  BY <1>16 DEF Collect
<1>17. CASE Start  BY <1>17 DEF Start, AddDevices, Input
<1>18. CASE Stop  BY <1>18 DEF Stop, RemoveDevices, Input
<1>19. CASE ProcessDeath  BY <1>19 DEF ProcessDeath, Saved, Input
<1>20. CASE RescanDevices  BY <1>20 DEF RescanDevices, Input
<1>21. CASE UNCHANGED vars  BY <1>21 DEF vars
<1>22. CASE AddLate  BY <1>22 DEF AddLate
<1> QED
  BY <1>1, <1>2, <1>3, <1>4, <1>5, <1>6, <1>7, <1>8, <1>9, <1>10, <1>11, <1>12,
     <1>13, <1>14, <1>15, <1>16, <1>17, <1>18, <1>19, <1>20, <1>21, <1>22
  DEF Next, DartStep, PlatformStep, Environment

\* Every step keeps the types of the flags and states.
LEMMA FlagsStep ==
    Flags /\ [Next]_vars
        => Flags'
<1> SUFFICES ASSUME Flags, [Next]_vars PROVE Flags'
  OBVIOUS
<1> USE BoundAssumption DEF Flags,
        process, kotlin, android, detector, native, dart
<1>1. CASE RunDart  BY <1>1 DEF RunDart
<1>2. CASE InitDartApi  BY <1>2 DEF InitDartApi, After
<1>3. CASE SetPort  BY <1>3 DEF SetPort, After
<1>4. CASE Initialize  BY <1>4 DEF Initialize, After
<1>5. CASE HandleMessage  BY <1>5 DEF HandleMessage
<1>6. CASE OnInitialize  BY <1>6 DEF OnInitialize, InitDeviceDetector
<1>7. CASE OnRescanDevices  BY <1>7, AddedFlags DEF OnRescanDevices
<1>8. CASE RunTransaction  BY <1>8, AddedFlags DEF RunTransaction
<1>9. CASE SendReport  BY <1>9 DEF SendReport
<1>10. CASE OnAttachedToEngine  BY <1>10 DEF OnAttachedToEngine
<1>11. CASE OnDetachedFromEngine  BY <1>11 DEF OnDetachedFromEngine, Input
<1>12. CASE OnAttachedToActivity  BY <1>12 DEF OnAttachedToActivity, InitDeviceDetector, Input
<1>13. CASE OnDetachedFromActivity  BY <1>13 DEF OnDetachedFromActivity, Input
<1>14. CASE OnDetachedForConfigChanges  BY <1>14 DEF OnDetachedForConfigChanges, Saved, Input
<1>15. CASE OnReattachedForConfigChanges  BY <1>15 DEF OnReattachedForConfigChanges
<1>16. CASE Collect  BY <1>16 DEF Collect
<1>17. CASE Start  BY <1>17, AddedFlags DEF Start, Input
<1>18. CASE Stop
  <2>1. tracked' \in BOOLEAN /\ held' \in BOOLEAN
    BY <1>18 DEF Stop, RemoveDevices
  <2>2. late' \in {"none", "fragment", "gone"} /\ activity' = "created"
    BY <1>18 DEF Stop
  <2>3. UNCHANGED <<posting, compatible, mNeedInitialize, changing, known, mActivity, step>>
    BY <1>18 DEF Stop
  <2> QED  BY <2>1, <2>2, <2>3
<1>19. CASE ProcessDeath  BY <1>19 DEF ProcessDeath, Saved, Input
<1>20. CASE RescanDevices  BY <1>20 DEF RescanDevices, Input
<1>21. CASE UNCHANGED vars  BY <1>21 DEF vars
<1>22. CASE AddLate  BY <1>22 DEF AddLate, GiveDevice
<1> QED
  BY <1>1, <1>2, <1>3, <1>4, <1>5, <1>6, <1>7, <1>8, <1>9, <1>10, <1>11, <1>12,
     <1>13, <1>14, <1>15, <1>16, <1>17, <1>18, <1>19, <1>20, <1>21, <1>22
  DEF Next, DartStep, PlatformStep, Environment

\* Every step keeps the types of the queues.
LEMMA QueuesStep ==
    Flags /\ Placed /\ Queues /\ [Next]_vars
        => Queues'
<1> SUFFICES ASSUME Flags, Placed, Queues, [Next]_vars PROVE Queues'
  OBVIOUS
<1> USE BoundAssumption DEF Flags, Placed, Queues,
        process, kotlin, android, detector, native, dart
<1>1. CASE RunDart  BY <1>1 DEF RunDart
<1>2. CASE InitDartApi  BY <1>2 DEF InitDartApi, After
<1>3. CASE SetPort  BY <1>3 DEF SetPort, After
<1>4. CASE Initialize  BY <1>4 DEF Initialize, After
<1>5. CASE HandleMessage  BY <1>5 DEF HandleMessage
<1>6. CASE OnInitialize  BY <1>6 DEF OnInitialize, InitDeviceDetector
<1>7. CASE OnRescanDevices
  BY <1>7, Added DEF OnRescanDevices
<1>8. CASE RunTransaction
  BY <1>8, Added DEF RunTransaction
<1>9. CASE SendReport
  <2>1. Head(reports) \in Report /\ Tail(reports) \in Seq(Report)  BY <1>9, Take DEF SendReport
  <2>2. Append(queue, Head(reports)) \in Seq(Report)  BY <2>1, Put
  <2> QED  BY <1>9, <2>1, <2>2 DEF SendReport
<1>10. CASE OnAttachedToEngine  BY <1>10, Put DEF OnAttachedToEngine
<1>11. CASE OnDetachedFromEngine  BY <1>11 DEF OnDetachedFromEngine, Input
<1>12. CASE OnAttachedToActivity  BY <1>12 DEF OnAttachedToActivity, InitDeviceDetector, Input
<1>13. CASE OnDetachedFromActivity  BY <1>13 DEF OnDetachedFromActivity, Input
<1>14. CASE OnDetachedForConfigChanges  BY <1>14 DEF OnDetachedForConfigChanges, Saved, Input
<1>15. CASE OnReattachedForConfigChanges  BY <1>15 DEF OnReattachedForConfigChanges
<1>16. CASE Collect  BY <1>16 DEF Collect
<1>17. CASE Start
  BY <1>17, Added DEF Start, Input
<1>18. CASE Stop
  BY <1>18, Removed DEF Stop, Input
<1>19. CASE ProcessDeath  BY <1>19 DEF ProcessDeath, Saved, Input
<1>20. CASE RescanDevices  BY <1>20 DEF RescanDevices, Input
<1>21. CASE UNCHANGED vars  BY <1>21 DEF vars
<1>22. CASE AddLate  BY <1>22, Given DEF AddLate
<1> QED
  BY <1>1, <1>2, <1>3, <1>4, <1>5, <1>6, <1>7, <1>8, <1>9, <1>10, <1>11, <1>12,
     <1>13, <1>14, <1>15, <1>16, <1>17, <1>18, <1>19, <1>20, <1>21, <1>22
  DEF Next, DartStep, PlatformStep, Environment

\* Every isolate asks once.
LEMMA AskedStep ==
    Numbers /\ Flags /\ Queues /\ AskedOnce /\ [Next]_vars
        => AskedOnce'
<1> SUFFICES ASSUME Numbers, Flags, Queues, AskedOnce, [Next]_vars PROVE AskedOnce'
  OBVIOUS
<1> USE BoundAssumption DEF Numbers, Flags, Queues, AskedOnce, Asked,
        process, kotlin, android, detector, native, dart
<1>1. CASE RunDart  BY <1>1 DEF RunDart
<1>2. CASE InitDartApi  BY <1>2 DEF InitDartApi, After
<1>3. CASE SetPort  BY <1>3 DEF SetPort, After
<1>4. CASE Initialize  BY <1>4 DEF Initialize, After
<1>5. CASE HandleMessage  BY <1>5 DEF HandleMessage
<1>6. CASE OnInitialize
  <2>1. calls \in Seq(Call) /\ calls # << >> /\ calls' = Tail(calls)  BY <1>6 DEF OnInitialize
  <2>2. calls[1] = "initialize"  BY <1>6, <2>1, Take DEF OnInitialize
  <2>3. \A i \in 1..Len(calls') :
          1 \in 1..Len(calls) /\ i + 1 \in 1..Len(calls) /\ i + 1 # 1 /\ calls'[i] = calls[i + 1]
    BY <2>1, Take
  <2>4. \A i \in 1..Len(calls') : calls'[i] # "initialize"  BY <2>2, <2>3
  <2> QED  BY <1>6, <2>1, <2>4 DEF OnInitialize
<1>7. CASE OnRescanDevices  BY <1>7 DEF OnRescanDevices, AddDevices
<1>8. CASE RunTransaction  BY <1>8 DEF RunTransaction, AddDevices
<1>9. CASE SendReport  BY <1>9 DEF SendReport
<1>10. CASE OnAttachedToEngine  BY <1>10 DEF OnAttachedToEngine
<1>11. CASE OnDetachedFromEngine  BY <1>11 DEF OnDetachedFromEngine, Input
<1>12. CASE OnAttachedToActivity  BY <1>12 DEF OnAttachedToActivity, InitDeviceDetector, Input
<1>13. CASE OnDetachedFromActivity  BY <1>13 DEF OnDetachedFromActivity, Input
<1>14. CASE OnDetachedForConfigChanges  BY <1>14 DEF OnDetachedForConfigChanges, Saved, Input
<1>15. CASE OnReattachedForConfigChanges  BY <1>15 DEF OnReattachedForConfigChanges
<1>16. CASE Collect  BY <1>16 DEF Collect
<1>17. CASE Start  BY <1>17 DEF Start, AddDevices, Input
<1>18. CASE Stop  BY <1>18 DEF Stop, RemoveDevices, Input
<1>19. CASE ProcessDeath  BY <1>19 DEF ProcessDeath, Saved, Input
<1>20. CASE RescanDevices  BY <1>20 DEF RescanDevices, Input
<1>21. CASE UNCHANGED vars  BY <1>21 DEF vars
<1>22. CASE AddLate  BY <1>22 DEF AddLate
<1> QED
  BY <1>1, <1>2, <1>3, <1>4, <1>5, <1>6, <1>7, <1>8, <1>9, <1>10, <1>11, <1>12,
     <1>13, <1>14, <1>15, <1>16, <1>17, <1>18, <1>19, <1>20, <1>21, <1>22
  DEF Next, DartStep, PlatformStep, Environment

\* A detector is created only in answer to "initialize".
LEMMA OwedStep ==
    Numbers /\ Flags /\ Queues /\ AskedOnce /\ Placed /\ Owed /\ [Next]_vars
        => Owed'
<1> SUFFICES ASSUME Numbers, Flags, Queues, AskedOnce, Placed, Owed, [Next]_vars PROVE Owed'
  OBVIOUS
<1> USE BoundAssumption DEF Numbers, Flags, Queues, AskedOnce, Asked, Placed, Owed,
        process, kotlin, android, detector, native, dart
<1>1. CASE RunDart  BY <1>1 DEF RunDart
<1>2. CASE InitDartApi  BY <1>2 DEF InitDartApi, After
<1>3. CASE SetPort  BY <1>3 DEF SetPort, After
<1>4. CASE Initialize  BY <1>4 DEF Initialize, After
<1>5. CASE HandleMessage  BY <1>5 DEF HandleMessage
<1>6. CASE OnInitialize
  <2>1. calls \in Seq(Call) /\ calls # << >> /\ calls' = Tail(calls)  BY <1>6 DEF OnInitialize
  <2>2. calls[1] = "initialize"  BY <1>6, <2>1, Take DEF OnInitialize
  <2>3. \A i \in 1..Len(calls') :
          1 \in 1..Len(calls) /\ i + 1 \in 1..Len(calls) /\ i + 1 # 1 /\ calls'[i] = calls[i + 1]
    BY <2>1, Take
  <2>4. \A i \in 1..Len(calls') : calls'[i] # "initialize"  BY <2>2, <2>3
  <2>5. Asked  BY <2>2, <2>1, Take
  <2>6. ~Asked' /\ step' = "listening"  BY <1>6, <2>4, <2>5 DEF OnInitialize
  <2> QED  BY <2>6
<1>7. CASE OnRescanDevices  BY <1>7 DEF OnRescanDevices, AddDevices
<1>8. CASE RunTransaction  BY <1>8 DEF RunTransaction, AddDevices
<1>9. CASE SendReport  BY <1>9 DEF SendReport
<1>10. CASE OnAttachedToEngine  BY <1>10 DEF OnAttachedToEngine
<1>11. CASE OnDetachedFromEngine  BY <1>11 DEF OnDetachedFromEngine, Input
<1>12. CASE OnAttachedToActivity  BY <1>12 DEF OnAttachedToActivity, InitDeviceDetector, Input
<1>13. CASE OnDetachedFromActivity  BY <1>13 DEF OnDetachedFromActivity, Input
<1>14. CASE OnDetachedForConfigChanges  BY <1>14 DEF OnDetachedForConfigChanges, Saved, Input
<1>15. CASE OnReattachedForConfigChanges  BY <1>15 DEF OnReattachedForConfigChanges
<1>16. CASE Collect  BY <1>16 DEF Collect
<1>17. CASE Start  BY <1>17 DEF Start, AddDevices, Input
<1>18. CASE Stop  BY <1>18 DEF Stop, RemoveDevices, Input
<1>19. CASE ProcessDeath  BY <1>19 DEF ProcessDeath, Saved, Input
<1>20. CASE RescanDevices  BY <1>20 DEF RescanDevices, Input
<1>21. CASE UNCHANGED vars  BY <1>21 DEF vars
<1>22. CASE AddLate  BY <1>22 DEF AddLate
<1> QED
  BY <1>1, <1>2, <1>3, <1>4, <1>5, <1>6, <1>7, <1>8, <1>9, <1>10, <1>11, <1>12,
     <1>13, <1>14, <1>15, <1>16, <1>17, <1>18, <1>19, <1>20, <1>21, <1>22
  DEF Next, DartStep, PlatformStep, Environment

\* Fragments go with their activity.
LEMMA PlacedStep ==
    Numbers /\ Flags /\ AskedOnce /\ Placed /\ [Next]_vars
        => Placed'
<1> SUFFICES ASSUME Numbers, Flags, AskedOnce, Placed, [Next]_vars PROVE Placed'
  OBVIOUS
<1> USE BoundAssumption DEF Numbers, Flags, AskedOnce, Placed,
        process, kotlin, android, detector, native, dart
<1>1. CASE RunDart  BY <1>1 DEF RunDart
<1>2. CASE InitDartApi  BY <1>2 DEF InitDartApi, After
<1>3. CASE SetPort  BY <1>3 DEF SetPort, After
<1>4. CASE Initialize  BY <1>4 DEF Initialize, After
<1>5. CASE HandleMessage  BY <1>5 DEF HandleMessage
<1>6. CASE OnInitialize  BY <1>6 DEF OnInitialize, InitDeviceDetector
<1>7. CASE OnRescanDevices  BY <1>7 DEF OnRescanDevices, AddDevices
<1>8. CASE RunTransaction  BY <1>8 DEF RunTransaction, AddDevices
<1>9. CASE SendReport  BY <1>9 DEF SendReport
<1>10. CASE OnAttachedToEngine  BY <1>10 DEF OnAttachedToEngine
<1>11. CASE OnDetachedFromEngine  BY <1>11 DEF OnDetachedFromEngine, Input
<1>12. CASE OnAttachedToActivity  BY <1>12 DEF OnAttachedToActivity, InitDeviceDetector, Input
<1>13. CASE OnDetachedFromActivity  BY <1>13 DEF OnDetachedFromActivity, Input
<1>14. CASE OnDetachedForConfigChanges  BY <1>14 DEF OnDetachedForConfigChanges, Saved, Input
<1>15. CASE OnReattachedForConfigChanges  BY <1>15 DEF OnReattachedForConfigChanges
<1>16. CASE Collect  BY <1>16 DEF Collect
<1>17. CASE Start  BY <1>17 DEF Start, AddDevices, Input
<1>18. CASE Stop  BY <1>18 DEF Stop, RemoveDevices, Input
<1>19. CASE ProcessDeath  BY <1>19 DEF ProcessDeath, Saved, Input
<1>20. CASE RescanDevices  BY <1>20 DEF RescanDevices, Input
<1>21. CASE UNCHANGED vars  BY <1>21 DEF vars
<1>22. CASE AddLate  BY <1>22 DEF AddLate
<1> QED
  BY <1>1, <1>2, <1>3, <1>4, <1>5, <1>6, <1>7, <1>8, <1>9, <1>10, <1>11, <1>12,
     <1>13, <1>14, <1>15, <1>16, <1>17, <1>18, <1>19, <1>20, <1>21, <1>22
  DEF Next, DartStep, PlatformStep, Environment

\* No step adds a second detector.
LEMMA OneStep ==
    Numbers /\ Flags /\ Queues /\ AskedOnce /\ Owed /\ Placed /\ OneDetector /\ [Next]_vars
        => OneDetector'
<1> SUFFICES ASSUME Numbers, Flags, Queues, AskedOnce, Owed, Placed, OneDetector, [Next]_vars PROVE OneDetector'
  OBVIOUS
<1> USE BoundAssumption DEF Numbers, Flags, Queues, AskedOnce, Asked, Owed, Placed, OneDetector,
        process, kotlin, android, detector, native, dart
<1>1. CASE RunDart  BY <1>1 DEF RunDart
<1>2. CASE InitDartApi  BY <1>2 DEF InitDartApi, After
<1>3. CASE SetPort  BY <1>3 DEF SetPort, After
<1>4. CASE Initialize  BY <1>4 DEF Initialize, After
<1>5. CASE HandleMessage  BY <1>5 DEF HandleMessage
<1>6. CASE OnInitialize
  <2>1. calls # << >> /\ 1 \in 1..Len(calls) /\ calls[1] = "initialize"  BY <1>6, Take DEF OnInitialize
  <2>2. Asked /\ engine # 0  BY <2>1
  <2>3. adding = 0  BY <2>2
  <2> QED  BY <1>6, <2>2, <2>3 DEF OnInitialize, InitDeviceDetector
<1>7. CASE OnRescanDevices  BY <1>7 DEF OnRescanDevices, AddDevices
<1>8. CASE RunTransaction  BY <1>8 DEF RunTransaction, AddDevices
<1>9. CASE SendReport  BY <1>9 DEF SendReport
<1>10. CASE OnAttachedToEngine  BY <1>10 DEF OnAttachedToEngine
<1>11. CASE OnDetachedFromEngine  BY <1>11 DEF OnDetachedFromEngine, Input
<1>12. CASE OnAttachedToActivity  BY <1>12 DEF OnAttachedToActivity, InitDeviceDetector, Input
<1>13. CASE OnDetachedFromActivity  BY <1>13 DEF OnDetachedFromActivity, Input
<1>14. CASE OnDetachedForConfigChanges
  <2>1. fragments' = 0 /\ adding' = 0 /\ retained = 0  BY <1>14 DEF OnDetachedForConfigChanges, Saved, Input
  <2>2. retained' = fragments \/ retained' = fragments + adding  BY <1>14 DEF OnDetachedForConfigChanges, Saved, Input
  <2>3. fragments + adding <= 1 /\ fragments <= 1  BY <2>1
  <2> QED  BY <2>1, <2>2, <2>3
<1>15. CASE OnReattachedForConfigChanges  BY <1>15 DEF OnReattachedForConfigChanges
<1>16. CASE Collect  BY <1>16 DEF Collect
<1>17. CASE Start  BY <1>17 DEF Start, AddDevices, Input
<1>18. CASE Stop  BY <1>18 DEF Stop, RemoveDevices, Input
<1>19. CASE ProcessDeath
  <2>1. fragments' = 0 /\ adding' = 0 /\ retained = 0  BY <1>19 DEF ProcessDeath, Saved, Input
  <2>2. retained' = fragments \/ retained' = fragments + adding  BY <1>19 DEF ProcessDeath, Saved, Input
  <2>3. fragments + adding <= 1 /\ fragments <= 1  BY <2>1
  <2> QED  BY <2>1, <2>2, <2>3
<1>20. CASE RescanDevices  BY <1>20 DEF RescanDevices, Input
<1>21. CASE UNCHANGED vars  BY <1>21 DEF vars
<1>22. CASE AddLate  BY <1>22 DEF AddLate
<1> QED
  BY <1>1, <1>2, <1>3, <1>4, <1>5, <1>6, <1>7, <1>8, <1>9, <1>10, <1>11, <1>12,
     <1>13, <1>14, <1>15, <1>16, <1>17, <1>18, <1>19, <1>20, <1>21, <1>22
  DEF Next, DartStep, PlatformStep, Environment

\* Ports are set and used in order.
LEMMA PortsStep ==
    Numbers /\ Flags /\ Queues /\ AskedOnce /\ Placed /\ Ports /\ [Next]_vars
        => Ports'
<1> SUFFICES ASSUME Numbers, Flags, Queues, AskedOnce, Placed, Ports, [Next]_vars PROVE Ports'
  OBVIOUS
<1> USE BoundAssumption DEF Numbers, Flags, Queues, AskedOnce, Placed, Ports, PostInitialized,
        process, kotlin, android, detector, native, dart
<1>1. CASE RunDart  BY <1>1 DEF RunDart
<1>2. CASE InitDartApi  BY <1>2 DEF InitDartApi, After
<1>3. CASE SetPort  BY <1>3 DEF SetPort, After
<1>4. CASE Initialize  BY <1>4 DEF Initialize, After
<1>5. CASE HandleMessage  BY <1>5 DEF HandleMessage
<1>6. CASE OnInitialize  BY <1>6 DEF OnInitialize, InitDeviceDetector
<1>7. CASE OnRescanDevices
  BY <1>7, Added DEF OnRescanDevices
<1>8. CASE RunTransaction
  BY <1>8, Added DEF RunTransaction
<1>9. CASE SendReport  BY <1>9 DEF SendReport
<1>10. CASE OnAttachedToEngine  BY <1>10, Put DEF OnAttachedToEngine
<1>11. CASE OnDetachedFromEngine  BY <1>11 DEF OnDetachedFromEngine, Input
<1>12. CASE OnAttachedToActivity  BY <1>12 DEF OnAttachedToActivity, InitDeviceDetector, Input
<1>13. CASE OnDetachedFromActivity  BY <1>13 DEF OnDetachedFromActivity, Input
<1>14. CASE OnDetachedForConfigChanges  BY <1>14 DEF OnDetachedForConfigChanges, Saved, Input
<1>15. CASE OnReattachedForConfigChanges  BY <1>15 DEF OnReattachedForConfigChanges
<1>16. CASE Collect  BY <1>16 DEF Collect
<1>17. CASE Start
  BY <1>17, Added DEF Start, Input
<1>18. CASE Stop
  BY <1>18, Removed DEF Stop, Input
<1>19. CASE ProcessDeath  BY <1>19 DEF ProcessDeath, Saved, Input
<1>20. CASE RescanDevices  BY <1>20 DEF RescanDevices, Input
<1>21. CASE UNCHANGED vars  BY <1>21 DEF vars
<1>22. CASE AddLate  BY <1>22, Given DEF AddLate
<1> QED
  BY <1>1, <1>2, <1>3, <1>4, <1>5, <1>6, <1>7, <1>8, <1>9, <1>10, <1>11, <1>12,
     <1>13, <1>14, <1>15, <1>16, <1>17, <1>18, <1>19, <1>20, <1>21, <1>22
  DEF Next, DartStep, PlatformStep, Environment

\* When the latest report says attached, the library has the camera.
LEMMA LatestStep ==
    Numbers /\ Flags /\ Queues /\ AskedOnce /\ Placed /\ Ports /\ (Latest => held) /\ [Next]_vars
        => (Latest => held)'
<1> SUFFICES ASSUME Numbers, Flags, Queues, AskedOnce, Placed, Ports, (Latest => held), [Next]_vars PROVE (Latest => held)'
  OBVIOUS
<1> USE BoundAssumption DEF Numbers, Flags, Queues, AskedOnce, Placed, Ports, Latest,
        process, kotlin, android, detector, native, dart
<1>1. CASE RunDart  BY <1>1 DEF RunDart
<1>2. CASE InitDartApi  BY <1>2 DEF InitDartApi, After
<1>3. CASE SetPort  BY <1>3 DEF SetPort, After
<1>4. CASE Initialize  BY <1>4 DEF Initialize, After
<1>5. CASE HandleMessage
  <2>1. /\ queue # << >> /\ queue' = Tail(queue) /\ known' = (Head(queue) = "attached")
        /\ reports' = reports /\ held' = held
    BY <1>5 DEF HandleMessage
  <2>2. CASE reports # << >>  BY <2>1, <2>2
  <2>3. CASE reports = << >> /\ queue' # << >>  BY <2>1, <2>3, LastOfTail
  <2>4. CASE reports = << >> /\ queue' = << >>  BY <2>1, <2>4, LastOfTail
  <2> QED  BY <2>2, <2>3, <2>4
<1>6. CASE OnInitialize  BY <1>6 DEF OnInitialize, InitDeviceDetector
<1>7. CASE OnRescanDevices
  BY <1>7, Added DEF OnRescanDevices
<1>8. CASE RunTransaction
  BY <1>8, Added DEF RunTransaction
<1>9. CASE SendReport
  <2>1. reports # << >> /\ reports' = Tail(reports) /\ held' = held /\ known' = known
    BY <1>9 DEF SendReport
  <2>2. CASE reports' # << >>  BY <2>1, <2>2, LastOfTail
  <2>3. CASE reports' = << >> /\ port = engine
    <3>1. queue' = Append(queue, Head(reports)) /\ Head(reports) \in Report
      BY <1>9, <2>1, <2>3, Take DEF SendReport
    <3>2. queue' # << >> /\ queue'[Len(queue')] = Head(reports)  BY <3>1, Put
    <3>3. Head(reports) = reports[Len(reports)]  BY <2>1, <2>3, LastOfTail
    <3> QED  BY <2>1, <2>3, <3>2, <3>3
  <2>4. CASE reports' = << >> /\ port # engine  BY <1>9, <2>1, <2>4 DEF SendReport
  <2> QED  BY <2>2, <2>3, <2>4
<1>10. CASE OnAttachedToEngine  BY <1>10 DEF OnAttachedToEngine
<1>11. CASE OnDetachedFromEngine  BY <1>11 DEF OnDetachedFromEngine, Input
<1>12. CASE OnAttachedToActivity  BY <1>12 DEF OnAttachedToActivity, InitDeviceDetector, Input
<1>13. CASE OnDetachedFromActivity  BY <1>13 DEF OnDetachedFromActivity, Input
<1>14. CASE OnDetachedForConfigChanges  BY <1>14 DEF OnDetachedForConfigChanges, Saved, Input
<1>15. CASE OnReattachedForConfigChanges  BY <1>15 DEF OnReattachedForConfigChanges
<1>16. CASE Collect  BY <1>16 DEF Collect
<1>17. CASE Start
  BY <1>17, Added DEF Start, Input
<1>18. CASE Stop
  <2>1. reports \in Seq(Report) /\ engine # 0 /\ RemoveDevices  BY <1>18 DEF Stop
  <2> QED  BY <1>18, <2>1, Removed DEF Stop
<1>19. CASE ProcessDeath  BY <1>19 DEF ProcessDeath, Saved, Input
<1>20. CASE RescanDevices  BY <1>20 DEF RescanDevices, Input
<1>21. CASE UNCHANGED vars  BY <1>21 DEF vars
<1>22. CASE AddLate  BY <1>22, Given DEF AddLate
<1> QED
  BY <1>1, <1>2, <1>3, <1>4, <1>5, <1>6, <1>7, <1>8, <1>9, <1>10, <1>11, <1>12,
     <1>13, <1>14, <1>15, <1>16, <1>17, <1>18, <1>19, <1>20, <1>21, <1>22
  DEF Next, DartStep, PlatformStep, Environment

-----------------------------------------------------------------------------
(* The theorems.                                                            *)

\* The invariant holds in every reachable state.
THEOREM Invariance == Spec => []IInv
<1>1. IInv /\ [Next]_vars => IInv'
  <2> SUFFICES ASSUME IInv, [Next]_vars PROVE IInv'  OBVIOUS
  <2>1. /\ TypeOK /\ Numbers /\ Flags /\ Queues
        /\ OneDetector /\ AskedOnce /\ Owed /\ Placed /\ Ports /\ (Latest => held)
    BY TypeParts DEF IInv
  <2>2. Numbers' /\ Flags' /\ Queues'  BY <2>1, NumbersStep, FlagsStep, QueuesStep
  <2>3. TypeOK'  BY <2>2 DEF TypeOK, Numbers, Flags, Queues
  <2>4. OneDetector' /\ AskedOnce' /\ Owed'  BY <2>1, OneStep, AskedStep, OwedStep
  <2>5. Placed' /\ Ports' /\ (Latest => held)'  BY <2>1, PlacedStep, PortsStep, LatestStep
  <2> QED  BY <2>3, <2>4, <2>5 DEF IInv
<1> QED  BY InitIInv, <1>1, PTL DEF Spec

\* Every variable keeps its type.
THEOREM TypeCorrect == Spec => []TypeOK
<1>1. IInv => TypeOK  BY DEF IInv
<1> QED  BY Invariance, <1>1, PTL

\* However engines, activities and retained fragments meet, an activity never gets two
\* detectors (initDeviceDetector asks findFragmentByTag, which does not see a pending one).
THEOREM AtMostOneDetector == Spec => []OneDetector
<1>1. IInv => OneDetector  BY DEF IInv
<1> QED  BY Invariance, <1>1, PTL

\* send_on_device_changed posts only through a Dart_PostCObject_DL that was resolved.
THEOREM PostOnlyInitialized == Spec => []PostInitialized
<1>1. IInv => PostInitialized  BY DEF IInv, Ports
<1> QED  BY Invariance, <1>1, PTL

\* When everything reported has been handled, the library has a camera that Dart shows:
\* Dart never keeps one that was reported as detached.
THEOREM KnownIsTracked == Spec => []KnownTracked
<1>1. IInv => KnownTracked  BY DEF IInv, Latest, KnownTracked
<1> QED  BY Invariance, <1>1, PTL
================================================================================
