--------------------------- MODULE EdgeSleepProofs ---------------------------
(***************************************************************************)
(* Proofs about EdgeSleep for every choice of the delays, of the outside   *)
(* events and of the settings: the type invariant, the agreement of the    *)
(* full-wake flag with the modem, the time a publish keeps the device      *)
(* awake, what may hold sleep back, the time each state may take, and      *)
(* what stops the device.                                                  *)
(***************************************************************************)
EXTENDS EdgeSleep, TLAPS

-----------------------------------------------------------------------------
(* The arithmetic of the execution window. *)

(* Extending a window by an admissible delay gives a window. *)
LEMMA ExtendedType ==
    ASSUME NEW w \in Windows, NEW s \in 0..MaxWindow
    PROVE  Extended(w, s) \in Windows
BY SleepAssumption DEF SleepAssumption, Windows, Extended

(* Restarting a window gives a window. *)
LEMMA RestartedType ==
    ASSUME NEW w \in Windows
    PROVE  Restarted(w) \in Windows
BY SleepAssumption DEF SleepAssumption, Windows, Restarted

(* An age that saturates stays in its range. *)
LEMMA LaterType ==
    ASSUME NEW bound \in Nat, NEW age \in 0..bound
    PROVE  Later(age, bound) \in 0..bound
BY DEF Later

(* The delays the code extends a window by are admissible. *)
LEMMA Delays ==
    /\ ExeMin \in 0..MaxWindow /\ KeepAwake \in 0..MaxWindow
    /\ EarlySleep \in 0..MaxWindow
    /\ Interval + ExeMin \in 0..MaxWindow /\ ExeMin + ConnMax \in 0..MaxWindow
    /\ MaxWindow \in Nat /\ ExeMin \in Nat /\ 0 \in 0..MaxWindow
BY SleepAssumption DEF SleepAssumption

-----------------------------------------------------------------------------
(* Type correctness: the flags, then the ranges. *)

LEMMA TypeInit == Init => TypeOK
<1> SUFFICES ASSUME Init PROVE TypeOK
  OBVIOUS
<1>1. window \in Windows /\ quiet \in 0..ExeMin /\ stateAge \in 0..MaxWindow
  BY Delays DEF Init, Windows
<1>2. Flags
  BY DEF Init, Flags
<1> QED
  BY <1>1, <1>2 DEF Init, TypeOK, Ranges, States

LEMMA FlagsNext == Flags /\ [Next]_vars => Flags'
<1> SUFFICES ASSUME Flags, [Next]_vars PROVE Flags'
  OBVIOUS
<1> USE DEF Flags, requests, triggers, link
<1>1. CASE Boot
  BY <1>1, ZenonT(60) DEF Boot, StateToConnecting
<1>2. CASE ConnectingDone
  BY <1>2, ZenonT(60) DEF ConnectingDone, PublishVitals, StateToExecute
<1>3. CASE ConnectingGivesUp
  BY <1>3, ZenonT(60) DEF ConnectingGivesUp, PublishVitals, StateToExecute
<1>4. CASE ConnectingWaits
  BY <1>4, ZenonT(60) DEF ConnectingWaits, PublishVitals
<1>5. CASE ExecuteConnect
  BY <1>5, ZenonT(60) DEF ExecuteConnect, StateToConnecting
<1>6. CASE ExecuteShutdown
  BY <1>6, ZenonT(60) DEF ExecuteShutdown, PublishVitals
<1>7. CASE ExecuteReset
  BY <1>7, ZenonT(60) DEF ExecuteReset, PublishVitals
<1>8. CASE ExecuteOn
  BY <1>8, ZenonT(60) DEF ExecuteOn
<1>9. CASE ExecuteDisabled
  BY <1>9, ZenonT(60) DEF ExecuteDisabled, PublishVitals
<1>10. CASE SleepCancel
  BY <1>10, ZenonT(60) DEF SleepCancel, StateToExecute, Spoiled
<1>11. CASE Suspend
  BY <1>11, ZenonT(60) DEF Suspend
<1>12. CASE Wake
  BY <1>12, ZenonT(60) DEF Wake, StateToConnecting, StateToExecute
<1>13. CASE ShutdownEnds
  BY <1>13, ZenonT(60) DEF ShutdownEnds, PublishVitals
<1>14. CASE ResetEnds
  BY <1>14, ZenonT(60) DEF ResetEnds, PublishVitals
<1>15. CASE LastWordsWait
  BY <1>15, ZenonT(60) DEF LastWordsWait, PublishVitals
<1>16. CASE LocationSkips
  BY <1>16, ZenonT(60) DEF LocationSkips
<1>17. CASE LocationWaits
  BY <1>17, ZenonT(60) DEF LocationWaits, AskForNetwork
<1>18. CASE LocationPublishes
  BY <1>18, ZenonT(60) DEF LocationPublishes, AskForNetwork, AnnouncePublish
<1>19. CASE Tick
  BY <1>19, ZenonT(60) DEF Tick
<1>20. CASE LinkChange
  BY <1>20, ZenonT(60) DEF LinkChange
<1>21. CASE LowBattery
  BY <1>21, ZenonT(60) DEF LowBattery
<1>22. CASE HandleReset
  BY <1>22, ZenonT(60) DEF HandleReset
<1>23. CASE TriggerLocPub
  BY <1>23, ZenonT(60) DEF TriggerLocPub
<1>24. CASE SetMode
  BY <1>24 DEF SetMode
<1>25. CASE OtaBegins
  BY <1>25, ZenonT(60) DEF OtaBegins
<1>26. CASE OtaFails
  BY <1>26, ZenonT(60) DEF OtaFails, SleepDisabled
<1>27. CASE UNCHANGED vars
  BY <1>27 DEF vars
<1> QED
  BY <1>1, <1>2, <1>3, <1>4, <1>5, <1>6, <1>7, <1>8, <1>9, <1>10, <1>11, <1>12,
     <1>13, <1>14, <1>15, <1>16, <1>17, <1>18, <1>19, <1>20, <1>21, <1>22,
     <1>23, <1>24, <1>25, <1>26, <1>27
     DEF Next, SleepLoop, LocationLoop, Outside

LEMMA RangesNext == Ranges /\ [Next]_vars => Ranges'
<1> SUFFICES ASSUME Ranges, [Next]_vars PROVE Ranges'
  OBVIOUS
<1> USE Delays DEF Ranges, States
<1>r. Restarted(window) \in Windows
  BY RestartedType
<1>e. /\ Extended(window, ExeMin) \in Windows
      /\ Extended(window, KeepAwake) \in Windows
      /\ Restarted(Extended(window, Interval + ExeMin)) \in Windows
  BY ExtendedType, RestartedType
<1>1. CASE Boot
  <2>1. window' \in Windows
    BY <1>1 DEF Boot, Windows
  <2> QED
    BY <1>1, <2>1 DEF Boot, StateToConnecting
<1>2. CASE ConnectingDone
  BY <1>2, <1>r DEF ConnectingDone, PublishVitals, StateToExecute
<1>3. CASE ConnectingGivesUp
  BY <1>3, <1>r DEF ConnectingGivesUp, PublishVitals, StateToExecute
<1>4. CASE ConnectingWaits
  BY <1>4 DEF ConnectingWaits, PublishVitals
<1>5. CASE ExecuteConnect
  BY <1>5 DEF ExecuteConnect, StateToConnecting
<1>6. CASE ExecuteShutdown
  BY <1>6, <1>r DEF ExecuteShutdown, PublishVitals
<1>7. CASE ExecuteReset
  BY <1>7, <1>r DEF ExecuteReset, PublishVitals
<1>8. CASE ExecuteOn
  BY <1>8 DEF ExecuteOn
<1>9. CASE ExecuteDisabled
  BY <1>9, <1>r DEF ExecuteDisabled, PublishVitals
<1>10. CASE SleepCancel
  BY <1>10, <1>e DEF SleepCancel, StateToExecute, Spoiled
<1>11. CASE Suspend
  BY <1>11 DEF Suspend
<1>12. CASE Wake
  <2>1. CASE NetworkNeeded
    BY <1>12, <2>1 DEF Wake, StateToConnecting, Windows
  <2>2. CASE ~NetworkNeeded
    <3>1. PICK seconds \in WakeWindows :
            StateToExecute([age |-> 0, dur |-> seconds])
      BY <1>12, <2>2 DEF Wake
    <3>2. [age |-> 0, dur |-> seconds] \in Windows
      BY DEF Windows, WakeWindows
    <3>3. window' \in Windows /\ exec' = "EXECUTION"
      BY <3>1, <3>2, RestartedType DEF StateToExecute
    <3> QED
      BY <1>12, <2>2, <3>3 DEF Wake
  <2> QED
    BY <2>1, <2>2
<1>13. CASE ShutdownEnds
  BY <1>13 DEF ShutdownEnds, PublishVitals
<1>14. CASE ResetEnds
  BY <1>14 DEF ResetEnds, PublishVitals
<1>15. CASE LastWordsWait
  BY <1>15 DEF LastWordsWait, PublishVitals
<1>16. CASE LocationSkips
  BY <1>16 DEF LocationSkips
<1>17. CASE LocationWaits
  BY <1>17 DEF LocationWaits, AskForNetwork
<1>18. CASE LocationPublishes
  BY <1>18, <1>e DEF LocationPublishes, AskForNetwork, AnnouncePublish
<1>19. CASE Tick
  <2>1. /\ stateAge' \in 0..MaxWindow /\ quiet' \in 0..ExeMin
        /\ Later(window.age, MaxWindow) \in 0..MaxWindow
    BY <1>19, LaterType DEF Tick, Windows
  <2>2. window' \in Windows
    BY <1>19, <2>1 DEF Tick, Windows
  <2> QED
    BY <1>19, <2>1, <2>2 DEF Tick
<1>20. CASE LinkChange
  BY <1>20 DEF LinkChange
<1>21. CASE LowBattery
  BY <1>21 DEF LowBattery
<1>22. CASE HandleReset
  BY <1>22 DEF HandleReset
<1>23. CASE TriggerLocPub
  BY <1>23 DEF TriggerLocPub
<1>24. CASE SetMode
  BY <1>24 DEF SetMode
<1>25. CASE OtaBegins
  BY <1>25 DEF OtaBegins
<1>26. CASE OtaFails
  BY <1>26, <1>e DEF OtaFails
<1>27. CASE UNCHANGED vars
  BY <1>27 DEF vars
<1> QED
  BY <1>1, <1>2, <1>3, <1>4, <1>5, <1>6, <1>7, <1>8, <1>9, <1>10, <1>11, <1>12,
     <1>13, <1>14, <1>15, <1>16, <1>17, <1>18, <1>19, <1>20, <1>21, <1>22,
     <1>23, <1>24, <1>25, <1>26, <1>27
     DEF Next, SleepLoop, LocationLoop, Outside

LEMMA TypeNext == TypeOK /\ [Next]_vars => TypeOK'
BY FlagsNext, RangesNext DEF TypeOK

(* Every variable keeps its type, whatever the delays and the inputs. *)
THEOREM TypeCorrect == Spec => []TypeOK
BY TypeInit, TypeNext, PTL DEF Spec

-----------------------------------------------------------------------------
(* The flag and the modem.  The modem changes at boot, at a connection, at *)
(* a suspension and at the shutdown; the flag follows it only at the next  *)
(* wake, so that the invariant also says what holds while suspending.      *)

ModemInv ==
    /\ FullMeansModem
    /\ pc = "suspending" => (exec = "SLEEP" /\ ~modem)
    /\ exec = "BOOT" => pc = "idle"

LEMMA ModemInit == Init => ModemInv
BY DEF Init, ModemInv, FullMeansModem

LEMMA ModemNext ==
    ASSUME NetworkWake = FALSE
    PROVE  TypeOK /\ ModemInv /\ [Next]_vars => ModemInv'
<1> SUFFICES ASSUME TypeOK, ModemInv, [Next]_vars PROVE ModemInv'
  OBVIOUS
<1> USE DEF ModemInv, FullMeansModem, requests, triggers, link
<1>t. /\ pc \in {"idle", "location", "suspending", "off"} /\ exec \in States
      /\ full \in BOOLEAN /\ modem \in BOOLEAN
  BY DEF TypeOK, Flags, Ranges
<1>1. CASE Boot
  BY <1>1 DEF Boot, StateToConnecting
<1>2. CASE ConnectingDone
  BY <1>2 DEF ConnectingDone, StateToExecute
<1>3. CASE ConnectingGivesUp
  BY <1>3 DEF ConnectingGivesUp, StateToExecute
<1>4. CASE ConnectingWaits
  BY <1>4 DEF ConnectingWaits
<1>5. CASE ExecuteConnect
  BY <1>5 DEF ExecuteConnect, StateToConnecting
<1>6. CASE ExecuteShutdown
  BY <1>6 DEF ExecuteShutdown
<1>7. CASE ExecuteReset
  BY <1>7 DEF ExecuteReset
<1>8. CASE ExecuteOn
  BY <1>8 DEF ExecuteOn
<1>9. CASE ExecuteDisabled
  BY <1>9 DEF ExecuteDisabled
<1>10. CASE SleepCancel
  BY <1>10 DEF SleepCancel, StateToExecute, Spoiled
<1>11. CASE Suspend
  BY <1>11 DEF Suspend
<1>12. CASE Wake
  BY <1>12 DEF Wake, StateToConnecting, StateToExecute
<1>13. CASE ShutdownEnds
  BY <1>13 DEF ShutdownEnds
<1>14. CASE ResetEnds
  BY <1>14 DEF ResetEnds
<1>15. CASE LastWordsWait
  BY <1>15 DEF LastWordsWait
<1>16. CASE LocationSkips
  BY <1>16 DEF LocationSkips
<1>17. CASE LocationWaits
  BY <1>17 DEF LocationWaits
<1>18. CASE LocationPublishes
  BY <1>18 DEF LocationPublishes, AnnouncePublish
<1>19. CASE Tick
  BY <1>19 DEF Tick, Between
<1>20. CASE LinkChange
  BY <1>20 DEF LinkChange, Between
<1>21. CASE LowBattery
  BY <1>21 DEF LowBattery, Between
<1>22. CASE HandleReset
  BY <1>22 DEF HandleReset
<1>23. CASE TriggerLocPub
  BY <1>23 DEF TriggerLocPub
<1>24. CASE SetMode
  BY <1>24 DEF SetMode
<1>25. CASE OtaBegins
  BY <1>25 DEF OtaBegins
<1>26. CASE OtaFails
  BY <1>26 DEF OtaFails
<1>27. CASE UNCHANGED vars
  BY <1>27 DEF vars
<1> QED
  BY <1>1, <1>2, <1>3, <1>4, <1>5, <1>6, <1>7, <1>8, <1>9, <1>10, <1>11, <1>12,
     <1>13, <1>14, <1>15, <1>16, <1>17, <1>18, <1>19, <1>20, <1>21, <1>22,
     <1>23, <1>24, <1>25, <1>26, <1>27
     DEF Next, SleepLoop, LocationLoop, Outside

(* _inFullWakeup agrees with the modem whenever the loop runs, provided    *)
(* the network is no wake source, as in this firmware.                     *)
THEOREM ModemAgrees ==
    ASSUME NetworkWake = FALSE
    PROVE  Spec => []FullMeansModem
<1>1. Init => TypeOK /\ ModemInv
  BY TypeInit, ModemInit
<1>2. (TypeOK /\ ModemInv) /\ [Next]_vars => (TypeOK /\ ModemInv)'
  BY TypeNext, ModemNext
<1>3. TypeOK /\ ModemInv => FullMeansModem
  BY DEF ModemInv
<1> QED
  BY <1>1, <1>2, <1>3, PTL DEF Spec

-----------------------------------------------------------------------------
(* The time a publish keeps the device awake.  What is left of the         *)
(* execution window covers what is missing of exe_min since the publish:   *)
(* every step that shortens the one shortens the other.                    *)

Covers(w, q) == q < ExeMin => ExeMin + w.age <= w.dur + q
QuietInv == Covers(window, quiet)
BootInv == exec = "BOOT" => (quiet = ExeMin /\ pc = "idle")

LEMMA ExtendedCovers ==
    ASSUME NEW w \in Windows, NEW s \in 0..MaxWindow, NEW q \in 0..ExeMin,
           Covers(w, q)
    PROVE  Covers(Extended(w, s), q)
BY Delays DEF Covers, Extended, Windows

LEMMA RestartedCovers ==
    ASSUME NEW w \in Windows, NEW q \in 0..ExeMin, Covers(w, q)
    PROVE  Covers(Restarted(w), q)
BY Delays DEF Covers, Restarted, Windows

(* A publish itself leaves at least exe_min of the window. *)
LEMMA PublishCovers ==
    ASSUME NEW w \in Windows
    PROVE  Covers(Extended(w, ExeMin), 0)
BY Delays DEF Covers, Extended, Windows

(* A second takes one off both sides, or nothing when an age saturates. *)
LEMMA LaterCovers ==
    ASSUME NEW w \in Windows, NEW q \in 0..ExeMin, Covers(w, q)
    PROVE  Covers([w EXCEPT !.age = Later(w.age, MaxWindow)], Later(q, ExeMin))
BY Delays DEF Covers, Later, Windows

LEMMA QuietInit == Init => QuietInv /\ BootInv
BY Delays DEF Init, QuietInv, BootInv, Covers

LEMMA BootNext == BootInv /\ [Next]_vars => BootInv'
<1> SUFFICES ASSUME BootInv, [Next]_vars PROVE BootInv'
  OBVIOUS
<1> USE DEF BootInv
<1>1. CASE Boot
  BY <1>1 DEF Boot, StateToConnecting
<1>2. CASE ConnectingDone
  BY <1>2 DEF ConnectingDone, StateToExecute
<1>3. CASE ConnectingGivesUp
  BY <1>3 DEF ConnectingGivesUp, StateToExecute
<1>4. CASE ConnectingWaits
  BY <1>4 DEF ConnectingWaits
<1>5. CASE ExecuteConnect
  BY <1>5 DEF ExecuteConnect, StateToConnecting
<1>6. CASE ExecuteShutdown
  BY <1>6 DEF ExecuteShutdown
<1>7. CASE ExecuteReset
  BY <1>7 DEF ExecuteReset
<1>8. CASE ExecuteOn
  BY <1>8 DEF ExecuteOn
<1>9. CASE ExecuteDisabled
  BY <1>9 DEF ExecuteDisabled
<1>10. CASE SleepCancel
  BY <1>10 DEF SleepCancel, StateToExecute, Spoiled
<1>11. CASE Suspend
  BY <1>11 DEF Suspend
<1>12. CASE Wake
  BY <1>12 DEF Wake, StateToConnecting, StateToExecute
<1>13. CASE ShutdownEnds
  BY <1>13 DEF ShutdownEnds
<1>14. CASE ResetEnds
  BY <1>14 DEF ResetEnds
<1>15. CASE LastWordsWait
  BY <1>15 DEF LastWordsWait
<1>16. CASE LocationSkips
  BY <1>16 DEF LocationSkips
<1>17. CASE LocationWaits
  BY <1>17 DEF LocationWaits
<1>18. CASE LocationPublishes
  BY <1>18 DEF LocationPublishes, AnnouncePublish
<1>19. CASE Tick
  BY <1>19, Delays DEF Tick, Between, Later
<1>20. CASE LinkChange
  BY <1>20 DEF LinkChange
<1>21. CASE LowBattery
  BY <1>21 DEF LowBattery
<1>22. CASE HandleReset
  BY <1>22 DEF HandleReset
<1>23. CASE TriggerLocPub
  BY <1>23 DEF TriggerLocPub
<1>24. CASE SetMode
  BY <1>24 DEF SetMode
<1>25. CASE OtaBegins
  BY <1>25 DEF OtaBegins
<1>26. CASE OtaFails
  BY <1>26 DEF OtaFails
<1>27. CASE UNCHANGED vars
  BY <1>27 DEF vars
<1> QED
  BY <1>1, <1>2, <1>3, <1>4, <1>5, <1>6, <1>7, <1>8, <1>9, <1>10, <1>11, <1>12,
     <1>13, <1>14, <1>15, <1>16, <1>17, <1>18, <1>19, <1>20, <1>21, <1>22,
     <1>23, <1>24, <1>25, <1>26, <1>27
     DEF Next, SleepLoop, LocationLoop, Outside

LEMMA QuietNext == Ranges /\ BootInv /\ QuietInv /\ [Next]_vars => QuietInv'
<1> SUFFICES ASSUME Ranges, BootInv, QuietInv, [Next]_vars PROVE QuietInv'
  OBVIOUS
<1> USE DEF QuietInv
<1>w. window \in Windows /\ quiet \in 0..ExeMin
  BY DEF Ranges
<1>r. Covers(Restarted(window), quiet)
  BY <1>w, RestartedCovers
<1>k. Covers(Extended(window, KeepAwake), quiet)
  BY <1>w, Delays, ExtendedCovers
<1>i. Covers(Restarted(Extended(window, Interval + ExeMin)), quiet)
  BY <1>w, Delays, ExtendedType, ExtendedCovers, RestartedCovers
<1>1. CASE Boot
  BY <1>1, Delays DEF Boot, BootInv, Covers
<1>2. CASE ConnectingDone
  BY <1>2, <1>r DEF ConnectingDone, StateToExecute
<1>3. CASE ConnectingGivesUp
  BY <1>3, <1>r DEF ConnectingGivesUp, StateToExecute
<1>4. CASE ConnectingWaits
  BY <1>4 DEF ConnectingWaits
<1>5. CASE ExecuteConnect
  BY <1>5 DEF ExecuteConnect
<1>6. CASE ExecuteShutdown
  BY <1>6, <1>r DEF ExecuteShutdown
<1>7. CASE ExecuteReset
  BY <1>7, <1>r DEF ExecuteReset
<1>8. CASE ExecuteOn
  BY <1>8 DEF ExecuteOn
<1>9. CASE ExecuteDisabled
  BY <1>9, <1>r DEF ExecuteDisabled
<1>10. CASE SleepCancel
  BY <1>10, <1>i DEF SleepCancel, StateToExecute, Spoiled
<1>11. CASE Suspend
  BY <1>11 DEF Suspend
<1>12. CASE Wake
  BY <1>12, Delays DEF Wake, Covers
<1>13. CASE ShutdownEnds
  BY <1>13 DEF ShutdownEnds
<1>14. CASE ResetEnds
  BY <1>14 DEF ResetEnds
<1>15. CASE LastWordsWait
  BY <1>15 DEF LastWordsWait
<1>16. CASE LocationSkips
  BY <1>16 DEF LocationSkips
<1>17. CASE LocationWaits
  BY <1>17 DEF LocationWaits
<1>18. CASE LocationPublishes
  BY <1>18, <1>w, PublishCovers DEF LocationPublishes, AnnouncePublish
<1>19. CASE Tick
  BY <1>19, <1>w, LaterCovers DEF Tick
<1>20. CASE LinkChange
  BY <1>20 DEF LinkChange
<1>21. CASE LowBattery
  BY <1>21 DEF LowBattery
<1>22. CASE HandleReset
  BY <1>22 DEF HandleReset
<1>23. CASE TriggerLocPub
  BY <1>23 DEF TriggerLocPub
<1>24. CASE SetMode
  BY <1>24 DEF SetMode
<1>25. CASE OtaBegins
  BY <1>25 DEF OtaBegins
<1>26. CASE OtaFails
  BY <1>26, <1>k DEF OtaFails
<1>27. CASE UNCHANGED vars
  BY <1>27 DEF vars
<1> QED
  BY <1>1, <1>2, <1>3, <1>4, <1>5, <1>6, <1>7, <1>8, <1>9, <1>10, <1>11, <1>12,
     <1>13, <1>14, <1>15, <1>16, <1>17, <1>18, <1>19, <1>20, <1>21, <1>22,
     <1>23, <1>24, <1>25, <1>26, <1>27
     DEF Next, SleepLoop, LocationLoop, Outside

(* Only an expired window leads to sleep, and it covers nothing any more. *)
LEMMA SleepStep ==
    Ranges /\ QuietInv /\ [Next]_vars /\ exec # "SLEEP" /\ exec' = "SLEEP"
      => quiet >= ExeMin
<1> SUFFICES ASSUME Ranges, QuietInv, [Next]_vars, exec # "SLEEP", exec' = "SLEEP"
             PROVE  quiet >= ExeMin
  OBVIOUS
<1>1. Expired
  <2>1. CASE Boot
    BY <2>1 DEF Boot, StateToConnecting
  <2>2. CASE ConnectingDone
    BY <2>2 DEF ConnectingDone, StateToExecute
  <2>3. CASE ConnectingGivesUp
    BY <2>3 DEF ConnectingGivesUp, StateToExecute
  <2>4. CASE ConnectingWaits
    BY <2>4 DEF ConnectingWaits
  <2>5. CASE ExecuteConnect
    BY <2>5 DEF ExecuteConnect, StateToConnecting
  <2>6. CASE ExecuteShutdown
    BY <2>6 DEF ExecuteShutdown
  <2>7. CASE ExecuteReset
    BY <2>7 DEF ExecuteReset
  <2>8. CASE ExecuteOn
    BY <2>8 DEF ExecuteOn
  <2>9. CASE ExecuteDisabled
    BY <2>9 DEF ExecuteDisabled
  <2>10. CASE SleepCancel
    BY <2>10 DEF SleepCancel, StateToExecute, Spoiled
  <2>11. CASE Suspend
    BY <2>11 DEF Suspend
  <2>12. CASE Wake
    BY <2>12 DEF Wake, StateToConnecting, StateToExecute
  <2>13. CASE ShutdownEnds
    BY <2>13 DEF ShutdownEnds
  <2>14. CASE ResetEnds
    BY <2>14 DEF ResetEnds
  <2>15. CASE LastWordsWait
    BY <2>15 DEF LastWordsWait
  <2>16. CASE LocationSkips
    BY <2>16 DEF LocationSkips
  <2>17. CASE LocationWaits
    BY <2>17 DEF LocationWaits
  <2>18. CASE LocationPublishes
    BY <2>18 DEF LocationPublishes, AnnouncePublish
  <2>19. CASE Tick
    BY <2>19 DEF Tick
  <2>20. CASE LinkChange
    BY <2>20 DEF LinkChange
  <2>21. CASE LowBattery
    BY <2>21 DEF LowBattery
  <2>22. CASE HandleReset
    BY <2>22 DEF HandleReset
  <2>23. CASE TriggerLocPub
    BY <2>23 DEF TriggerLocPub
  <2>24. CASE SetMode
    BY <2>24 DEF SetMode
  <2>25. CASE OtaBegins
    BY <2>25 DEF OtaBegins
  <2>26. CASE OtaFails
    BY <2>26 DEF OtaFails
  <2>27. CASE UNCHANGED vars
    BY <2>27 DEF vars
  <2> QED
    BY <2>1, <2>2, <2>3, <2>4, <2>5, <2>6, <2>7, <2>8, <2>9, <2>10, <2>11, <2>12,
       <2>13, <2>14, <2>15, <2>16, <2>17, <2>18, <2>19, <2>20, <2>21, <2>22,
       <2>23, <2>24, <2>25, <2>26, <2>27
       DEF Next, SleepLoop, LocationLoop, Outside
<1>2. window \in Windows /\ quiet \in 0..ExeMin
  BY DEF Ranges
<1> QED
  BY <1>1, <1>2, Delays DEF Expired, QuietInv, Covers, Windows

(* The device does not leave for sleep within exe_min seconds of a publish, *)
(* whatever delays, settings and outside events it is given.                *)
THEOREM PublishKeepsAwake == Spec => AwakeAfterPublish
<1>1. Init => TypeOK /\ BootInv /\ QuietInv
  BY TypeInit, QuietInit
<1>2. TypeOK /\ BootInv /\ QuietInv /\ [Next]_vars
        => (TypeOK /\ BootInv /\ QuietInv)'
  BY TypeNext, BootNext, QuietNext DEF TypeOK
<1>3. TypeOK /\ QuietInv /\ [Next]_vars
        => [(exec # "SLEEP" /\ exec' = "SLEEP") => quiet >= ExeMin]_vars
  BY SleepStep DEF TypeOK
<1> QED
  BY <1>1, <1>2, <1>3, PTL DEF Spec, AwakeAfterPublish

-----------------------------------------------------------------------------
(* What holds sleep back. *)

LEMMA HeldNext ==
    ASSUME Modes = {"Enable"}
    PROVE  TypeOK /\ HeldByOtaOnly /\ [Next]_vars => HeldByOtaOnly'
<1> SUFFICES ASSUME TypeOK, HeldByOtaOnly, [Next]_vars PROVE HeldByOtaOnly'
  OBVIOUS
<1> USE DEF HeldByOtaOnly, requests
<1>m. ~SleepDisabled
  BY DEF TypeOK, Ranges, SleepDisabled
<1>1. CASE Boot
  BY <1>1 DEF Boot
<1>2. CASE ConnectingDone
  BY <1>2 DEF ConnectingDone
<1>3. CASE ConnectingGivesUp
  BY <1>3 DEF ConnectingGivesUp
<1>4. CASE ConnectingWaits
  BY <1>4 DEF ConnectingWaits
<1>5. CASE ExecuteConnect
  BY <1>5 DEF ExecuteConnect
<1>6. CASE ExecuteShutdown
  BY <1>6 DEF ExecuteShutdown
<1>7. CASE ExecuteReset
  BY <1>7 DEF ExecuteReset
<1>8. CASE ExecuteOn
  BY <1>8 DEF ExecuteOn
<1>9. CASE ExecuteDisabled
  BY <1>9 DEF ExecuteDisabled
<1>10. CASE SleepCancel
  BY <1>10 DEF SleepCancel
<1>11. CASE Suspend
  BY <1>11 DEF Suspend
<1>12. CASE Wake
  BY <1>12 DEF Wake
<1>13. CASE ShutdownEnds
  BY <1>13 DEF ShutdownEnds
<1>14. CASE ResetEnds
  BY <1>14 DEF ResetEnds
<1>15. CASE LastWordsWait
  BY <1>15 DEF LastWordsWait
<1>16. CASE LocationSkips
  BY <1>16 DEF LocationSkips
<1>17. CASE LocationWaits
  BY <1>17 DEF LocationWaits
<1>18. CASE LocationPublishes
  BY <1>18 DEF LocationPublishes, AnnouncePublish
<1>19. CASE Tick
  BY <1>19 DEF Tick
<1>20. CASE LinkChange
  BY <1>20 DEF LinkChange
<1>21. CASE LowBattery
  BY <1>21 DEF LowBattery
<1>22. CASE HandleReset
  BY <1>22 DEF HandleReset
<1>23. CASE TriggerLocPub
  BY <1>23 DEF TriggerLocPub
<1>24. CASE SetMode
  BY <1>24 DEF SetMode
<1>25. CASE OtaBegins
  BY <1>25 DEF OtaBegins
<1>26. CASE OtaFails
  BY <1>26, <1>m DEF OtaFails
<1>27. CASE UNCHANGED vars
  BY <1>27 DEF vars
<1> QED
  BY <1>1, <1>2, <1>3, <1>4, <1>5, <1>6, <1>7, <1>8, <1>9, <1>10, <1>11, <1>12,
     <1>13, <1>14, <1>15, <1>16, <1>17, <1>18, <1>19, <1>20, <1>21, <1>22,
     <1>23, <1>24, <1>25, <1>26, <1>27
     DEF Next, SleepLoop, LocationLoop, Outside

(* With sleep enabled for good, only an OTA under way holds sleep back. *)
THEOREM HeldByOta ==
    ASSUME Modes = {"Enable"}
    PROVE  Spec => []HeldByOtaOnly
<1>1. Init => TypeOK /\ HeldByOtaOnly
  BY TypeInit DEF Init, HeldByOtaOnly
<1>2. TypeOK /\ HeldByOtaOnly /\ [Next]_vars => (TypeOK /\ HeldByOtaOnly)'
  BY TypeNext, HeldNext
<1> QED
  BY <1>1, <1>2, PTL DEF Spec

-----------------------------------------------------------------------------
(* No state outlasts its limit.  At most one second passes between two     *)
(* passes of the loop, and a pass leaves a state that has reached its       *)
(* limit; so until the next second the limit is not yet reached.            *)

Open(w) == w.age < w.dur
Passed == pc = "location" \/ (pc = "idle" /\ ~ticked)
NotYet ==
    /\ exec = "CONNECTING" => stateAge < ConnMax
    /\ exec = "SHUTDOWN" => stateAge < ShutdownTimeout
    /\ exec = "RESET" => stateAge < ResetTimeout
    /\ exec = "EXECUTION" /\ ~hold => Open(window)
WindowSet == exec # "BOOT" => window.dur > 0
InTimeInv == WindowSet /\ LeftInTime /\ (Passed => NotYet)

(* Every limit is a number of seconds, at least one, that the ages can count. *)
LEMMA Limits ==
    /\ {ConnMax, ShutdownTimeout, ResetTimeout, ExeMin} \subseteq 1..MaxWindow
    /\ {KeepAwake, EarlySleep, Interval + ExeMin, ExeMin + ConnMax} \subseteq 1..MaxWindow
    /\ MaxWindow \in Nat
BY SleepAssumption DEF SleepAssumption

(* An extended window is open, and so is one that is restarted. *)
LEMMA ExtendedOpen ==
    ASSUME NEW w \in Windows, NEW s \in 1..MaxWindow
    PROVE  Open(Extended(w, s)) /\ Extended(w, s).dur > 0
BY Limits DEF Open, Extended, Windows

LEMMA RestartedOpen ==
    ASSUME NEW w \in Windows, w.dur > 0
    PROVE  Open(Restarted(w)) /\ Restarted(w).dur > 0
BY Limits DEF Open, Restarted, Windows

(* A second closes an open window at the earliest at its end. *)
LEMMA LaterOpen ==
    ASSUME NEW w \in Windows, Open(w)
    PROVE  Later(w.age, MaxWindow) <= w.dur
BY Limits DEF Open, Later, Windows

(* An age below its limit reaches it at the earliest a second later. *)
LEMMA LaterInTime ==
    ASSUME NEW age \in 0..MaxWindow, NEW limit \in 1..MaxWindow, age < limit
    PROVE  Later(age, MaxWindow) <= limit
BY Limits DEF Later

(* How a step keeps the invariant: it enters execution with an open window,  *)
(* or another state with its age restarted, or it stays where it is.          *)
LEMMA EntersExecution ==
    ASSUME exec' = "EXECUTION", window' \in Windows, Open(window'), window'.dur > 0
    PROVE  InTimeInv'
<1>1. window'.age <= window'.dur
  BY DEF Open, Windows
<1> QED
  BY <1>1 DEF InTimeInv, WindowSet, LeftInTime, NotYet

LEMMA EntersOther ==
    ASSUME exec' \in {"CONNECTING", "SHUTDOWN", "RESET", "SLEEP"}, stateAge' = 0,
           window'.dur > 0
    PROVE  InTimeInv'
BY Limits DEF InTimeInv, WindowSet, LeftInTime, NotYet

LEMMA Stays ==
    ASSUME InTimeInv, UNCHANGED <<exec, stateAge, window, hold>>, Passed' => NotYet
    PROVE  InTimeInv'
BY DEF InTimeInv, WindowSet, LeftInTime, NotYet

LEMMA InTimeInit == Init => InTimeInv
BY DEF Init, InTimeInv, WindowSet, LeftInTime, Passed, NotYet

LEMMA InTimeNext == TypeOK /\ InTimeInv /\ [Next]_vars => InTimeInv'
<1> SUFFICES ASSUME TypeOK, InTimeInv, [Next]_vars PROVE InTimeInv'
  OBVIOUS
<1> USE DEF requests, triggers, link
<1>w. /\ window \in Windows /\ stateAge \in 0..MaxWindow /\ exec \in States
      /\ pc \in {"idle", "location", "suspending", "off"}
      /\ ticked \in BOOLEAN /\ hold \in BOOLEAN /\ window' \in Windows
  BY TypeNext DEF TypeOK, Flags, Ranges
<1>r. exec # "BOOT" => Open(Restarted(window)) /\ Restarted(window).dur > 0
  BY <1>w, RestartedOpen DEF InTimeInv, WindowSet
<1>1. CASE Boot
  <2>1. exec' = "CONNECTING" /\ stateAge' = 0 /\ window'.dur = ExeMin
    BY <1>1, <1>w DEF Boot, StateToConnecting, Windows
  <2> QED
    BY <2>1, Limits, EntersOther
<1>2. CASE ConnectingDone
  BY <1>2, <1>w, <1>r, EntersExecution DEF ConnectingDone, StateToExecute
<1>3. CASE ConnectingGivesUp
  BY <1>3, <1>w, <1>r, EntersExecution DEF ConnectingGivesUp, StateToExecute
<1>4. CASE ConnectingWaits
  <2>1. stateAge < ConnMax /\ exec = "CONNECTING"
    BY <1>4, <1>w, Limits DEF ConnectingWaits, ConnectTimedOut
  <2>2. NotYet
    BY <2>1 DEF NotYet
  <2> QED
    BY <1>4, <2>2, Stays DEF ConnectingWaits
<1>5. CASE ExecuteConnect
  BY <1>5, EntersOther DEF ExecuteConnect, StateToConnecting, InTimeInv, WindowSet
<1>6. CASE ExecuteShutdown
  <2>1. exec' \in {"SHUTDOWN", "SLEEP"} /\ stateAge' = 0
    BY <1>6 DEF ExecuteShutdown
  <2>2. window' = Restarted(window) \/ window' = window
    BY <1>6 DEF ExecuteShutdown
  <2>3. window'.dur > 0
    BY <1>6, <1>r, <2>2 DEF ExecuteShutdown, InTimeInv, WindowSet
  <2> QED
    BY <2>1, <2>3, EntersOther
<1>7. CASE ExecuteReset
  <2>1. exec' \in {"RESET", "SLEEP"} /\ stateAge' = 0
    BY <1>7 DEF ExecuteReset
  <2>2. window' = Restarted(window) \/ window' = window
    BY <1>7 DEF ExecuteReset
  <2>3. window'.dur > 0
    BY <1>7, <1>r, <2>2 DEF ExecuteReset, InTimeInv, WindowSet
  <2> QED
    BY <2>1, <2>3, EntersOther
<1>8. CASE ExecuteOn
  <2>1. CASE Expired
    <3>1. exec' = "SLEEP" /\ window' = window
      BY <1>8, <2>1 DEF ExecuteOn
    <3> QED
      BY <1>8, <3>1 DEF ExecuteOn, InTimeInv, WindowSet, LeftInTime, NotYet
  <2>2. CASE ~Expired
    <3>1. exec = "EXECUTION" /\ UNCHANGED <<exec, stateAge, window, hold>>
      BY <1>8, <2>2 DEF ExecuteOn
    <3>2. ~hold => Open(window)
      BY <1>w, <2>2 DEF Expired, Open, Windows
    <3>3. NotYet
      BY <3>1, <3>2 DEF NotYet
    <3> QED
      BY <3>1, <3>3, Stays
  <2> QED
    BY <2>1, <2>2
<1>9. CASE ExecuteDisabled
  BY <1>9, <1>w, <1>r, EntersExecution DEF ExecuteDisabled
<1>10. CASE SleepCancel
  <2> DEFINE w == Extended(window, Interval + ExeMin)
  <2>1. w \in Windows /\ w.dur > 0
    BY <1>w, Delays, Limits, ExtendedType, ExtendedOpen
  <2>2. Open(Restarted(w)) /\ Restarted(w).dur > 0
    BY <2>1, RestartedOpen
  <2>3. exec' = "EXECUTION" /\ window' = Restarted(w)
    BY <1>10 DEF SleepCancel, StateToExecute, Spoiled
  <2> QED
    BY <1>w, <2>2, <2>3, EntersExecution
<1>11. CASE Suspend
  BY <1>11, <1>w DEF Suspend, InTimeInv, WindowSet, LeftInTime, Passed
<1>12. CASE Wake
  <2>1. CASE NetworkNeeded
    <3>1. exec' = "CONNECTING" /\ stateAge' = 0 /\ window'.dur = ExeMin
      BY <1>12, <2>1 DEF Wake, StateToConnecting
    <3> QED
      BY <3>1, Limits, EntersOther
  <2>2. CASE ~NetworkNeeded
    <3>1. PICK seconds \in WakeWindows :
            StateToExecute([age |-> 0, dur |-> seconds])
      BY <1>12, <2>2 DEF Wake
    <3>2. seconds \in 1..MaxWindow
      BY Limits DEF WakeWindows
    <3>3. exec' = "EXECUTION" /\ window'.age = 0 /\ window'.dur = seconds
      BY <3>1 DEF StateToExecute, Restarted
    <3> QED
      BY <1>w, <3>2, <3>3, EntersExecution DEF Open
  <2> QED
    BY <2>1, <2>2
<1>13. CASE ShutdownEnds
  BY <1>13, Stays DEF ShutdownEnds, Passed
<1>14. CASE ResetEnds
  BY <1>14, Stays DEF ResetEnds, Passed
<1>15. CASE LastWordsWait
  <2>1. \/ exec = "SHUTDOWN" /\ stateAge < ShutdownTimeout
        \/ exec = "RESET" /\ stateAge < ResetTimeout
    BY <1>15, <1>w, Limits DEF LastWordsWait, ShutdownOver, ResetOver
  <2>2. NotYet
    BY <2>1 DEF NotYet
  <2> QED
    BY <1>15, <2>2, Stays DEF LastWordsWait
<1>16. CASE LocationSkips
  BY <1>16, Stays DEF LocationSkips, Passed, InTimeInv
<1>17. CASE LocationWaits
  BY <1>17, Stays DEF LocationWaits, Passed, InTimeInv
<1>18. CASE LocationPublishes
  <2>1. Open(window') /\ window'.dur > 0 /\ UNCHANGED <<exec, stateAge, hold>>
    BY <1>18, <1>w, Limits, ExtendedOpen DEF LocationPublishes, AnnouncePublish
  <2>2. NotYet
    BY <1>18 DEF LocationPublishes, InTimeInv, Passed
  <2>3. window'.age <= window'.dur
    BY <1>w, <2>1 DEF Open, Windows
  <2> QED
    BY <2>1, <2>2, <2>3 DEF InTimeInv, WindowSet, LeftInTime, NotYet
<1>19. CASE Tick
  <2>1. NotYet /\ ~Passed' /\ UNCHANGED <<exec, hold>>
    BY <1>19 DEF Tick, Between, InTimeInv, Passed
  <2>2. stateAge' = Later(stateAge, MaxWindow)
    BY <1>19 DEF Tick
  <2>3. window'.dur = window.dur /\ window'.age = Later(window.age, MaxWindow)
    BY <1>19, <1>w DEF Tick, Windows
  <2>4. \A limit \in 1..MaxWindow : stateAge < limit => stateAge' <= limit
    BY <1>w, <2>2, LaterInTime
  <2>5. Open(window) => window'.age <= window'.dur
    BY <1>w, <2>3, LaterOpen
  <2>6. LeftInTime'
    BY <2>1, <2>4, <2>5, Limits DEF NotYet, LeftInTime
  <2> QED
    BY <2>1, <2>3, <2>6 DEF InTimeInv, WindowSet
<1>20. CASE LinkChange
  BY <1>20, Stays DEF LinkChange, Passed, InTimeInv
<1>21. CASE LowBattery
  BY <1>21, Stays DEF LowBattery, Passed, InTimeInv
<1>22. CASE HandleReset
  BY <1>22, Stays DEF HandleReset, Passed, InTimeInv
<1>23. CASE TriggerLocPub
  BY <1>23, Stays DEF TriggerLocPub, Passed, InTimeInv
<1>24. CASE SetMode
  BY <1>24, Stays DEF SetMode, Passed, InTimeInv
<1>25. CASE OtaBegins
  BY <1>25 DEF OtaBegins, InTimeInv, WindowSet, LeftInTime, Passed, NotYet
<1>26. CASE OtaFails
  <2>1. UNCHANGED <<pc, ticked, exec, stateAge>>
    BY <1>26 DEF OtaFails
  <2>2. CASE SleepDisabled
    <3>1. hold' = TRUE /\ window' = window
      BY <1>26, <2>2 DEF OtaFails
    <3> QED
      BY <2>1, <3>1 DEF InTimeInv, WindowSet, LeftInTime, Passed, NotYet
  <2>3. CASE ~SleepDisabled
    <3>1. Open(window') /\ window'.dur > 0
      BY <1>26, <1>w, <2>3, Limits, ExtendedOpen DEF OtaFails
    <3>2. window'.age <= window'.dur
      BY <1>w, <3>1 DEF Open, Windows
    <3> QED
      BY <2>1, <3>1, <3>2 DEF InTimeInv, WindowSet, LeftInTime, Passed, NotYet
  <2> QED
    BY <2>2, <2>3
<1>27. CASE UNCHANGED vars
  BY <1>27, Stays DEF vars, Passed, InTimeInv
<1> QED
  BY <1>1, <1>2, <1>3, <1>4, <1>5, <1>6, <1>7, <1>8, <1>9, <1>10, <1>11, <1>12,
     <1>13, <1>14, <1>15, <1>16, <1>17, <1>18, <1>19, <1>20, <1>21, <1>22,
     <1>23, <1>24, <1>25, <1>26, <1>27
     DEF Next, SleepLoop, LocationLoop, Outside

(* CONNECTING, the last words and the execution window end within their      *)
(* seconds, for every choice of delays and whatever network, publishes,       *)
(* OTAs and settings do: the bounded form of "always ends".                  *)
THEOREM InTime == Spec => []LeftInTime
<1>1. Init => TypeOK /\ InTimeInv
  BY TypeInit, InTimeInit
<1>2. TypeOK /\ InTimeInv /\ [Next]_vars => (TypeOK /\ InTimeInv)'
  BY TypeNext, InTimeNext
<1>3. InTimeInv => LeftInTime
  BY DEF InTimeInv
<1> QED
  BY <1>1, <1>2, <1>3, PTL DEF Spec

-----------------------------------------------------------------------------
(* What stops the device. *)

LEMMA AskedNext == StopsOnlyWhenAsked /\ [Next]_vars => StopsOnlyWhenAsked'
<1> SUFFICES ASSUME StopsOnlyWhenAsked, [Next]_vars PROVE StopsOnlyWhenAsked'
  OBVIOUS
<1> USE DEF StopsOnlyWhenAsked, requests
<1>1. CASE Boot
  BY <1>1 DEF Boot, StateToConnecting
<1>2. CASE ConnectingDone
  BY <1>2 DEF ConnectingDone, StateToExecute
<1>3. CASE ConnectingGivesUp
  BY <1>3 DEF ConnectingGivesUp, StateToExecute
<1>4. CASE ConnectingWaits
  BY <1>4 DEF ConnectingWaits
<1>5. CASE ExecuteConnect
  BY <1>5 DEF ExecuteConnect, StateToConnecting
<1>6. CASE ExecuteShutdown
  BY <1>6 DEF ExecuteShutdown
<1>7. CASE ExecuteReset
  BY <1>7 DEF ExecuteReset
<1>8. CASE ExecuteOn
  BY <1>8 DEF ExecuteOn
<1>9. CASE ExecuteDisabled
  BY <1>9 DEF ExecuteDisabled
<1>10. CASE SleepCancel
  BY <1>10 DEF SleepCancel, StateToExecute
<1>11. CASE Suspend
  BY <1>11 DEF Suspend
<1>12. CASE Wake
  BY <1>12 DEF Wake, StateToConnecting, StateToExecute
<1>13. CASE ShutdownEnds
  BY <1>13 DEF ShutdownEnds
<1>14. CASE ResetEnds
  BY <1>14 DEF ResetEnds
<1>15. CASE LastWordsWait
  BY <1>15 DEF LastWordsWait
<1>16. CASE LocationSkips
  BY <1>16 DEF LocationSkips
<1>17. CASE LocationWaits
  BY <1>17 DEF LocationWaits
<1>18. CASE LocationPublishes
  BY <1>18 DEF LocationPublishes
<1>19. CASE Tick
  BY <1>19 DEF Tick, Between
<1>20. CASE LinkChange
  BY <1>20 DEF LinkChange, Between
<1>21. CASE LowBattery
  BY <1>21 DEF LowBattery, Between
<1>22. CASE HandleReset
  BY <1>22 DEF HandleReset, Dispatched
<1>23. CASE TriggerLocPub
  BY <1>23 DEF TriggerLocPub, Dispatched
<1>24. CASE SetMode
  BY <1>24 DEF SetMode, Dispatched
<1>25. CASE OtaBegins
  BY <1>25 DEF OtaBegins, Dispatched
<1>26. CASE OtaFails
  BY <1>26 DEF OtaFails, Dispatched
<1>27. CASE UNCHANGED vars
  BY <1>27 DEF vars
<1> QED
  BY <1>1, <1>2, <1>3, <1>4, <1>5, <1>6, <1>7, <1>8, <1>9, <1>10, <1>11, <1>12,
     <1>13, <1>14, <1>15, <1>16, <1>17, <1>18, <1>19, <1>20, <1>21, <1>22,
     <1>23, <1>24, <1>25, <1>26, <1>27
     DEF Next, SleepLoop, LocationLoop, Outside

(* The device goes off, resets or stops listening for its location only      *)
(* because it was asked to, and its request is still there when it does.    *)
THEOREM StopsWhenAsked == Spec => []StopsOnlyWhenAsked
<1>1. Init => StopsOnlyWhenAsked
  BY DEF Init, StopsOnlyWhenAsked
<1> QED
  BY <1>1, AskedNext, PTL DEF Spec

(* A device that is suspending was about to sleep, and is in no last state. *)
FinalInv == ShutdownIsFinal /\ (pc = "suspending" => exec = "SLEEP")

LEMMA FinalNext ==
    ASSUME "Enable" \notin Modes
    PROVE  TypeOK /\ FinalInv /\ [Next]_vars => FinalInv'
<1> SUFFICES ASSUME TypeOK, FinalInv, [Next]_vars PROVE FinalInv'
  OBVIOUS
<1> USE DEF FinalInv, ShutdownIsFinal
<1>m. SleepDisabled /\ announced \in BOOLEAN
  BY SleepAssumption DEF SleepAssumption, TypeOK, Flags, Ranges, SleepDisabled
<1>1. CASE Boot
  BY <1>1, <1>m DEF Boot, StateToConnecting
<1>2. CASE ConnectingDone
  BY <1>2, <1>m DEF ConnectingDone, StateToExecute
<1>3. CASE ConnectingGivesUp
  BY <1>3, <1>m DEF ConnectingGivesUp, StateToExecute
<1>4. CASE ConnectingWaits
  BY <1>4, <1>m DEF ConnectingWaits
<1>5. CASE ExecuteConnect
  BY <1>5, <1>m DEF ExecuteConnect, StateToConnecting
<1>6. CASE ExecuteShutdown
  BY <1>6, <1>m DEF ExecuteShutdown
<1>7. CASE ExecuteReset
  BY <1>7, <1>m DEF ExecuteReset
<1>8. CASE ExecuteOn
  BY <1>8, <1>m DEF ExecuteOn
<1>9. CASE ExecuteDisabled
  BY <1>9, <1>m DEF ExecuteDisabled
<1>10. CASE SleepCancel
  BY <1>10, <1>m DEF SleepCancel, StateToExecute
<1>11. CASE Suspend
  BY <1>11, <1>m DEF Suspend
<1>12. CASE Wake
  BY <1>12, <1>m DEF Wake, StateToConnecting, StateToExecute
<1>13. CASE ShutdownEnds
  BY <1>13, <1>m DEF ShutdownEnds
<1>14. CASE ResetEnds
  BY <1>14, <1>m DEF ResetEnds
<1>15. CASE LastWordsWait
  BY <1>15, <1>m DEF LastWordsWait
<1>16. CASE LocationSkips
  BY <1>16, <1>m DEF LocationSkips
<1>17. CASE LocationWaits
  BY <1>17, <1>m DEF LocationWaits
<1>18. CASE LocationPublishes
  BY <1>18, <1>m DEF LocationPublishes
<1>19. CASE Tick
  BY <1>19, <1>m DEF Tick, Between
<1>20. CASE LinkChange
  BY <1>20, <1>m DEF LinkChange, Between
<1>21. CASE LowBattery
  BY <1>21, <1>m DEF LowBattery, Between
<1>22. CASE HandleReset
  BY <1>22, <1>m DEF HandleReset, Dispatched
<1>23. CASE TriggerLocPub
  BY <1>23, <1>m DEF TriggerLocPub, Dispatched
<1>24. CASE SetMode
  BY <1>24, <1>m DEF SetMode, Dispatched
<1>25. CASE OtaBegins
  BY <1>25, <1>m DEF OtaBegins, Dispatched
<1>26. CASE OtaFails
  BY <1>26, <1>m DEF OtaFails, Dispatched
<1>27. CASE UNCHANGED vars
  BY <1>27 DEF vars
<1> QED
  BY <1>1, <1>2, <1>3, <1>4, <1>5, <1>6, <1>7, <1>8, <1>9, <1>10, <1>11, <1>12,
     <1>13, <1>14, <1>15, <1>16, <1>17, <1>18, <1>19, <1>20, <1>21, <1>22,
     <1>23, <1>24, <1>25, <1>26, <1>27
     DEF Next, SleepLoop, LocationLoop, Outside

(* edge_sleep.cpp:639 holds of a device whose sleep is disabled for good: once *)
(* the last words have been announced it stays in SHUTDOWN.  The run          *)
(* sleep_final shows that with sleep enabled it does not.                    *)
THEOREM FinalWithoutSleep ==
    ASSUME "Enable" \notin Modes
    PROVE  Spec => []ShutdownIsFinal
<1>1. Init => TypeOK /\ FinalInv
  BY TypeInit DEF Init, FinalInv, ShutdownIsFinal
<1>2. TypeOK /\ FinalInv /\ [Next]_vars => (TypeOK /\ FinalInv)'
  BY TypeNext, FinalNext
<1>3. TypeOK /\ FinalInv => ShutdownIsFinal
  BY DEF FinalInv
<1> QED
  BY <1>1, <1>2, <1>3, PTL DEF Spec
=============================================================================
