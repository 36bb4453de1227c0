----------------------------- MODULE LogicUnits -----------------------------
(***************************************************************************)
(* The logic units of one TRM138: how the gateway derives LU1..LU8, the    *)
(* bits of HR48, from the readings of a device (service.py,                *)
(* _publish_logic_unit_masks and _evaluate_logic_unit).  Numbers stand for *)
(* the floats of the program; None for a reading the gateway has not got.  *)
(***************************************************************************)
EXTENDS Integers

CONSTANT None                 \* Python's None: no reading, no holder, no task

ASSUME NoneAssumption == None \notin Int

LOGIC_UNIT_COUNT == 8
LogicUnit == 0 .. LOGIC_UNIT_COUNT - 1

Magnitude(n) == IF n < 0 THEN -n ELSE n

\* The dead band, setpoint -+ |hysteresis|; an unread hysteresis counts as zero.
Low(setpoint, hysteresis)  ==
  setpoint - (IF hysteresis = None THEN 0 ELSE Magnitude(hysteresis))
High(setpoint, hysteresis) ==
  setpoint + (IF hysteresis = None THEN 0 ELSE Magnitude(hysteresis))

\* Faulty: a heater or cooler unit that does not keep its state in the dead band.
EvaluateWithoutHold(reading, setpoint, hysteresis, alType, previous) ==
  /\ None \notin {reading, setpoint, alType}
  /\ \/ alType = 1 /\ reading < setpoint
     \/ alType = 2 /\ reading > setpoint

\* One logic unit.  Characteristics 1 (heater) and 2 (cooler) keep their
\* previous state inside the dead band, 3 and 4 test membership of the band.
EvaluateLogicUnit(reading, setpoint, hysteresis, alType, previous) ==
  /\ None \notin {reading, setpoint, alType}
  /\ LET low  == Low(setpoint, hysteresis)
         high == High(setpoint, hysteresis)
     IN \/ alType = 1 /\ (reading < low \/ (previous /\ reading <= high))
        \/ alType = 2 /\ (reading > high \/ (previous /\ reading >= low))
        \/ alType = 3 /\ low < reading /\ reading < high
        \/ alType = 4 /\ (reading < low \/ reading > high)
=============================================================================
