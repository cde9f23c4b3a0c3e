--------------------------- MODULE SensorsControl ---------------------------
(***************************************************************************)
(* libsensors/sensors_all.c, the control device: which sensors of the      *)
(* compass (akm) and of the accelerometer (kxsd9) are on.  Android.mk      *)
(* builds sensors.c in its place; the module stands for the source as it   *)
(* is.  active_sensors is one mask for both chips, and every change writes *)
(* it anew from what each of them says is on.                              *)
(*                                                                         *)
(* External: the driver of the compass, with a flag for each of its        *)
(* sensors, and the file that switches the accelerometer, which is there:  *)
(* that writing to it may fail the code leaves out of account on purpose.  *)
(***************************************************************************)
EXTENDS Naturals

CONSTANT MaxFds     \* bound on descriptors of the input devices

MaxFdsAssumption == MaxFds \in Nat

AKM_GROUP == {"magnetic", "temperature"}
KXSD9_GROUP == {"acceleration", "orientation"}
SUPPORTED_SENSORS == AKM_GROUP \cup KXSD9_GROUP

VARIABLES
    akmd_fd,            \* whether the compass is open
    active_sensors,
    flags,              \* what the compass has switched on
    power,              \* whether the accelerometer is on
    inputs              \* descriptors of input devices nobody will close

controlVars == <<akmd_fd, active_sensors, flags, power, inputs>>

\* open_sensors looks for the input devices and drops their descriptors.
Init ==
    /\ akmd_fd = FALSE /\ active_sensors = {}
    /\ flags \in SUBSET AKM_GROUP /\ power \in BOOLEAN
    /\ inputs \in {n \in {0, 1, 2} : n <= MaxFds}

\* What enable_disable_akm returns and leaves behind: the driver's flags, those
\* of the mask set to what is wanted, if the driver takes them; the device is
\* closed if none is wanted.
Akm(opens, sensors, mask) ==
    IF opens THEN [fd |-> sensors # {}, flags |-> (flags \ mask) \cup (sensors \cap mask),
                   now |-> (flags \ mask) \cup (sensors \cap mask)]
    ELSE [fd |-> FALSE, flags |-> flags, now |-> {}]

\* Mutant: the switch follows the sensors that change.
Kxsd9Changed(sensors, mask) ==
    IF mask # {} THEN [power |-> sensors \cap mask # {}, now |-> sensors]
    ELSE [power |-> power, now |-> {}]

\* enable_disable_kxsd9: both of its sensors are one switch.
Kxsd9(sensors, mask) ==
    IF mask # {} THEN [power |-> sensors # {}, now |-> sensors]
    ELSE [power |-> power, now |-> {}]

\* control__activate
activate ==
    \E h \in SUPPORTED_SENSORS, enabled, found \in BOOLEAN, taken \in SUBSET AKM_GROUP :
        LET new == IF enabled THEN active_sensors \cup {h} ELSE active_sensors \ {h}
            differ == (active_sensors \ new) \cup (new \ active_sensors)
            changed == IF active_sensors = {} /\ new # {} THEN SUPPORTED_SENSORS ELSE differ
            akm == Akm(akmd_fd \/ found, new \cap AKM_GROUP, changed \cap taken)
            kxsd9 == Kxsd9(new \cap KXSD9_GROUP, changed \cap KXSD9_GROUP)
        IN  /\ IF differ = {}
               THEN UNCHANGED <<akmd_fd, active_sensors, flags, power>>
               ELSE /\ akmd_fd' = akm.fd /\ flags' = akm.flags
                    /\ power' = kxsd9.power
                    /\ active_sensors' = akm.now \cup kxsd9.now
            /\ UNCHANGED inputs

\* control__wake writes to the compass and closes it, but not the
\* accelerometer it opened too; when only one is there, it closes neither.
wake ==
    /\ \E n \in {0, 1} : inputs + n <= MaxFds /\ inputs' = inputs + n
    /\ UNCHANGED <<akmd_fd, active_sensors, flags, power>>

\* control__close does not switch anything off.
close ==
    /\ akmd_fd' = FALSE /\ active_sensors' = {}
    /\ UNCHANGED <<flags, power, inputs>>

Next == activate \/ wake \/ close

Spec == Init /\ [][Next]_controlVars

-----------------------------------------------------------------------------

\* A sensor the mask says is on is on, after any sequence of requests for
\* sensors of both chips and with a compass that cannot be opened now and
\* then: the mask never promises events that cannot come.  (The other way does
\* not hold: a request for the compass alone drops the accelerometer's sensors
\* from the mask, and it stays on.)
ActiveIsOn ==
    /\ active_sensors \cap AKM_GROUP \subseteq flags
    /\ active_sensors \cap KXSD9_GROUP # {} => power

\* The inductive invariant: the compass has no flags of the accelerometer.
IInv == flags \subseteq AKM_GROUP /\ ActiveIsOn
=============================================================================
