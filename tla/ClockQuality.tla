---------------------------- MODULE ClockQuality ----------------------------
(***************************************************************************)
(* The quality a clock announces (proto-standard/bmc_clock_quality.c): it  *)
(* is degraded while the PLL is in holdover or unlocked and restored when  *)
(* the PLL is locked again.  Attributes are compared as numbers, a larger  *)
(* one is worse; of the three flags 1 is better.                           *)
(***************************************************************************)
EXTENDS Integers

CONSTANT CqConfigs   \* the configurations to start from; -1 for what is left to the defaults

Fields == {"class", "accuracy", "variance", "source", "ptp", "freq", "time"}
Flags  == {"ptp", "freq", "time"}

ASSUME CqConfigsAssumption == CqConfigs \subseteq [Fields -> Int]

VARIABLES
  cqCfg,    \* rt_opts, after bmc_set_default_device_attributes()
  cqAttr,   \* defaultDS.clockQuality and timePropertiesDS
  cqLast    \* clockDeg_lastTimingModeState of the configured class, "none" for -1

cqVars == <<cqCfg, cqAttr, cqLast>>

UNKNOWN == 254
INT_OSC == 160

Attrs(class, accuracy, variance, source, ptp, freq, time) ==
  [class |-> class, accuracy |-> accuracy, variance |-> variance, source |-> source,
   ptp |-> ptp, freq |-> freq, time |-> time]

(* clockDegradation[]: the attributes of a class in holdover and unlocked. *)
clockDegradation(class, mode) ==
  LET worst(c, ptp) == Attrs(c, UNKNOWN, 50973, INT_OSC, ptp, 0, 0)
  IN  CASE class = 6 /\ mode = "HOLDOVER"  -> Attrs(7, 33, 50973, INT_OSC, 1, 1, 1)
        [] class = 6 /\ mode = "UNLOCKED"  -> worst(187, 1)
        [] class = 13 /\ mode = "HOLDOVER" -> Attrs(14, 32, 50973, INT_OSC, 0, 0, 0)
        [] class = 13 /\ mode = "UNLOCKED" -> worst(193, 0)
        [] OTHER                           -> worst(class, 0)

Degradable == {6, 13, 58, 193}

(* defaultDeviceAttributes[]                                               *)
defaultDeviceAttributes(class) ==
  CASE class = 6  -> Attrs(class, 33, 47360, 32, 1, 1, 1)
    [] class = 7  -> Attrs(class, 33, 50973, INT_OSC, 1, 1, 1)
    [] class \in {52, 187} -> Attrs(class, UNKNOWN, 50973, INT_OSC, 1, 0, 0)
    [] class = 13 -> Attrs(class, 32, 47360, 16, 0, 0, 0)
    [] class \in {14, 58, 193} -> Attrs(class, 32, 50973, INT_OSC, 0, 0, 0)
    [] OTHER -> Attrs(class, UNKNOWN, 50973, INT_OSC, 0, 0, 0)

bmc_set_default_device_attributes(cfg) ==
  [f \in Fields |-> IF cfg[f] = -1 THEN defaultDeviceAttributes(cfg.class)[f]
                    ELSE cfg[f]]

bmc_apply_configured_device_attributes == cqCfg

(* Mutant: an attribute takes the degraded value even where it is better.  *)
Degraded_Always(d, f) == d[f]

(* An attribute that was configured worse than its degraded value keeps    *)
(* what it is at the moment.                                               *)
Degraded(d, f) ==
  CASE f = "class"    -> d[f]
    [] f \in Flags    -> IF cqCfg[f] = 1 THEN d[f] ELSE cqAttr[f]
    [] OTHER          -> IF d[f] > cqCfg[f] THEN d[f] ELSE cqAttr[f]

CqInit ==
  /\ cqCfg \in {bmc_set_default_device_attributes(c) : c \in CqConfigs}
  /\ cqAttr = bmc_apply_configured_device_attributes
  /\ cqLast = "none"

(* bmc_update_clock_quality(), when get_GM_lock_state() answers mode.      *)
bmc_update_clock_quality(mode) ==
  /\ cqCfg.class \in Degradable
  /\ cqLast # mode
  /\ LET d == clockDegradation(cqCfg.class, mode)
     IN  cqAttr' = IF mode = "LOCKED" THEN bmc_apply_configured_device_attributes
                   ELSE [f \in Fields |-> Degraded(d, f)]
  /\ cqLast' = mode
  /\ UNCHANGED cqCfg

CqNext == \E mode \in {"LOCKED", "HOLDOVER", "UNLOCKED"} : bmc_update_clock_quality(mode)

CqSpec == CqInit /\ [][CqNext]_cqVars

-----------------------------------------------------------------------------
(* "When a clock class is degraded, a field cannot be better than its      *)
(* initial value": whatever sequence of lock losses bmc_update_clock_      *)
(* quality() has followed, no attribute is better than the configured one, *)
(* and with the PLL locked every attribute is the configured one.          *)
NeverBetterThanConfigured ==
  /\ \A f \in Fields \ Flags : cqAttr[f] >= cqCfg[f]
  /\ \A f \in Flags : cqAttr[f] <= cqCfg[f]
  /\ cqLast \in {"none", "LOCKED"} => cqAttr = cqCfg
=============================================================================
