-------------------------------- MODULE Conf --------------------------------
(***************************************************************************)
(* The configuration parser (lib/conf.c): the lines of the files and       *)
(* strings main() hands to it, one after the other, and what they do to    *)
(* the ports and to the global options.  An option that is an integer, a   *)
(* name, a boolean or a string is one option `opt' of the port or of the   *)
(* clock; its text is a value.                                             *)
(***************************************************************************)
EXTENDS Integers, Sequences

CONSTANTS Names,       \* names of ports in the configuration
          MaxPorts,    \* ppg->max_links
          OptMax,      \* an option is valid in 0..OptMax
          VidMax,      \* the largest VLAN number: 4095
          VlanSize,    \* CONFIG_VLAN_ARRAY_SIZE
          Profiles     \* the profiles of the build beside PTP

ASSUME ConfAssumption == {MaxPorts, OptMax, VidMax, VlanSize} \subseteq Nat \ {0}

NoPort == 0              \* cur_ppi_n = -1: ports are numbered from 1
Unset == -1            \* a port no line has named

Terms == {"nl", "semi", "end"}   \* what ends a line: \n, ; or the string

(* A port as the parser leaves it, before the first option.                *)
NewPort(name) ==
    [name |-> name, opt |-> 0, proto |-> "RAW", profile |-> "PTP", flags |-> 0,
     nvlans |-> 0, vlans |-> [i \in 1..VlanSize |-> 0]]

(* The configuration: ppg->cfg, the instances and the run-time options.    *)
(* section and said are not in the code: the port the lines are about, and *)
(* what the lines have said of each.                                       *)
NewConf ==
    [cur |-> NoPort, ports |-> <<>>, opt |-> 0, flags |-> 0, pi |-> 1,
     err |-> FALSE, comment |-> FALSE,
     section |-> "none", said |-> [n \in Names |-> Unset]]

Failed(c) == [c EXCEPT !.err = TRUE]

-----------------------------------------------------------------------------
(* f_port(): the port with this name, or a new one while there is room.    *)
Named(c, name) ==
    [c EXCEPT !.section = name,
              !.said[name] = IF c.said[name] = Unset THEN 0 ELSE c.said[name]]

Known(c, name) == {i \in 1..Len(c.ports) : c.ports[i].name = name}

(* A bug: without room the search has left the last port as the current    *)
(* one.                                                                    *)
f_port_KeepsCurrent(c, name) ==
    IF Known(c, name) # {} THEN [Named(c, name) EXCEPT !.cur = CHOOSE i \in Known(c, name) : TRUE]
    ELSE IF Len(c.ports) >= MaxPorts
    THEN [Failed(c) EXCEPT !.cur = Len(c.ports), !.section = "none"]
    ELSE [Named(c, name) EXCEPT !.cur = Len(c.ports) + 1, !.ports = Append(@, NewPort(name))]

f_port(c, name) ==
    IF Known(c, name) # {} THEN [Named(c, name) EXCEPT !.cur = CHOOSE i \in Known(c, name) : TRUE]
    ELSE IF Len(c.ports) >= MaxPorts
    THEN [Failed(c) EXCEPT !.cur = NoPort, !.section = "none"]
    ELSE [Named(c, name) EXCEPT !.cur = Len(c.ports) + 1, !.ports = Append(@, NewPort(name))]

(* CHECK_PPI(1): an option of a port needs one; CHECK_PPI(0): a global     *)
(* option must not have one.  new is the configuration with the option.    *)
OfPort(c, new) == IF c.cur = NoPort THEN Failed(c) ELSE new
OfClock(c, new) == IF c.cur # NoPort THEN Failed(c) ELSE new

(* f_simple_int(), f_simple_int64(), f_simple_double(), f_simple_bool()    *)
(* and f_string(): a value out of range is reported and left out, and is   *)
(* no error.                                                               *)
f_simple(c, v) ==
    OfPort(c, IF v \notin 0..OptMax THEN c
              ELSE [c EXCEPT !.ports[c.cur].opt = v,
                             !.said = IF c.section = "none" THEN @
                                      ELSE [@ EXCEPT ![c.section] = v]])

f_simple_global(c, v) ==
    OfClock(c, IF v \in 0..OptMax THEN [c EXCEPT !.opt = v] ELSE c)

f_proto(c, v) == OfPort(c, [c EXCEPT !.ports[c.cur].proto = v])

f_profile(c, v) ==
    IF v \in Profiles \cup {"PTP"}
    THEN OfPort(c, [c EXCEPT !.ports[c.cur].profile = v])
    ELSE Failed(c)

(* f_diag(): of the port, or of the clock.                                 *)
f_diag(c, v) ==
    IF c.cur # NoPort THEN [c EXCEPT !.ports[c.cur].flags = v] ELSE [c EXCEPT !.flags = v]

(* f_servo_pi(): no negative or zero attenuation.                          *)
f_servo_pi(c, v) == OfClock(c, IF v < 1 THEN Failed(c) ELSE [c EXCEPT !.pi = v])

(* f_vlan(): the numbers ids, and what follows the last: the end, a comma  *)
(* and the end, a comma and no number, or another character.  A number is  *)
(* stored before it is looked at; where there is none the place keeps what *)
(* it had, and counts.                                                     *)
f_vlan(c, ids, rest) ==
    LET p == c.ports[c.cur]
        wrong == {n \in 1..Len(ids) : ids[n] \notin 0..VidMax}
        last == IF wrong = {} THEN Len(ids)                  \* numbers stored
                ELSE CHOOSE n \in wrong : \A m \in wrong : n <= m
        upTo == IF last > VlanSize THEN VlanSize ELSE last
        q == [p EXCEPT !.vlans = [i \in 1..VlanSize |->
                                    IF i <= upTo THEN ids[i] ELSE p.vlans[i]]]
        n == Len(ids) + (IF rest \in {"comma", "word"} THEN 1 ELSE 0)
        stale == rest = "comma" /\ n <= VlanSize /\ q.vlans[n] \notin 0..VidMax
        bad == (wrong # {} /\ last <= VlanSize) \/ n > VlanSize
               \/ (rest = "junk" /\ Len(ids) <= VlanSize) \/ stale
    IN OfPort(c, IF p.proto = "UDP" THEN Failed(c)
                 ELSE IF bad THEN Failed([c EXCEPT !.ports[c.cur] = q])
                 ELSE [c EXCEPT !.ports[c.cur] = [q EXCEPT !.nvlans = n, !.proto = "VLAN"]])

-----------------------------------------------------------------------------
(* The handler of a keyword that was found and whose argument could be     *)
(* read; "bad" stands for the others.                                      *)
Handler(c, l) ==
    CASE l.kw = "port"    -> f_port(c, l.name)
      [] l.kw = "opt"     -> f_simple(c, l.v)
      [] l.kw = "glob"    -> f_simple_global(c, l.v)
      [] l.kw = "proto"   -> f_proto(c, l.v)
      [] l.kw = "profile" -> f_profile(c, l.v)
      [] l.kw = "diag"    -> f_diag(c, l.v)
      [] l.kw = "servo"   -> f_servo_pi(c, l.v)
      [] l.kw = "vlan"    -> f_vlan(c, l.ids, l.rest)
      [] l.kw = "bad"     -> Failed(c)

(* pp_config_line(): a comment, a line of blanks, which ends the section   *)
(* of the port, or a keyword.                                              *)
pp_config_line(c, l) ==
    CASE l.kw = "comment" -> [c EXCEPT !.comment = TRUE]
      [] l.kw = "blank"   -> [c EXCEPT !.cur = NoPort]
      [] OTHER            -> Handler(c, l)

(* pp_parse_conf(): a line and what ends it.  The rest of a comment up to  *)
(* the end of its line is skipped, and so is an empty line.                *)
pp_parse_conf(c, l, term) ==
    LET d == IF c.comment \/ l.kw = "empty" THEN c ELSE pp_config_line(c, l)
    IN IF term = "nl" THEN [d EXCEPT !.comment = FALSE] ELSE d

(* The beginning of a file or of a string.                                 *)
NewSource(c) ==
    [c EXCEPT !.cur = NoPort, !.err = FALSE, !.comment = FALSE, !.section = "none"]
=============================================================================
