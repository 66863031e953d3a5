------------------------------ MODULE Startup -------------------------------
(***************************************************************************)
(* main() of the hosted architectures: the command line, the default file  *)
(* and the default string, the ports, and the main loop or the exit.  The  *)
(* switch holds the write lock of its shared memory all the while.         *)
(***************************************************************************)
EXTENDS Conf

CONSTANTS Archs,       \* of "unix", "wrs", "sim"
          Lines,       \* lines a source may have
          MaxLines,    \* lines read, at most
          MaxArgs,     \* arguments of the command line, at most
          DefaultNames \* the ports of the default strings, a sequence

(* The keywords with their arguments.                                      *)
Line ==
         [kw : {"port"}, name : Names]
    \cup [kw : {"opt", "glob", "diag", "servo"}, v : Int]
    \cup [kw : {"proto"}, v : {"RAW", "UDP"}]
    \cup [kw : {"profile"}, v : {"PTP", "WR", "HA", "CUSTOM", "other"}]
    \cup [kw : {"vlan"}, ids : Seq(Int), rest : {"end", "comma", "word", "junk"}]
    \cup [kw : {"bad", "blank", "empty", "comment"}]

ASSUME StartupAssumption ==
    /\ Lines \subseteq Line
    /\ DefaultNames \in Seq(Names) /\ DefaultNames # <<>>
    /\ "none" \notin Names

VARIABLES suArch, suPc, suConf,
          suItems,     \* ppg->cfg.cfg_items
          suFile,      \* whether the default file exists
          suLocked,    \* the write lock of the shared memory
          suPorts,     \* the ports that are set up
          suLines, suArgs,
          suStrings    \* default strings that are parsed

suVars == <<suArch, suPc, suConf, suItems, suFile, suLocked, suPorts, suLines, suArgs, suStrings>>

Sources == {"-C", "-f", "file"}

SuTypeOK ==
    /\ suArch \in Archs /\ suFile \in BOOLEAN /\ suLocked \in BOOLEAN
    /\ suPc \in {"shm", "cmdline", "default", "string", "setup", "run", "exit"} \cup Sources
    /\ suItems \in 0..MaxArgs + 1 /\ suLines \in 0..MaxLines /\ suArgs \in 0..MaxArgs
    /\ suStrings \in 0..Len(DefaultNames)
    /\ Len(suConf.ports) <= MaxPorts /\ suConf.cur \in 0..Len(suConf.ports)

SuInit ==
    /\ suArch \in Archs /\ suFile \in BOOLEAN
    /\ suPc = IF suArch = "wrs" THEN "shm" ELSE "cmdline"
    /\ suConf = IF suArch = "sim"
                THEN [NewConf EXCEPT !.ports = <<[NewPort("SIM_MASTER") EXCEPT !.proto = "UDP"]>>,
                                     !.said = [n \in Names |-> IF n = "SIM_MASTER" THEN 0 ELSE Unset]]
                ELSE NewConf
    /\ suItems = 0 /\ suLocked = FALSE /\ suPorts = <<>>
    /\ suLines = 0 /\ suArgs = 0 /\ suStrings = 0

(* The checks of main() on the switch: no other instance, the HAL and its  *)
(* memory within reach; then the memory is opened, locked.                 *)
OpenShm ==
    /\ suPc = "shm"
    /\ \E ok \in BOOLEAN : /\ suPc' = IF ok THEN "cmdline" ELSE "exit"
                           /\ suLocked' = ok
    /\ UNCHANGED <<suArch, suConf, suItems, suFile, suPorts, suLines, suArgs, suStrings>>

(* pp_parse_cmdline(): -C and -f begin a source, -f counts as an item even *)
(* if the file is missing; -d, -t and -w set an option; others end main(). *)
pp_parse_cmdline ==
    /\ suPc = "cmdline" /\ suArgs < MaxArgs
    /\ suArgs' = suArgs + 1
    /\ \/ /\ suPc' = "-C" /\ suConf' = NewSource(suConf) /\ UNCHANGED suItems
       \/ /\ \E exists \in BOOLEAN : suPc' = IF exists THEN "-f" ELSE "exit"
          /\ suConf' = NewSource(suConf) /\ suItems' = suItems + 1
       \/ /\ suConf' = [suConf EXCEPT !.flags = 1] /\ UNCHANGED <<suPc, suItems>>
       \/ /\ suPc' = "exit" /\ UNCHANGED <<suConf, suItems>>
    /\ UNCHANGED <<suArch, suFile, suLocked, suPorts, suLines, suStrings>>

EndOfCmdline ==
    /\ suPc = "cmdline"
    /\ suPc' = "default"
    /\ UNCHANGED <<suArch, suConf, suItems, suFile, suLocked, suPorts, suLines, suArgs, suStrings>>

(* Where main() goes on after a source: an error in one of the command     *)
(* line ends it, one in the default file does not.                         *)
AfterSource(pc, err) ==
    IF pc \in {"-C", "-f"} THEN (IF err THEN "exit" ELSE "cmdline") ELSE "setup"

(* The next line of a source.                                              *)
ReadLine ==
    /\ suPc \in {"-C", "-f", "file"} /\ suLines < MaxLines
    /\ suLines' = suLines + 1
    /\ \E l \in Lines, term \in Terms :
        LET c == pp_parse_conf(suConf, l, term)
        IN /\ suConf' = c
           /\ suPc' = IF term = "end" THEN AfterSource(suPc, c.err) ELSE suPc
    /\ UNCHANGED <<suArch, suItems, suFile, suLocked, suPorts, suArgs, suStrings>>

(* If no item has been parsed: the default file, and if there is none the  *)
(* default strings.                                                        *)
Default ==
    /\ suPc = "default"
    /\ \/ suItems # 0 /\ suPc' = "setup" /\ UNCHANGED <<suConf, suItems>>
       \/ /\ suItems = 0 /\ suFile
          /\ suPc' = "file" /\ suConf' = NewSource(suConf) /\ suItems' = 1
       \/ /\ suItems = 0 /\ ~suFile
          /\ suPc' = "string" /\ UNCHANGED <<suConf, suItems>>
    /\ UNCHANGED <<suArch, suFile, suLocked, suPorts, suLines, suArgs, suStrings>>

(* One default string, or one for each port of the switch.  On a switch    *)
(* without the profile HA nothing was written to the string, and what it   *)
(* holds is refused as no keyword.                                         *)
DefaultStrings ==
    IF suArch # "wrs" THEN 1 ELSE IF "HA" \in Profiles THEN Len(DefaultNames) ELSE 0

(* A default string is parsed, whatever comes of it.                       *)
DefaultPort(c, name) ==
    LET Parse(d, l) == pp_parse_conf(d, l, "semi")
        named == Parse(NewSource(c), [kw |-> "port", name |-> name])
        proto == Parse(named, [kw |-> "proto", v |-> IF suArch = "wrs" THEN "RAW" ELSE "UDP"])
    IN Parse(proto, [kw |-> "profile", v |-> IF suArch = "wrs" THEN "HA" ELSE "PTP"])

DefaultString ==
    /\ suPc = "string"
    /\ IF suStrings < DefaultStrings
       THEN /\ suStrings' = suStrings + 1
            /\ suConf' = DefaultPort(suConf, DefaultNames[suStrings + 1])
            /\ UNCHANGED suPc
       ELSE suPc' = "setup" /\ UNCHANGED <<suConf, suStrings>>
    /\ UNCHANGED <<suArch, suItems, suFile, suLocked, suPorts, suLines, suArgs>>

(* The extension of a port in the simulator: that of the build.            *)
sim_ppi_init ==
    IF "HA" \in Profiles THEN "L1S" ELSE IF "WR" \in Profiles THEN "WR" ELSE "NONE"

(* The extension of a port, its data and its hooks, from its profile.  In  *)
(* the profile CUSTOM the option of the port stands for l1SyncEnabled.     *)
Extension(p) ==
    CASE suArch = "sim" -> sim_ppi_init
      [] p.profile = "WR" -> "WR"
      [] p.profile = "HA" -> "L1S"
      [] p.profile = "CUSTOM" /\ p.opt # 0 -> "L1S"
      [] OTHER -> "NONE"

(* enable_asymmetryCorrection(): of a profile, or as configured.           *)
AsymmetryCorrected(p) == p.profile \in {"WR", "HA"} \/ p.opt # 0

PortOf(p) ==
    [name |-> p.name, proto |-> p.proto, vlans |-> SubSeq(p.vlans, 1, p.nvlans),
     ext |-> Extension(p), asym |-> AsymmetryCorrected(p)]

(* The next port is set up.  No memory left ends main().                   *)
SetUpPort ==
    /\ suPc = "setup" /\ Len(suPorts) < Len(suConf.ports)
    /\ LET p == suConf.ports[Len(suPorts) + 1]
       IN \E memory \in BOOLEAN :
            IF memory
            THEN suPorts' = Append(suPorts, PortOf(p)) /\ UNCHANGED suPc
            ELSE suPc' = "exit" /\ UNCHANGED suPorts
    /\ UNCHANGED <<suArch, suConf, suItems, suFile, suLocked, suLines, suArgs, suStrings>>

(* pp_init_globals(), the timing mode of the switch (see WrsTiming), and   *)
(* the main loop.  The switch exits if it cannot read its timing mode.     *)
Run ==
    /\ suPc = "setup" /\ Len(suPorts) = Len(suConf.ports)
    /\ suPc' \in IF suArch = "wrs" THEN {"run", "exit"} ELSE {"run"}
    /\ suLocked' = IF suPc' = "run" THEN FALSE ELSE suLocked
    /\ UNCHANGED <<suArch, suConf, suItems, suFile, suPorts, suLines, suArgs, suStrings>>

SuNext ==
    \/ OpenShm \/ pp_parse_cmdline \/ EndOfCmdline \/ ReadLine \/ Default
    \/ DefaultString \/ SetUpPort \/ Run

SuSpec == SuInit /\ [][SuNext]_suVars

-----------------------------------------------------------------------------
(* The options go to the port the last "port" line named, even if that     *)
(* line found no room: there is one port for each name the lines have      *)
(* used, and it has what the lines below its name have said.  (f_port()    *)
(* looks for the name with the index of the current port.)                 *)
OptionsOfNamedPort ==
    \A n \in Names :
        LET P == Known(suConf, n)
        IN /\ suConf.said[n] = Unset <=> P = {}
           /\ \A i, j \in P : i = j /\ suConf.ports[i].opt = suConf.said[n]
=============================================================================
