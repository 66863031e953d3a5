------------------------------- MODULE KConfig ------------------------------
(***************************************************************************)
(* The configuration of the build: symbol.c calculates the symbols from    *)
(* what the user set, confdata.c saves them in .config, in a minimal       *)
(* defconfig and in auto.conf and reads them back, conf.c runs one of      *)
(* these modes per process.  Table is a slice of Kconfig_ppsi in which     *)
(* every symbol comes after the ones it depends on: the order in which     *)
(* sym_calc_value() recurses, sym_check_deps() having refused loops.       *)
(* Modules are off, so a visibility of m counts as y.                      *)
(***************************************************************************)
EXTENDS KExpr

CONSTANTS IntValues,    \* what the user may type for an S_INT
          MaxEdits,     \* changes by the user
          MaxRuns       \* processes started

Unset == -1

(* A configuration entry: its kind, the choice it belongs to, the          *)
(* visibility of its prompt (n: none), its direct and reverse dependency,  *)
(* its defaults with their conditions, and its range.                      *)
Entry(name, kind, of, prompt, dep, rev, defs) ==
    [name |-> name, kind |-> kind, of |-> of, prompt |-> prompt, dep |-> dep,
     rev |-> rev, defs |-> defs, lo |-> 1, hi |-> 64]

Yes == Sym("y")
No  == Sym("n")

Choice(name)        == Entry(name, "choice", "", Yes, Yes, And(Yes, Sym("m")), <<>>)
Value(name, of, dep) == LET d == expr_alloc_and(Sym(of), dep)
                        IN Entry(name, "bool", of, d, d, No, <<>>)
Bool(name, dep, defs) == Entry(name, "bool", "", dep, dep, No, defs)

Table == <<
    Choice("ARCH"),
    Value("ARCH_UNIX", "ARCH", Null),
    Value("ARCH_WRS", "ARCH", Null),
    Value("ARCH_SIMULATOR", "ARCH", Null),
    Entry("ARCH_SUPPORT_VLAN", "bool", "", No, Yes, Or(Sym("ARCH_UNIX"), Sym("ARCH_WRS")), <<>>),
    Bool("PPSI_VLAN", Sym("ARCH_SUPPORT_VLAN"), <<<<Yes, Sym("ARCH_SUPPORT_VLAN")>>>>),
    Bool("PROFILE_HA", Yes, <<<<Yes, Sym("ARCH_WRS")>>>>),
    Entry("NR_PORTS", "int", "", Yes, Yes, No, <<<<18, Sym("ARCH_WRS")>>, <<64, Yes>>>>),
    Entry("SINGLE_PORT", "bool", "", No, Yes, No, <<<<Yes, Comp("=", "NR_PORTS", "1")>>, <<No, Yes>>>>),
    Bool("CODEOPT_ENABLED", Yes, <<<<Yes, Yes>>>>),
    Bool("CODEOPT_SO_FORCE_DISABLED", Sym("CODEOPT_ENABLED"), <<<<No, Sym("CODEOPT_ENABLED")>>>>),
    Choice("EXCLUSIVE"),
    Value("CODEOPT_EPC_SO_DISABLED", "EXCLUSIVE", Sym("CODEOPT_ENABLED")),
    Value("CODEOPT_SO_ENABLED", "EXCLUSIVE",
          And(Sym("CODEOPT_ENABLED"), And(Sym("SINGLE_PORT"), Not(Sym("CODEOPT_SO_FORCE_DISABLED"))))) >>

Symbols == {Table[i].name : i \in DOMAIN Table}
Entries == Range(Table)
Of == [s \in Symbols |-> CHOOSE t \in Entries : t.name = s]
ChoiceSyms == {s \in Symbols : Of[s].kind = "choice"}
Plain   == SelectSeq(Table, LAMBDA t : t.kind # "choice")

PlainEntries == Range(Plain)

(* No pick at all, and what randconfig may pick.                           *)
NoPick == [c \in ChoiceSyms |-> ""]
Picks  == {f \in [ChoiceSyms -> Symbols] : \A c \in ChoiceSyms : Of[f[c]].of = c}

VARIABLES kcUser,       \* def[S_DEF_USER]: per symbol, or Unset; of a choice its picked value, or ""
          kcStale,      \* SYMBOL_WRITE has been cleared, SYMBOL_VALID has not
          kcChanged,    \* sym_change_count is not 0
          kcFile,       \* .config
          kcDef,        \* the defconfig
          kcAuto,       \* include/config/auto.conf
          kcTouched,    \* include/config/...h touched since objects were built
          kcFailed,     \* a conf_write() has failed
          kcSaved,      \* the values when .config was last written
          kcSavedDef,   \* the values when the defconfig was last written
          kcBuilt,      \* the values the objects were built with
          kcEdits, kcRuns

kcVars == <<kcUser, kcStale, kcChanged, kcFile, kcDef, kcAuto, kcTouched, kcFailed,
            kcSaved, kcSavedDef, kcBuilt, kcEdits, kcRuns>>

-----------------------------------------------------------------------------
(* Bool: a visibility or a dependency of m is y without modules.           *)
Up(v) == IF v = 1 THEN 2 ELSE v

(* sym_get_default_prop(): the first default whose condition holds.        *)
Default(t, val) ==
    LET First(ds) == IF ds = <<>> THEN <<>> ELSE <<ds[1]>>
    IN First(SelectSeq(t.defs, LAMBDA d : expr_calc_value(d[2], val) # 0))

(* Its value.                                                              *)
DefaultValue(t, val) ==
    LET Of1(d) == IF d = <<>> THEN 0
                  ELSE IF t.kind = "int" THEN d[1][1]
                  ELSE Least(expr_calc_value(d[1][1], val), expr_calc_value(d[1][2], val))
    IN Of1(Default(t, val))

(* sym_validate_range().                                                   *)
sym_validate_range(t, v) == IF v < t.lo THEN t.lo ELSE IF v > t.hi THEN t.hi ELSE v

(* sym_calc_visibility(): the prompt, and for what is selected.            *)
Visible(t, val)  == Up(expr_calc_value(t.prompt, val))
Selected(t, val) == IF t.of # "" THEN 0 ELSE Up(expr_calc_value(t.rev, val))

(* sym_choice_default(): no choice of Kconfig_ppsi has a default of its    *)
(* own, so it is the first visible value.                                  *)
sym_choice_default(c, val) ==
    LET First(ts) == IF ts = <<>> THEN "" ELSE ts[1].name
    IN First(SelectSeq(Table, LAMBDA t : t.of = c /\ Visible(t, val) # 0))

(* sym_calc_choice(): the picked value if it is visible.                   *)
sym_calc_choice(c, user, val) ==
    IF user[c] # "" /\ Visible(Of[user[c]], val) # 0 THEN user[c]
    ELSE sym_choice_default(c, val)

(* The user's value is used only where the symbol is visible.              *)
UserCounts(t, user, val) == Visible(t, val) # 0 /\ user[t.name] # Unset

(* sym_calc_value() of one symbol, the ones before it known.  cur of a     *)
(* choice is its chosen value.                                             *)
NewValue(t, user, val, cur) ==
    CASE t.kind = "int" ->
           sym_validate_range(t, IF UserCounts(t, user, val) THEN user[t.name]
                                 ELSE DefaultValue(t, val))
      [] t.kind = "choice" ->
           IF sym_calc_choice(t.name, user, [val EXCEPT ![t.name] = 2]) = "" THEN 0
           ELSE Selected(t, val)
      [] t.of # "" /\ Visible(t, val) = 2 -> IF cur[t.of] = t.name THEN 2 ELSE 0
      [] OTHER ->
           Up(Greatest(IF UserCounts(t, user, val) THEN user[t.name] ELSE DefaultValue(t, val),
                       Selected(t, val)))

(* SYMBOL_WRITE: visible, selected, or with a default.  A value of a       *)
(* choice keeps the flag when it is hidden; it is then written as not set  *)
(* and read as not set, which is what an absent line means for it.         *)
Write(t, val) ==
    \/ Visible(t, val) # 0
    \/ t.of = "" /\ (Selected(t, val) # 0 \/ Default(t, val) # <<>>)

Nothing == [val |-> [s \in Symbols \cup {"n", "m", "y", "1"} |->
                        IF s = "y" THEN 2 ELSE IF s \in {"m", "1"} THEN 1 ELSE 0],
            cur |-> [c \in ChoiceSyms |-> ""]]

(* All symbols, calculated one after the other.                            *)
RECURSIVE CalculatedTo(_, _)
CalculatedTo(i, user) ==
    IF i = 0 THEN Nothing
    ELSE LET Chosen(t, cur, val) ==
                 [val |-> val,
                  cur |-> IF t.kind # "choice" THEN cur
                          ELSE [cur EXCEPT ![t.name] = sym_calc_choice(t.name, user, val)]]
             Then(t, st) ==
                 Chosen(t, st.cur, [st.val EXCEPT ![t.name] = NewValue(t, user, st.val, st.cur)])
         IN Then(Table[i], CalculatedTo(i - 1, user))

Calculated(user) == CalculatedTo(Len(Table), user).val

Values(user) == LET Shown(val) == [s \in Symbols |-> val[s]] IN Shown(Calculated(user))

-----------------------------------------------------------------------------
Fresh == [s \in Symbols |-> IF s \in ChoiceSyms THEN "" ELSE Unset]

(* The lines of a file: <<symbol, value>>, 0 being "is not set".           *)
Lines(ts, val) == [i \in DOMAIN ts |-> <<ts[i].name, val[ts[i].name]>>]

(* conf_write(): every symbol with SYMBOL_WRITE.                           *)
ConfigOf(user) ==
    LET Written(val) == Lines(SelectSeq(Plain, LAMBDA t : Write(t, val)), val)
    IN Written(Calculated(user))

(* sym_get_string_default(): a default that is not put inside the range.   *)
sym_get_string_default(t, val) ==
    IF t.kind = "int" THEN DefaultValue(t, val)
    ELSE Up(Greatest(DefaultValue(t, val), Selected(t, val)))

(* A mutant: of a choice the values that are first in the list are         *)
(* skipped, chosen or not.                                                 *)
Redundant_AnyChoice(t, val) ==
    \/ ~Write(t, val)
    \/ Visible(t, val) <= Selected(t, val)
    \/ val[t.name] = sym_get_string_default(t, val)
    \/ t.of # ""

(* What conf_write_defconfig() leaves out: what cannot be changed, what is *)
(* at its default, and the value a choice has anyway.                      *)
Redundant(t, val) ==
    \/ ~Write(t, val)
    \/ Visible(t, val) <= Selected(t, val)
    \/ val[t.name] = sym_get_string_default(t, val)
    \/ t.of # "" /\ sym_choice_default(t.of, val) = t.name /\ val[t.name] = 2

DefconfigOf(user) ==
    LET Minimal(val) == Lines(SelectSeq(Plain, LAMBDA t : ~Redundant(t, val)), val)
    IN Minimal(Calculated(user))

(* conf_read_simple() and conf_set_sym_val(): the lines become the user's  *)
(* values; a value of a choice that is y is its pick.                      *)
Assigned(lines) ==
    FoldLeft(LAMBDA u, l :
                IF Of[l[1]].of # "" /\ l[2] = 2 THEN [u EXCEPT ![l[1]] = 2, ![Of[l[1]].of] = l[1]]
                ELSE [u EXCEPT ![l[1]] = l[2]],
             Fresh, lines)

(* conf_unsaved: a symbol whose value is not the one of the file.          *)
Unsaved(user, val) ==
    \E t \in PlainEntries :
        IF user[t.name] # Unset /\ Write(t, val) THEN user[t.name] # val[t.name]
        ELSE (user[t.name] # Unset) # Write(t, val)

(* conf_read(): values of hidden symbols are forgotten if the file agrees  *)
(* with the symbols, numbers outside their range always.                   *)
Kept(u, val, unsaved) ==
    LET Forgotten(t) ==
            /\ t.kind # "choice" /\ t.of = "" /\ u[t.name] # Unset
            /\ \/ Visible(t, val) = 0 /\ ~unsaved
               \/ t.kind = "int" /\ sym_validate_range(t, u[t.name]) # u[t.name]
    IN [s \in Symbols |-> IF Forgotten(Of[s]) THEN Unset ELSE u[s]]

(* The user's values, and whether they differ from those of the file.      *)
conf_read(lines) ==
    LET After(u, val, unsaved) == [user |-> Kept(u, val, unsaved), changed |-> unsaved]
        Checked(u, val)        == After(u, val, Unsaved(u, val))
        Read(u)                == Checked(u, Calculated(u))
    IN Read(Assigned(lines))

(* The symbols auto.conf holds: n is not written there.                    *)
AutoOf(val) ==
    [s \in {t.name : t \in {x \in PlainEntries : Write(x, val) /\ val[x.name] # 0}} |-> val[s]]

(* A mutant: a symbol that is no longer written is not looked at.          *)
Outdated_Written(t, val, auto) ==
    /\ Write(t, val)
    /\ IF t.name \in DOMAIN auto THEN auto[t.name] # val[t.name] ELSE val[t.name] # 0

(* conf_split_config(): the symbols whose header is touched.               *)
Outdated(t, val, auto) ==
    IF Write(t, val)
    THEN IF t.name \in DOMAIN auto THEN auto[t.name] # val[t.name] ELSE val[t.name] # 0
    ELSE t.name \in DOMAIN auto

-----------------------------------------------------------------------------
(* No file, and one of an earlier version of Kconfig_ppsi, edited by hand. *)
OldFiles == {<<>>, <<<<"NR_PORTS", 70>>, <<"CODEOPT_ENABLED", 0>>, <<"CODEOPT_SO_ENABLED", 2>>>>}

KcInit ==
    /\ kcFile \in OldFiles
    /\ kcUser = conf_read(kcFile).user
    /\ kcChanged = conf_read(kcFile).changed /\ kcStale = FALSE
    /\ kcDef = <<>> /\ kcAuto = <<>>
    /\ kcTouched = {} /\ kcFailed = FALSE
    /\ kcSaved = <<>> /\ kcSavedDef = <<>> /\ kcBuilt = <<>>
    /\ kcEdits = 0 /\ kcRuns = 0

Files == <<kcFile, kcDef, kcAuto, kcTouched, kcSaved, kcSavedDef, kcBuilt>>

(* sym_set_tristate_value(), for a value of a choice the choice too.       *)
sym_set_tristate_value(s, v, val) ==
    LET t == Of[s]
        old == val[s]
        within == /\ Visible(t, val) # 0
                  /\ Visible(t, val) > Selected(t, val)
                  /\ IF t.of # "" THEN v = 2 ELSE v >= Selected(t, val)
    IN /\ t.kind = "bool"
       /\ old = v \/ within
       /\ kcUser' = IF t.of # "" /\ v = 2 THEN [kcUser EXCEPT ![s] = v, ![t.of] = s]
                    ELSE [kcUser EXCEPT ![s] = v]
       /\ kcUser' # kcUser
       /\ kcStale' = (kcStale /\ old = v)
       /\ kcChanged' = (kcChanged \/ old # v)
       /\ kcEdits' = kcEdits + 1
       /\ UNCHANGED <<Files, kcFailed, kcRuns>>

(* sym_set_string_value(): a number inside the range.                      *)
sym_set_string_value(s, v, val) ==
    LET t == Of[s]
    IN /\ t.kind = "int"
       /\ Visible(t, val) # 0 /\ sym_validate_range(t, v) = v
       /\ kcUser' = [kcUser EXCEPT ![s] = v]
       /\ kcUser' # kcUser
       /\ kcStale' = FALSE /\ kcChanged' = TRUE
       /\ kcEdits' = kcEdits + 1
       /\ UNCHANGED <<Files, kcFailed, kcRuns>>

(* conf_write(): SYMBOL_WRITE of what is written is cleared.  The symbols  *)
(* are calculated anew only if nothing is known to have changed.  The last *)
(* rename may fail: in the first process, a bound of the model.            *)
conf_write(ok) ==
    LET stale == kcStale /\ kcChanged
    IN /\ kcStale' = TRUE
       /\ ok \/ kcRuns = 0
       /\ IF ok
          THEN /\ kcFile' = IF stale THEN <<>> ELSE ConfigOf(kcUser)
               /\ kcSaved' = Values(kcUser)
               /\ kcChanged' = FALSE
               /\ UNCHANGED kcFailed
          ELSE /\ kcChanged' = TRUE
               /\ kcFailed' = TRUE
               /\ UNCHANGED <<kcFile, kcSaved>>
       /\ UNCHANGED <<kcUser, kcDef, kcAuto, kcTouched, kcSavedDef, kcBuilt, kcEdits, kcRuns>>

(* One of the modes of conf.c: the process in use ends, the mode runs in a *)
(* process of its own and leaves file in .config, and the next process     *)
(* that changes anything (menuconfig, oldconfig) has read it.              *)
Run(file) ==
    /\ kcRuns < MaxRuns
    /\ kcRuns' = kcRuns + 1
    /\ kcFile' = file
    /\ \E r \in {conf_read(file)} : kcUser' = r.user /\ kcChanged' = r.changed
    /\ kcStale' = FALSE
    /\ UNCHANGED <<kcFailed, kcEdits>>

(* The changes are not saved.                                              *)
Quit ==
    /\ Run(kcFile)
    /\ UNCHANGED <<kcDef, kcAuto, kcTouched, kcSaved, kcSavedDef, kcBuilt>>

(* defconfig: the values of the defconfig file, new symbols at their       *)
(* default, written to .config.                                            *)
RunDefconfig ==
    /\ kcSavedDef # <<>>
    /\ \E u \in {conf_read(kcDef).user} : Run(ConfigOf(u)) /\ kcSaved' = Values(u)
    /\ UNCHANGED <<kcDef, kcAuto, kcTouched, kcSavedDef, kcBuilt>>

(* allyesconfig, allnoconfig, randconfig: conf_set_all_new_symbols(),      *)
(* randomize_choice_values(), set_all_choice_values(), conf_write().       *)
(* They start from nothing, so they are tried as the first run only (a     *)
(* bound of the model).                                                    *)
RunAll(v, picks) ==
    LET u == [s \in Symbols |-> IF Of[s].kind = "int" THEN Unset
                                ELSE IF s \in ChoiceSyms THEN picks[s] ELSE v]
    IN /\ kcRuns = 0
       /\ Run(ConfigOf(u))
       /\ kcSaved' = Values(u)
       /\ UNCHANGED <<kcDef, kcAuto, kcTouched, kcSavedDef, kcBuilt>>

(* savedefconfig: conf_read() and conf_write_defconfig().                  *)
RunSavedefconfig ==
    /\ Run(kcFile)
    /\ \E u \in {conf_read(kcFile).user} : kcDef' = DefconfigOf(u) /\ kcSavedDef' = Values(u)
    /\ UNCHANGED <<kcAuto, kcTouched, kcSaved, kcBuilt>>

(* silentoldconfig: .config is brought up to date, then                    *)
(* conf_write_autoconf() touches the headers; when one fails it stops, and *)
(* auto.conf stays.  Then the objects that depend on a touched header are  *)
(* built.                                                                  *)
RunAutoconf(k, r, val, outs) ==
    LET done == k = Len(outs)
        touched == kcTouched \cup {outs[i].name : i \in 1 .. k}
    IN /\ kcFile # <<>>
       /\ IF kcTouched = {} THEN k <= Len(outs) ELSE k = Len(outs)
       /\ Run(IF r.changed THEN ConfigOf(r.user) ELSE kcFile)
       /\ kcSaved' = [s \in Symbols |-> val[s]]
       /\ kcAuto' = IF done THEN AutoOf(val) ELSE kcAuto
       /\ kcTouched' = IF done THEN {} ELSE touched
       /\ kcBuilt' = IF ~done THEN kcBuilt
                     ELSE IF kcBuilt = <<>> THEN [s \in Symbols \ ChoiceSyms |-> val[s]]
                     ELSE [s \in Symbols \ ChoiceSyms |-> IF s \in touched THEN val[s] ELSE kcBuilt[s]]
       /\ UNCHANGED <<kcDef, kcSavedDef>>

KcNext ==
    \/ /\ kcEdits < MaxEdits
       /\ \E val \in {Calculated(kcUser)}, s \in Symbols :
             \/ \E v \in {0, 2} : sym_set_tristate_value(s, v, val)
             \/ \E v \in IntValues : sym_set_string_value(s, v, val)
    \/ conf_write(TRUE)
    \/ conf_write(FALSE)
    \/ Quit
    \/ RunDefconfig
    \/ \E v \in {0, 2} : RunAll(v, NoPick)
    \/ \E picks \in Picks : RunAll(2, picks)
    \/ RunSavedefconfig
    \/ /\ kcRuns < MaxRuns
       /\ \E r \in {conf_read(kcFile)} : \E val \in {Calculated(r.user)} :
          \E outs \in {SelectSeq(Plain, LAMBDA t : Outdated(t, val, kcAuto))}, k \in 0 .. Len(Table) :
             RunAutoconf(k, r, val, outs)

KcSpec == KcInit /\ [][KcNext]_kcVars

-----------------------------------------------------------------------------
(* What is saved comes back: .config and the minimal defconfig, read       *)
(* again, give every symbol the value it had when the file was written     *)
(* (confdata.c:664, "All values that has default values are skipped as     *)
(* this is redundant").  What follows a failed write is left out: the next  *)
(* conf_write() of the same process finds the symbols valid and without    *)
(* SYMBOL_WRITE, and writes none of them.                                  *)
SavedComesBack ==
    /\ kcSaved # <<>> /\ ~kcFailed => Values(conf_read(kcFile).user) = kcSaved
    /\ kcSavedDef # <<>> => Values(conf_read(kcDef).user) = kcSavedDef

(* conf_write_autoconf() may stop at any header and the configuration may  *)
(* change before it runs again: once auto.conf is in place, every object   *)
(* is built with the values it holds.                                      *)
ObjectsCurrent ==
    kcTouched = {} /\ kcBuilt # <<>> =>
        \A t \in PlainEntries :
           kcBuilt[t.name] = IF t.name \in DOMAIN kcAuto THEN kcAuto[t.name] ELSE 0
=============================================================================
