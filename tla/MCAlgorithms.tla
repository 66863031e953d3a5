---------------------------- MODULE MCAlgorithms ----------------------------
(***************************************************************************)
(* The pure algorithms against what they are to compute, over bounded      *)
(* inputs, and the build configuration.  alg says which algorithm a        *)
(* behaviour tries, input is what has been chosen so far.                  *)
(***************************************************************************)
EXTENDS KConfig, TimeArith

CONSTANTS ServoWord,  \* half the width of a RelativeDifference
          MaxDeps     \* dependencies in a graph of symbols, a bound

VARIABLES alg, input

Codec == INSTANCE MsgCodec
Servo == INSTANCE ServoMath WITH WordBits <- ServoWord
Hw    == INSTANCE TimeOps
Deps  == INSTANCE KDeps

kconf == <<kcUser, kcStale, kcChanged, kcFile, kcDef, kcAuto, kcTouched, kcFailed,
           kcSaved, kcSavedDef, kcBuilt, kcEdits, kcRuns>>

Rests == "at rest"
KconfRests ==
  /\ kcUser = Rests /\ kcStale = Rests /\ kcChanged = Rests /\ kcFile = Rests /\ kcDef = Rests
  /\ kcAuto = Rests /\ kcTouched = Rests /\ kcFailed = Rests /\ kcSaved = Rests
  /\ kcSavedDef = Rests /\ kcBuilt = Rests /\ kcEdits = Rests /\ kcRuns = Rests

-----------------------------------------------------------------------------
(* Frames: what a port of either kind (d.cf) sends in the buffer in which  *)
(* another frame was sent before.                                          *)

Id(i) == [k \in 1..8 |-> i + k]

PortOf(cf, asym, i) ==
  [domain |-> 0, minor |-> 1, id |-> Id(i), port |-> 300, logAnnounce |-> 1, logSync |-> -3,
   logMinDelayReq |-> 2, egress |-> 5, cf |-> cf, asym |-> asym]

AnnounceOf(t) ==
  [utcOffset |-> IF t.s = 1 THEN 37 ELSE -2, q |-> <<128, 6, 33, 47360, 7>>, gm |-> Id(20),
   steps |-> IF t.s = 1 THEN 258 ELSE 3, source |-> 32,
   flags |-> [k \in 1..6 |-> (k + t.s) % 2 = 0]]

WrOf(t) == [config |-> t.s % 4, calibrated |-> t.s = 1, modeOn |-> t.n = 0, calRetry |-> 2,
            calPeriod |-> 3000, deltaTx |-> t.n, deltaRx |-> -t.n]

Blank(d) == Codec!msg_init_header(d, [i \in Codec!Buffer |-> 0])

(* The request of d that an answer of format fmt is for, as another port   *)
(* of the same kind received it.                                           *)
ReqHdr(d, fmt, t) ==
  LET Request(b) == IF fmt = "delay_resp" THEN Codec!msg_pack_delay_req(d, b, 65535, t)
                    ELSE Codec!msg_pack_pdelay_req(d, b, 65535, t)
  IN  Codec!msg_unpack_header(Request(Blank(d)))

Answers == {"delay_resp", "pdelay_resp", "pdelay_fup"}

Answer(d, buf, fmt, req, t) ==
  CASE fmt = "delay_resp"  -> Codec!msg_pack_delay_resp(d, buf, req, t)
    [] fmt = "pdelay_resp" -> Codec!msg_pack_pdelay_resp(d, buf, req, t)
    [] fmt = "pdelay_fup"  -> Codec!msg_pack_pdelay_resp_follow_up(d, buf, req, t)

Peer(d) == PortOf(d.cf, 0, 10)

L1Bits(t) == <<TRUE, t.s = 1, t.n = 0>>

Pack(d, buf, fmt, t) ==
  CASE fmt = "sync"        -> Codec!msg_pack_sync(d, buf, 7, t)
    [] fmt = "follow_up"   -> Codec!msg_pack_follow_up(d, buf, 7, t)
    [] fmt = "announce"    -> Codec!msg_pack_announce(d, buf, 9, AnnounceOf(t))
    [] fmt = "wr_announce" -> Codec!msg_pack_announce_wr_tlv(
                                Codec!msg_pack_announce(d, buf, 9, AnnounceOf(t)), WrOf(t))
    [] fmt = "delay_req"   -> Codec!msg_pack_delay_req(d, buf, 65535, t)
    [] fmt = "pdelay_req"  -> Codec!msg_pack_pdelay_req(d, buf, 65535, t)
    [] fmt \in Answers     -> Answer(d, buf, fmt, ReqHdr(Peer(d), fmt, t), t)
    [] fmt = "l1sync"      -> Codec!l1e_pack_signal(d, buf, 4, L1Bits(t), <<t.n = 0, FALSE, TRUE>>, FALSE)
    [] fmt = "l1sync_ext"  -> Codec!l1e_pack_signal(d, buf, 4, L1Bits(t), <<TRUE, TRUE, TRUE>>, TRUE)
    [] fmt = "wr_calibrated" ->
         Codec!msg_pack_wrsig(buf, [id |-> Id(3), port |-> 2], Codec!CALIBRATED, WrOf(t))
    [] fmt = "wr_calibrate" ->
         Codec!msg_pack_wrsig(buf, [id |-> Id(3), port |-> 2], Codec!CALIBRATE, WrOf(t))

(* The White Rabbit signaling messages and the extended L1_SYNC TLV do     *)
(* not write all of their frame: they are only sent before.                *)
Complete == {"sync", "follow_up", "announce", "wr_announce", "delay_req", "pdelay_req",
             "delay_resp", "pdelay_resp", "pdelay_fup", "l1sync"}
Formats  == Complete \cup {"l1sync_ext", "wr_calibrated", "wr_calibrate"}

Frame(buf) == [i \in 0..(Codec!Get(buf, 2, 2) - 1) |-> buf[i]]

FrameTimes == {[s |-> 0, n |-> 0], [s |-> 0, n |-> SNS_PER_S - 1], [s |-> 1, n |-> Frac - 1]}

PickFrames ==
  /\ alg = "codec" /\ input = << >>
  /\ \E cf \in BOOLEAN :
       \/ \E before \in Formats, fmt \in Complete :
            input' = [before |-> before, fmt |-> fmt, d |-> PortOf(cf, 70000, 0),
                      t |-> [s |-> 1, n |-> Frac - 1]]
       \/ \E fmt \in Complete, asym \in {0, 70000, -3}, t \in FrameTimes :
            input' = [before |-> "wr_calibrated", fmt |-> fmt, d |-> PortOf(cf, asym, 0), t |-> t]

(* What is sent depends on nothing that was sent before.                   *)
NoResidue(d, frame) ==
  LET Before == Pack(d, Blank(d), input.before, [s |-> 1, n |-> Frac + 9])
  IN  Frame(Pack(d, Before, input.fmt, input.t)) = Frame(frame)

(* What is received is what was sent: frame holds input.fmt and has the    *)
(* header hdr.                                                             *)
Received(d, frame, hdr) ==
  LET Sent(fmt) == Pack(d, Blank(d), fmt, input.t)
      (* The answer of the peer to a request of d.                         *)
      Answered(fmt) == Answer(Peer(d), Blank(Peer(d)), fmt, ReqHdr(d, fmt, input.t), input.t)
      AtT4(h, r) ==
        /\ Instant(Codec!T4(d, h, r.t)) = Instant(input.t)
        /\ <<r.id, r.port, h.seq>> = <<d.id, d.port, 65535>>
      AnswerAtT4(resp) == AtT4(Codec!msg_unpack_header(resp), Codec!msg_unpack_resp(resp))
      AnswerAtT5(fup) ==
        Instant(Codec!T5(Codec!msg_unpack_header(fup), Codec!msg_unpack_resp(fup).t)) = Instant(input.t)
      AnnouncedWr(w) == w.config + (IF w.calibrated THEN 4 ELSE 0) + (IF w.modeOn THEN 8 ELSE 0)
      Calibrated(w) == [msg |-> Codec!CALIBRATED, deltaTx |-> w.deltaTx, deltaRx |-> w.deltaRx]
      Calibrate(w)  == [msg |-> Codec!CALIBRATE, pattern |-> IF w.calibrated THEN 0 ELSE 1,
                        retry |-> w.calRetry, period |-> w.calPeriod]
  IN  /\ hdr.id = d.id /\ hdr.port = d.port
      /\ input.fmt = "follow_up" =>
           Instant(Codec!T1(Codec!msg_unpack_header(Sent("sync")), hdr, Codec!GetTime(frame, 34)))
             = Instant(input.t)
      /\ input.fmt \in {"announce", "wr_announce"} =>
           Codec!msg_unpack_announce(frame) = AnnounceOf(input.t)
      /\ input.fmt = "wr_announce" =>
           /\ Codec!msg_unpack_announce_wr_tlv(frame) = AnnouncedWr(WrOf(input.t))
           /\ Codec!msg_unpack_wrsig(Sent("wr_calibrated")) = Calibrated(WrOf(input.t))
           /\ Codec!msg_unpack_wrsig(Sent("wr_calibrate")) = Calibrate(WrOf(input.t))
      /\ input.fmt = "delay_req" => AnswerAtT4(Answered("delay_resp"))
      /\ input.fmt = "pdelay_req" => AnswerAtT4(Answered("pdelay_resp"))
      /\ input.fmt = "pdelay_req" /\ d.asym = 0 => AnswerAtT5(Answered("pdelay_fup"))
      /\ input.fmt = "l1sync" =>
           Codec!l1e_unpack_signal(frame) = <<L1Bits(input.t), <<input.t.n = 0, FALSE, TRUE>> >>

-----------------------------------------------------------------------------
(* Time stamps: every sign, both ends of a second and of a nanosecond.     *)

SomeTimes ==
  {t \in [s : -2..2, n : {k * m : k \in {-1, 1}, m \in {0, 1, Rounding, Frac - 1, SNS_PER_S - 1}}] :
     Normal(t)}

PickTimes ==
  /\ alg = "time" /\ input = << >>
  /\ \/ \E a, b \in SomeTimes : input' = <<a, b>>
     \/ \E p \in -9000..9000 : input' = <<p>>

(* A number of picoseconds survives the conversions, but for one: both     *)
(* ways round, and the way to a time adds half a picosecond.               *)
PicosKept(p) ==
  /\ Magnitude(pp_time_to_picos(picos_to_pp_time(p)) - p) <= 1
  /\ Magnitude(1000 * Instant(picos_to_pp_time(p)) - p * Frac) <= Rounding
  /\ Normal(picos_to_pp_time(p))
  /\ Magnitude(interval_to_picos(picos_to_interval(p, -8000, 8000))
                - (IF p > 8000 THEN 8000 ELSE IF p < -8000 THEN -8000 ELSE p)) <= 1
  /\ Instant(fixedDelta_to_pp_time(p * 100)) = (p * 100) \div 1000
  /\ LET printed == relative_interval_to_string(p)
     IN  printed[1] * (printed[2] * 2 * RelHalf + printed[3]) * 2 ^ RelBits = p * 2 * RelHalf

(* What is printed is the time, to the picosecond; what the hardware gets  *)
(* is the time in whole periods of its clock and the rest.                 *)
Shown(t) ==
  LET time == time_to_string(t)
      intv == interval_to_string(Instant(t))
      hard == pp_time_hardwarize(t, 2000)
  IN  /\ time[1] * (time[2] * PSEC + time[3] * 1000 + time[4]) = pp_time_to_picos(t)
      /\ Magnitude(intv[1] * (intv[2] * 1000 + intv[3]) - pp_time_to_picos(t)) <= 1
      /\ hard.ticks * 1000 + hard.picos = pp_time_to_picos([s |-> 0, n |-> t.n])
      /\ hard.ticks % 2 = 0 /\ Magnitude(hard.picos) < 2000

(* Sums and differences are exact and normal; adding an interval is adding *)
(* the time that is as long; a time stamp marked incorrect is found so,    *)
(* whatever is added to it.                                                *)
SumsExact(a, b) ==
  LET sum  == pp_time_add(a, b)
      dif  == pp_time_sub(a, b)
      lost == pp_time_add(mark_incorrect(a), b)
  IN  /\ Instant(sum) = Instant(a) + Instant(b) /\ Normal(sum)
      /\ Instant(dif) = Instant(a) - Instant(b) /\ Normal(dif)
      /\ Instant(pp_time_add_interval(a, Instant(b))) = Instant(sum)
      /\ Instant(pp_time_sub_interval(a, Instant(b))) = Instant(dif)
      /\ pp_time_to_interval(sum) = Instant(sum)
      /\ a.s >= 0 => Magnitude(2 * Instant(pp_time_div2(a)) - Instant(a)) <= 1
      /\ ~is_incorrect(sum) /\ is_incorrect(lost) /\ lost.n >= 0
      /\ \A mask \in SUBSET (1..3) : is_timestamp_incorrect(<<sum, lost, dif>>, mask) <=> 2 \in mask

(* The long division and the number of picoseconds that are printed.       *)
DivisionExact ==
  \A n \in 0..(2 ^ (2 * WordBits) - 1), base \in 1..(2 ^ WordBits - 1) :
     div64_32(n, base) = <<n \div base, n % base>>

-----------------------------------------------------------------------------
(* The servo's arithmetic.                                                 *)

PickServo ==
  /\ alg = "servo" /\ input = << >>
  /\ \/ \E a \in 0..(2 ^ (2 * ServoWord - 1) - 1) : input' = <<a>>
     \/ \E delay \in {1, Frac, SNS_PER_S + 5}, asym \in {0, 1000, -1000}, p2p \in BOOLEAN,
           off \in {n * k : n \in {-1, 1}, k \in {0, 1, 65536, 300001}} :
           input' = <<delay, asym, p2p, off>>

(* __mulRelativeDifference() is the product without its fraction, as long  *)
(* as one of the factors is below one.                                     *)
ProductsExact(a) ==
  \A b \in 0..(Servo!Unit - 1) :
     LET product == (a * b) \div Servo!Unit
     IN  /\ Servo!mulRelativeDifference(a, b) = product
         /\ \A n \in {-1, 1} : a * b # 0 =>
              Servo!calculateDelayAsymmetry(n * a, b, 7) = 7 + n * product

(* alpha / (2 + alpha), within five units, for an alpha below a half.      *)
CoefficientClose(alpha) ==
  LET c == Servo!pp_servo_calculateDelayAsymCoefficient(alpha)
  IN  Magnitude(c * (2 * Servo!Unit + alpha) - alpha * Servo!Unit) <= 5 * (2 * Servo!Unit + alpha)

(* A link of the given delay to the slave, whose clock is ahead by off;    *)
(* the way back is shorter by twice the asymmetry, in picoseconds.         *)
OffsetFound(delay, asym, p2p, off) ==
  LET asymSc == (asym * Frac) \div 1000
      T(v) == normalize_pp_time([s |-> 0, n |-> v])
      base == 3 * Frac
      t == [i \in 1..6 |->
              CASE i = 1 -> T(base)
                [] i = 2 -> T(base + delay + asymSc + off)
                [] i = 3 -> T(base + 100 + off)
                [] i = 4 -> T(base + 100 + delay - asymSc)
                [] i = 5 -> T(base + 900 + delay - asymSc)
                [] i = 6 -> T(base + 900 + 2 * delay + off)]
      r == Servo!pp_servo_calculate_delays(t, p2p, asym)
  IN  /\ Magnitude(Instant(r.meanDelay) - delay) <= Rounding \div 100
      /\ Magnitude(Instant(r.offsetFromMaster) + off) <= Rounding \div 100

-----------------------------------------------------------------------------
(* The receive time stamp of the switch: cycles of Cycle parts, Parts of   *)
(* them to the nanosecond, Second nanoseconds to the second.  An instant T *)
(* is latched by the rising edge counter, which is uncertain by a cycle    *)
(* near its transition, and by the falling edge one, half a cycle later.   *)
Cycle  == 8
Parts  == 4
Second == 8

(* Frequencies around the limits of the kernel and of the DAC.             *)
Tunings == {n * k : n \in {-1, 1}, k \in {0, 1, 7, 300, 9599, 9600, 9601, 511999, 512000, 520000}}

PickStamp ==
  /\ alg = "hardware" /\ input = << >>
  /\ \/ \E t \in (2 * Cycle)..(16 * Cycle), tp \in {0, 3, 7} :
           LET phi  == t % Cycle
               near == 4 * phi \in Cycle..(3 * Cycle)
               f0   == (t - Cycle \div 2) \div Cycle
           IN  \E r \in {t \div Cycle} \cup (IF 4 * phi < Cycle THEN {t \div Cycle - 1} ELSE {})
                                     \cup (IF 4 * phi > 3 * Cycle THEN {t \div Cycle + 1} ELSE {}) :
               \E f \in IF near THEN {f0 - 1, f0, f0 + 1} ELSE {f0} :
                 input' = <<t, tp, r, f>>
     \/ \E d \in -200..200 : input' = <<d>>
     \/ \E f, g \in Tunings : input' = <<f, g>>
     \/ \E kind \in {"unix", "sim", "wrpc"}, ns \in {0, 1, NSEC - 1, 9 * NSEC}, utc \in {0, 2},
           jump \in SomeTimes :
           /\ kind = "wrpc" => Instant(pp_time_add(Hw!time_get(kind, ns, utc, NSEC, Frac), jump)) >= 0
           /\ input' = <<kind, ns, utc, jump.s, jump.n>>

StampExact(t, tp, r, f) ==
  LET ns == r * (Cycle \div Parts)
      l  == Hw!wrs_linearize_rx_timestamp(<<ns \div Second, ns % Second>>, (t + tp) % Cycle,
                                          r # f, tp, Cycle, Parts, Second)
  IN  (l[1] * Second + l[2]) * Parts + l[3] = t

(* With 50 ms to the second and a threshold of 2: the first call leaves    *)
(* less than a second, half a second if it adjusted seconds, and after the *)
(* second nothing is left to adjust.                                       *)
TimeSet(d) ==
  LET d1 == d - Hw!wrs_time_set(d, 50, 2)
      d2 == d1 - Hw!wrs_time_set(d1, 50, 2)
  IN  /\ Hw!wrs_time_set(d2, 50, 2) = 0
      /\ Magnitude(d2) <= 2 \/ Magnitude(d2) \in 48..49
      /\ Magnitude(d) >= 50 => Magnitude(d1) <= 25

(* A jump of the servo (pp_servo_offset_master()) takes the clock where it *)
(* should, to the nanosecond, or is refused and leaves it alone.           *)
JumpLands(kind, ns, utc, jump) ==
  LET before == Hw!time_get(kind, ns, utc, NSEC, Frac)
      goal   == pp_time_add(before, jump)
      after  == Hw!time_get(kind, Hw!time_set(kind, ns, utc, goal, NSEC, Frac), utc, NSEC, Frac)
      refused == kind = "unix" /\ Instant(goal) - utc * SNS_PER_S < 0
  IN  /\ Normal(after) \/ after.s = utc
      /\ IF refused THEN after = before ELSE Instant(goal) - Instant(after) \in 0..(Frac - 1)

(* A higher frequency asked for is no lower one in effect, and within the  *)
(* limits it is the one asked for: to 1 % in the kernel's unit, which is   *)
(* 65.536 to the ppb, and to one step of the DAC.                          *)
TuningKept(f, g) ==
  LET kern(x) == Hw!unix_time_adjust_freq(0, x)
      dac(x)  == Hw!wrs_time_adjust_freq(x)
  IN  /\ f <= g => kern(f) <= kern(g) /\ dac(f) <= dac(g) /\ Hw!sim_adjust_freq(0, f) <= Hw!sim_adjust_freq(0, g)
      /\ Magnitude(f) <= Hw!PP_ADJ_FREQ_MAX =>
           Hw!sim_adjust_freq(0, f) = f /\ Magnitude(kern(f) - 66 * f) <= Magnitude(f)
      /\ dac(f) \in 1..65534 => Magnitude((dac(f) - 32768) * 75 - f * 256) < 75

-----------------------------------------------------------------------------
(* Expressions over a boolean symbol B and a tristate T.                   *)

Atoms == {Sym(s) : s \in {"B", "T", "n", "y"}} \cup {Not(Sym("B")), Not(Sym("T"))} \cup
         {Comp(c, "T", k) : c \in {"=", "!="}, k \in {"n", "m", "y"}} \cup
         {Comp("=", "B", "n"), Comp("<", "T", "y")}

Join(l, r) == {And(l, r), Or(l, r)}
Smaller == Atoms \cup UNION {Join(l, r) : l, r \in {Sym("B"), Sym("T"), Sym("y"), Not(Sym("T")),
                                                   Comp("!=", "T", "m"), Comp("=", "T", "y")}}

(* What is joined to such an expression.                                   *)
Right == Atoms \cup Join(Sym("T"), Comp("!=", "T", "m")) \cup Join(Sym("B"), Not(Sym("T")))

GrowExpr ==
  /\ alg = "expr"
  /\ \/ input = Null /\ input' \in Smaller
     \/ input \in Smaller /\ (\E y \in Right : input' \in Join(input, y))
     \/ input # Null /\ input.t # "not" /\ input' = Not(input)

Same(e, f) == \A v \in Valuations : expr_calc_value(e, v) = expr_calc_value(f, v)

(* Dependency graphs: a choice C with the values V and W, and two other    *)
(* symbols; menu_finalize() makes a value depend on its choice.            *)
KSyms == <<"X", "V", "C", "W", "Y">>

KGraph(deps) ==
  [deps |-> deps,
   of |-> [s \in ToSet(KSyms) |-> IF s \in {"V", "W"} THEN "C" ELSE Deps!None],
   values |-> [s \in ToSet(KSyms) |-> IF s = "C" THEN <<"V", "W">> ELSE << >>]]

NoDeps == [s \in ToSet(KSyms) |-> IF s \in {"V", "W"} THEN <<"C">> ELSE << >>]

AddDependency ==
  /\ alg = "deps"
  /\ FoldFunction(LAMBDA d, n : n + Len(d), 0, input) < 2 + MaxDeps
  /\ \E s, d \in ToSet(KSyms) :
       d \notin ToSet(input[s]) /\ input' = [input EXCEPT ![s] = Append(@, d)]

(* sym_check_deps() finds a loop if there is one, what it prints is a      *)
(* loop, and it leaves no mark and nothing on its stack.  A loop that goes *)
(* from a choice to one of its values it finds only from outside.          *)
LoopsFound ==
  LET g    == KGraph(input)
      walk == Deps!CheckAll(g, KSyms)
  IN  /\ Deps!Recursive(g, ToSet(KSyms)) => walk.told # {}
      /\ \A loop \in walk.told : Deps!RealLoop(g, loop)
      /\ walk.check = {} /\ walk.stack = << >>

-----------------------------------------------------------------------------
AlgInit ==
  \/ alg \in {"codec", "time", "servo", "hardware"} /\ input = << >> /\ KconfRests
  \/ alg = "expr" /\ input = Null /\ KconfRests
  \/ alg = "deps" /\ input = NoDeps /\ KconfRests
  \/ alg = "kconfig" /\ input = Rests /\ KcInit

AlgNext ==
  /\ UNCHANGED alg
  /\ \/ UNCHANGED kconf /\ (PickFrames \/ PickTimes \/ PickServo \/ PickStamp \/ GrowExpr
                             \/ AddDependency)
     \/ alg = "kconfig" /\ KcNext /\ UNCHANGED input

AlgSpec == AlgInit /\ [][AlgNext]_<<alg, input, kconf>>

-----------------------------------------------------------------------------
(* A frame packed by msg.c, msg-p2p.c or an extension into the one buffer  *)
(* of the port holds nothing of the frame sent before, and the receiver    *)
(* gets out of it what was put in: data sets and flags, and t1, t4, t5 to  *)
(* the last fraction bit through time stamp and correction field, with     *)
(* either kind of correction field and any asymmetry.                      *)
RoundTrip ==
  alg = "codec" /\ input # << >> =>
    \E frame \in {Pack(input.d, Blank(input.d), input.fmt, input.t)} :
      NoResidue(input.d, frame) /\ Received(input.d, frame, Codec!msg_unpack_header(frame))

(* time-arith.c: sums, differences, halves and conversions of any signs    *)
(* are exact and leave a normal time, an incorrect time stamp stays        *)
(* incorrect, and __div64_32() divides.                                    *)
TimeExact ==
  alg = "time" =>
    CASE Len(input) = 0 -> DivisionExact
      [] Len(input) = 1 -> PicosKept(input[1])
      [] Len(input) = 2 -> SumsExact(input[1], input[2]) /\ Shown(input[1])

(* servo.c finds the offset of the slave and the mean delay of the link,   *)
(* end to end and peer to peer; its multiplication in two halves loses no  *)
(* carry, and the series for the asymmetry converges.                      *)
ServoMathExact ==
  alg = "servo" =>
    CASE Len(input) = 0 -> TRUE
      [] Len(input) = 1 -> /\ ProductsExact(input[1])
                       /\ input[1] < Servo!Unit \div 2 => CoefficientClose(input[1]) /\ CoefficientClose(-input[1])
      [] Len(input) = 4 -> OffsetFound(input[1], input[2], input[3], input[4])

(* wrs_linearize_rx_timestamp() restores the instant whichever way the     *)
(* uncertain counter went, also across a second; wrs_time_set() settles in *)
(* two calls, a jump of any other clock lands where it should, and a       *)
(* frequency correction keeps its order up to the limits of the clock.     *)
HardwareTimeExact ==
  alg = "hardware" /\ input # << >> =>
    CASE Len(input) = 1 -> TimeSet(input[1])
      [] Len(input) = 2 -> TuningKept(input[1], input[2])
      [] Len(input) = 4 -> StampExact(input[1], input[2], input[3], input[4])
      [] Len(input) = 5 -> JumpLands(input[1], input[2], input[3], [s |-> input[4], n |-> input[5]])

(* What expr.c makes of a dependency has its value whatever the symbols    *)
(* are worth, two chains it takes for equal are equal, and a symbol that a *)
(* dependency needs is really needed; recursive dependencies are found.    *)
DependenciesSound ==
  /\ alg = "deps" => LoopsFound
  /\ alg = "expr" /\ input # Null =>
       /\ Same(expr_transform(input), input) /\ Same(expr_eliminate_yn(input), input)
       /\ Same(expr_eliminate_dups(input), input) /\ Same(expr_eliminate_dups(expr_transform(input)), input)
       /\ input.t \in Joins /\ expr_eq(input.l, input.r) => Same(input.l, input.r)
       /\ \A v \in Valuations :
            /\ (expr_calc_value(Visibility(Null, input, FALSE), v) = 0) = (expr_calc_value(input, v) = 0)
            /\ \A s \in {"B", "T"} :
                 expr_depends_symbol(input, s) /\ v[s] = 0 => expr_calc_value(input, v) = 0

(* .config and the minimal defconfig, read again, give every symbol the    *)
(* value it had when the file was written (confdata.c).                    *)
ConfigComesBack == alg = "kconfig" => SavedComesBack

(* conf_write_autoconf() may stop at any header and the configuration may  *)
(* change before it runs again: once auto.conf is in place, every object   *)
(* is built with the values it holds.                                      *)
BuildCurrent == alg = "kconfig" => ObjectsCurrent
=============================================================================
