------------------------------ MODULE MsgCodec ------------------------------
(***************************************************************************)
(* The frames of proto-standard/msg.c and msg-p2p.c and of the two         *)
(* extensions, byte by byte.  Every message of a port is packed into the   *)
(* same buffer, ppi->tx_ptp, which msg_init_header() prepares once: what   *)
(* a packing function does not write is what an earlier message left.      *)
(*                                                                         *)
(* A port is described by d: domain, minor, id (8 bytes), port, the log    *)
(* intervals, and cf, whether its correction fields are compliant (the     *)
(* hook is_correction_field_compliant(); only the White Rabbit extension   *)
(* says no).  asym is portDS.delayAsymmetry.                               *)
(***************************************************************************)
EXTENDS TimeArith, Sequences

MaxFrame == 128                     \* PP_MAX_FRAME_LENGTH
Buffer   == 0..(MaxFrame - 1)

(* htons(), htonl(), htonll(): the low w bytes of v, most significant      *)
(* first, of a negative number in two's complement.                        *)
Bytes(v, w) ==
  LET shr[k \in 0..(w - 1)] == IF k = 0 THEN v ELSE shr[k - 1] \div 256
  IN  [i \in 1..w |-> shr[w - i] % 256]

(* ntohs(), ntohl(): the number at off; a signed one when the type it is   *)
(* assigned to is.                                                         *)
GetAs(buf, off, w, signed) ==
  LET top == IF signed /\ buf[off] >= 128 THEN buf[off] - 256 ELSE buf[off]
      val[k \in 0..(w - 1)] == IF k = 0 THEN top ELSE val[k - 1] * 256 + buf[off + k]
  IN  val[w - 1]

Get(buf, off, w)    == GetAs(buf, off, w, FALSE)
GetInt(buf, off, w) == GetAs(buf, off, w, TRUE)
Take(buf, off, w)   == [i \in 1..w |-> buf[off + i - 1]]
Zeros(w)            == [i \in 1..w |-> 0]

Put(buf, off, bytes) ==
  [i \in DOMAIN buf |-> IF i \in off..(off + Len(bytes) - 1) THEN bytes[i - off + 1]
                        ELSE buf[i]]

(* Several writes, in order: a sequence of <<offset, bytes>>.              *)
PutAll(buf, writes) ==
  LET res[k \in 0..Len(writes)] ==
        IF k = 0 THEN buf ELSE Put(res[k - 1], writes[k][1], writes[k][2])
  IN  res[Len(writes)]

-----------------------------------------------------------------------------
(* msgtype.c: message type, length, control field; and the log interval.   *)
Info == [sync        |-> <<0, 44, 0>>,  delay_req   |-> <<1, 44, 1>>,
         pdelay_req  |-> <<2, 54, 5>>,  pdelay_resp |-> <<3, 54, 5>>,
         follow_up   |-> <<8, 44, 2>>,  delay_resp  |-> <<9, 54, 3>>,
         pdelay_fup  |-> <<10, 54, 5>>, announce    |-> <<11, 64, 5>>,
         signaling   |-> <<12, -1, 5>>]

LogInterval(d, fmt) == CASE fmt = "announce"              -> d.logAnnounce
                         [] fmt \in {"sync", "follow_up"} -> d.logSync
                         [] fmt = "delay_resp"            -> d.logMinDelayReq
                         [] OTHER                         -> 127

msg_init_header(d, buf) ==
  PutAll(buf, << <<0, Zeros(34)>>, <<1, <<d.minor * 16 + 2>> >>, <<4, <<d.domain>> >>,
                 <<20, d.id>>, <<28, Bytes(d.port, 2)>> >>)

(* Mutant: the correction field keeps the value of the last message.       *)
msg_pack_header_KeepsCF(d, buf, fmt) ==
  PutAll(buf, << <<0, <<Info[fmt][1]>> >>, <<2, Bytes(Info[fmt][2], 2)>>, <<6, Zeros(2)>>,
                 <<32, <<Info[fmt][3]>> >>, <<33, Bytes(LogInterval(d, fmt), 1)>> >>)

msg_pack_header(d, buf, fmt) ==
  PutAll(buf, << <<0, <<Info[fmt][1]>> >>, <<2, Bytes(Info[fmt][2], 2)>>, <<6, Zeros(2)>>,
                 <<8, Zeros(8)>>,
                 <<32, <<Info[fmt][3]>> >>, <<33, Bytes(LogInterval(d, fmt), 1)>> >>)

(* Byte 0 is shared with transportSpecific, byte 1 with the minor version. *)
msg_unpack_header(buf) ==
  [type |-> buf[0] % 16, version |-> buf[1] % 16, len |-> Get(buf, 2, 2), domain |-> buf[4],
   flags |-> Take(buf, 6, 2), cField |-> GetInt(buf, 8, 8), id |-> Take(buf, 20, 8),
   port |-> Get(buf, 28, 2), seq |-> Get(buf, 30, 2), log |-> GetInt(buf, 33, 1)]

(* Seconds in 48 bits and whole nanoseconds in 32.                         *)
Timestamp(t) == Bytes(t.s, 6) \o Bytes(t.n \div Frac, 4)
GetTime(buf, off) == [s |-> Get(buf, off, 6), n |-> Get(buf, off + 6, 4) * Frac]
SubNs(t) == t.n % Frac

(* The correction field of a [P]Delay_Resp, given that of the request.     *)
RespCF(d, rxcf, t) == IF d.cf THEN rxcf - SubNs(t) ELSE SubNs(t)
ReqCF(d) == IF d.cf THEN -d.asym ELSE 0

Flags(bits) ==
  LET on(i) == IF bits[i] THEN 2 ^ (i - 1) ELSE 0
  IN  on(1) + on(2) + on(3) + on(4) + on(5) + on(6)

-----------------------------------------------------------------------------
(* The packing functions: what they leave in the buffer.                   *)

msg_pack_sync(d, buf, seq, now) ==
  PutAll(msg_pack_header(d, buf, "sync"),
         << <<6, <<2>> >>, <<30, Bytes(seq, 2)>>,
            <<34, Timestamp(pp_time_add_interval(now, d.egress))>> >>)

msg_pack_follow_up(d, buf, seq, t) ==
  PutAll(msg_pack_header(d, buf, "follow_up"),
         << <<30, Bytes(seq, 2)>>, <<34, Timestamp(t)>>, <<8, Bytes(SubNs(t), 8)>> >>)

msg_pack_announce(d, buf, seq, a) ==
  PutAll(msg_pack_header(d, buf, "announce"),
         << <<30, Bytes(seq, 2)>>, <<6, <<0, Flags(a.flags)>> >>, <<34, Zeros(30)>>,
            <<44, Bytes(a.utcOffset, 2)>>, <<47, <<a.q[1], a.q[2], a.q[3]>> >>,
            <<50, Bytes(a.q[4], 2)>>, <<52, <<a.q[5]>> >>, <<53, a.gm>>,
            <<61, Bytes(a.steps, 2)>>, <<63, <<a.source>> >> >>)

msg_unpack_announce(buf) ==
  [utcOffset |-> GetInt(buf, 44, 2),
   q |-> <<buf[47], buf[48], buf[49], Get(buf, 50, 2), buf[52]>>,
   gm |-> Take(buf, 53, 8), steps |-> buf[61] * 256 + buf[62], source |-> buf[63],
   flags |-> [i \in 1..6 |-> (buf[7] \div 2 ^ (i - 1)) % 2 = 1]]

msg_pack_delay_req(d, buf, seq, now) ==
  PutAll(msg_pack_header(d, buf, "delay_req"),
         << <<30, Bytes(seq, 2)>>, <<8, Bytes(ReqCF(d), 8)>>,
            <<34, Timestamp(pp_time_add_interval(now, d.egress))>> >>)

msg_pack_pdelay_req(d, buf, seq, now) ==
  PutAll(msg_pack_header(d, buf, "pdelay_req"),
         << <<30, Bytes(seq, 2)>>, <<8, Bytes(ReqCF(d), 8)>>, <<34, Timestamp(now)>>,
            <<44, Zeros(10)>> >>)

(* The answers repeat the sequenceId and the identity of the request hdr.  *)
Answer(hdr, t) == << <<30, Bytes(hdr.seq, 2)>>, <<34, Timestamp(t)>>, <<44, hdr.id>>,
                     <<52, Bytes(hdr.port, 2)>> >>

msg_pack_delay_resp(d, buf, hdr, t) ==
  PutAll(msg_pack_header(d, buf, "delay_resp"),
         << <<8, Bytes(RespCF(d, hdr.cField, t), 8)>> >> \o Answer(hdr, t))

msg_pack_pdelay_resp(d, buf, hdr, t) ==
  PutAll(msg_pack_header(d, buf, "pdelay_resp"),
         << <<8, Bytes(RespCF(d, hdr.cField, t), 8)>>, <<6, <<2>> >> >> \o Answer(hdr, t))

(* The correction field of the request is returned here too.               *)
msg_pack_pdelay_resp_follow_up(d, buf, hdr, t) ==
  LET cf == normalize_pp_time([s |-> 0, n |-> hdr.cField + SubNs(t)])
  IN  PutAll(msg_pack_header(d, buf, "pdelay_fup"),
             << <<4, <<hdr.domain>> >>, <<8, Bytes(cf.n, 8)>> >> \o Answer(hdr, t))

msg_unpack_resp(buf) ==
  [t |-> GetTime(buf, 34), id |-> Take(buf, 44, 8), port |-> Get(buf, 52, 2)]

(* The port number of the target is not converted to network order.        *)
msg_pack_signaling(d, buf, seq, target, tlvType, tlvLen) ==
  PutAll(msg_pack_header(d, buf, "signaling"),
         << <<30, Bytes(seq, 2)>>, <<34, target.id>>, <<42, Bytes(target.hostPort, 2)>>,
            <<44, Bytes(tlvType, 2)>>, <<46, Bytes(tlvLen, 2)>> >>)

-----------------------------------------------------------------------------
(* What the receiver makes of the time stamps (state-slave.c and           *)
(* common-fun-p2p.c).                                                      *)

(* t1 of a Follow_Up; the Sync left its own correction field in t1.        *)
T1(syncHdr, fupHdr, precise) ==
  pp_time_add(pp_time_add([s |-> 0, n |-> syncHdr.cField], precise),
              [s |-> 0, n |-> fupHdr.cField])

(* t4 of a Delay_Resp or Pdelay_Resp.                                      *)
T4(d, hdr, t) ==
  IF ~d.cf THEN pp_time_add(t, [s |-> 0, n |-> hdr.cField])
  ELSE pp_time_sub(pp_time_sub(t, [s |-> 0, n |-> hdr.cField]), [s |-> 0, n |-> d.asym])

(* t5 of a Pdelay_Resp_Follow_Up.                                          *)
T5(hdr, t) == pp_time_add(t, [s |-> 0, n |-> hdr.cField])

-----------------------------------------------------------------------------
(* The TLVs of the extensions.                                             *)

(* Organization id, magic number, version and message id.                  *)
WrId(msg) == Bytes(8, 1) \o Bytes(48, 2) \o Bytes(57005, 2) \o <<1>> \o Bytes(msg, 2)
IsWr(buf, off) == Take(buf, off, 2) = Bytes(3, 2) /\ Take(buf, off + 4, 6) = SubSeq(WrId(0), 1, 6)

ANN_SUFIX == 8192
CALIBRATE == 4099
CALIBRATED == 4100

msg_pack_announce_wr_tlv(buf, w) ==
  PutAll(buf, << <<2, Bytes(78, 2)>>, <<64, Bytes(3, 2)>>, <<66, Bytes(10, 2)>>,
                 <<68, WrId(ANN_SUFIX)>>,
                 <<76, Bytes(w.config + (IF w.calibrated THEN 4 ELSE 0)
                                      + (IF w.modeOn THEN 8 ELSE 0), 2)>> >>)

(* Called when the announced length leaves room for the TLV.               *)
msg_unpack_announce_wr_tlv(buf) ==
  IF Get(buf, 2, 2) >= 78 /\ IsWr(buf, 64) /\ Get(buf, 74, 2) = ANN_SUFIX
  THEN Get(buf, 76, 2) ELSE 0

(* Only part of the header is written: flags, correctionField and          *)
(* sequenceId are those of the last message.                               *)
msg_pack_wrsig(buf, target, msg, w) ==
  LET body == CASE msg = CALIBRATE ->
                     <<IF w.calibrated THEN 0 ELSE 1, w.calRetry>> \o Bytes(w.calPeriod, 4)
                [] msg = CALIBRATED -> Bytes(w.deltaTx, 8) \o Bytes(w.deltaRx, 8)
                [] OTHER            -> << >>
      len  == 8 + Len(body)
  IN  PutAll(buf, << <<0, <<12>> >>, <<32, <<5, 127>> >>, <<34, target.id>>,
                     <<42, Bytes(target.port, 2)>>, <<44, Bytes(3, 2)>>, <<46, Bytes(len, 2)>>,
                     <<48, WrId(msg)>>, <<56, body>>, <<2, Bytes(48 + len, 2)>> >>)

msg_unpack_wrsig(buf) ==
  IF ~IsWr(buf, 44) THEN [msg |-> 0]
  ELSE LET msg == Get(buf, 54, 2)
       IN  CASE msg = CALIBRATE ->
                  [msg |-> msg, pattern |-> buf[56], retry |-> buf[57],
                   period |-> Get(buf, 58, 4)]
             [] msg = CALIBRATED ->
                  [msg |-> msg, deltaTx |-> GetInt(buf, 56, 8), deltaRx |-> GetInt(buf, 64, 8)]
             [] OTHER -> [msg |-> msg]

Mask(bits) == (IF bits[1] THEN 1 ELSE 0) + (IF bits[2] THEN 2 ELSE 0) + (IF bits[3] THEN 4 ELSE 0)

(* config and active are <<tx coherent, rx coherent, congruent>>.          *)
l1e_pack_signal(d, buf, seq, config, active, opt) ==
  LET base == msg_pack_signaling(d, buf, seq, [id |-> [i \in 1..8 |-> 255], hostPort |-> 65535],
                                 32769, 2)
      tlv  == PutAll(base, << <<48, <<Mask(config) + (IF opt THEN 8 ELSE 0), Mask(active)>> >> >>)
  IN  IF opt THEN PutAll(tlv, << <<46, Bytes(40, 2)>>, <<50, <<0>> >>, <<2, Bytes(88, 2)>> >>)
      ELSE Put(tlv, 2, Bytes(50, 2))

(* The extended format is refused.                                         *)
l1e_unpack_signal(buf) ==
  IF Get(buf, 44, 2) # 32769 \/ Get(buf, 46, 2) # 2 \/ Get(buf, 2, 2) # 50 THEN << >>
  ELSE <<[i \in 1..3 |-> (buf[48] \div 2 ^ (i - 1)) % 2 = 1],
         [i \in 1..3 |-> (buf[49] \div 2 ^ (i - 1)) % 2 = 1]>>
=============================================================================
