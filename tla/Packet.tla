------------------------------- MODULE Packet -------------------------------
(***************************************************************************)
(* Packets as bytes: src/tju_packet.c and the checksum of src/tju_tcp.c.   *)
(*                                                                         *)
(* A header is a record with the fields of tju_header_t, a byte is a       *)
(* number below 256, a buffer a sequence of bytes.  seq_num and ack_num,   *)
(* 32 bits wide, are kept as their two halves, hi and lo.                  *)
(***************************************************************************)
EXTENDS Integers, Sequences, SequencesExt

SYN == 2
ACK == 16
NO_FLAG == 0
HEADER_LEN == 22

USHRT_MAX == 65535
UShort(n) == n % 65536
Word(n) == [hi |-> UShort(n \div 65536), lo |-> UShort(n)]
Plus(w, n) == [hi |-> UShort(w.hi + (w.lo + n) \div 65536), lo |-> UShort(w.lo + n)]

\* htons and htonl followed by memcpy: the most significant byte comes first.
Bytes16(n) == <<n \div 256, n % 256>>
Bytes32(w) == Bytes16(w.hi) \o Bytes16(w.lo)

Get8(buf, offset) == buf[offset + 1]
Get16(buf, offset) == 256 * buf[offset + 1] + buf[offset + 2]
Get32(buf, offset) == [hi |-> Get16(buf, offset), lo |-> Get16(buf, offset + 2)]

get_src(buf) == Get16(buf, 0)
get_dst(buf) == Get16(buf, 2)
get_seq(buf) == Get32(buf, 4)
get_ack(buf) == Get32(buf, 8)
get_hlen(buf) == Get16(buf, 12)
get_plen(buf) == Get16(buf, 14)
get_flags(buf) == Get8(buf, 16)
get_advertised_window(buf) == Get16(buf, 17)
get_ext(buf) == Get8(buf, 19)
get_checksum(buf) == Get16(buf, 20)

\* On a little-endian machine htons exchanges the bytes of a short.
htons(n) == 256 * (n % 256) + n \div 256

\* A char is signed.
Char(b) == IF b < 128 THEN b ELSE b - 256

CharSum(data) == FoldLeft(LAMBDA sum, b : sum + Char(b), 0, data)

\* Mutation: the flags are left out of the sum.
tcp_compute_checksum_NoFlags(p) ==
    USHRT_MAX - UShort(p.src + p.dst + p.seq.lo + p.ack.lo + htons(p.hlen) + htons(p.plen)
                   + p.advertised_window + p.ext
                   + CharSum(p.data))

\* tcp_compute_checksum: every addition is cut to 16 bits, so that the upper halves of
\* seq_num and ack_num do not count, and folding the carry back in adds 0.
tcp_compute_checksum(p) ==
    USHRT_MAX - UShort(p.src + p.dst + p.seq.lo + p.ack.lo + htons(p.hlen) + htons(p.plen)
                   + p.flags + p.advertised_window + p.ext
                   + CharSum(p.data))

\* tcp_check.
tcp_check(p) == p.checksum = tcp_compute_checksum(p)

\* create_packet: the fields, the data and the checksum over both.
create_packet(src, dst, seq, ack, hlen, plen, flags, adv_window, ext, data) ==
    LET p == [src |-> src, dst |-> dst, seq |-> seq, ack |-> ack, hlen |-> hlen,
              plen |-> plen, flags |-> flags, advertised_window |-> adv_window,
              ext |-> ext, checksum |-> 0, data |-> data]
    IN  [p EXCEPT !.checksum = tcp_compute_checksum(p)]

header_in_char_NoSwap(p) ==   \* mutation: plen is copied without htons
    Bytes16(p.src) \o Bytes16(p.dst) \o Bytes32(p.seq) \o Bytes32(p.ack)
    \o Bytes16(p.hlen) \o Bytes16(htons(p.plen)) \o <<p.flags>>
    \o Bytes16(p.advertised_window) \o <<p.ext>> \o Bytes16(p.checksum)

header_in_char(p) ==
    Bytes16(p.src) \o Bytes16(p.dst) \o Bytes32(p.seq) \o Bytes32(p.ack)
    \o Bytes16(p.hlen) \o Bytes16(p.plen) \o <<p.flags>>
    \o Bytes16(p.advertised_window) \o <<p.ext>> \o Bytes16(p.checksum)

packet_to_buf(p) == header_in_char(p) \o p.data

\* buf_to_packet: the data are the bytes from hlen to plen.
buf_to_packet(buf) ==
    [src |-> get_src(buf), dst |-> get_dst(buf), seq |-> get_seq(buf), ack |-> get_ack(buf),
     hlen |-> get_hlen(buf), plen |-> get_plen(buf), flags |-> get_flags(buf),
     advertised_window |-> get_advertised_window(buf), ext |-> get_ext(buf),
     checksum |-> get_checksum(buf),
     data |-> SubSeq(buf, get_hlen(buf) + 1, get_plen(buf))]

\* create_packet_buf with a header of the usual length.
create_packet_buf(src, dst, seq, ack, flags, adv_window, data) ==
    packet_to_buf(create_packet(src, dst, seq, ack, HEADER_LEN, HEADER_LEN + Len(data), flags,
                                adv_window, 0, data))

\* build_state_pkt answers a packet: ports exchanged, numbers derived from its seq_num.
build_state_pkt(buf, flags, window) ==
    create_packet_buf(get_dst(buf), get_src(buf), Plus(get_seq(buf), HEADER_LEN),
                      Plus(get_seq(buf), 1), flags, window, <<>>)
=============================================================================
