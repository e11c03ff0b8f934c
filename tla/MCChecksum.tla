------------------------------ MODULE MCChecksum ------------------------------
(* Frames for Checksum: every branch, with lengths at and around their limits. *)
EXTENDS Checksum, SequencesExt

\* The fields of a header that decide, with everything else filled by a pattern.
Fields(type, version, head, tot, proto) ==
  IF version = 6
  THEN [k \in {12, 13, 14, 18, 19, 20} |->
          CASE k = 12 -> type \div 256 [] k = 13 -> type % 256 [] k = 14 -> 96
            [] k = 18 -> tot \div 256 [] k = 19 -> tot % 256 [] k = 20 -> proto]
  ELSE [k \in {12, 13, 14, 16, 17, 23} |->
          CASE k = 12 -> type \div 256 [] k = 13 -> type % 256 [] k = 14 -> 16 * version + head
            [] k = 16 -> tot \div 256 [] k = 17 -> tot % 256 [] k = 23 -> proto]

Fills == {<<0, 0>>, <<0, 255>>, <<37, 11>>, <<1, 254>>}
Build(len, fields, fill) ==
  [n \in 1..len |->
     IF n - 1 \in DOMAIN fields THEN fields[n - 1] ELSE (fill[1] * n + fill[2]) % 256]

\* IPv4: the length of the segment, and how the total length errs.
Ipv4 ==
  {Build(L3 + 4 * head + room, Fields(ETH_P_IP, 4, head, 4 * head + l4 , proto), fill) :
     head \in {5, 15}, room \in {20, 23}, l4 \in {0, 3, 19, 20, 21, 23, 24},
     proto \in {1, 6, 17, 47}, fill \in Fills}

Ipv6 ==
  {Build(L3 + 40 + room, Fields(ETH_P_IP, 6, 0, l4, proto), fill) :
     room \in {20}, l4 \in {7, 20, 21}, proto \in {17, 58, 0}, fill \in Fills}

\* Headers that are refused or that point out of the frame.
Odd ==
  {Build(len, Fields(type, version, head, tot, 17), <<37, 11>>) :
     len \in {1, 34, 35, 60, 73, 74}, type \in {ETH_P_IP, 34525}, version \in {4, 5, 6},
     head \in {4, 5, 15}, tot \in {0, 19, 20, 21, 65535}}

\* A last word such that the checksum comes out as zero, and such that the first
\* carry of ones_final() carries once more.
LastWord ==
  LET f == Build(L3 + 20 + 20, Fields(ETH_P_IP, 4, 5, 40, 17), <<37, 11>>)
      g == Poke(Poke(f, L4Check(f), 0), 52, 0)
      rest == MapThenSumSet(LAMBDA k : Word(g, k), {k \in saddr(g)..Len(g) - 1 : k % 2 = 0})
                + 256 * 17 + Swap(20)
  IN {Poke(g, 52, 65535 - (rest % 65535)), Poke(g, 52, 65535 - (rest % 65536))}

Frames == Ipv4 \cup Ipv6 \cup Odd \cup LastWord
=============================================================================
