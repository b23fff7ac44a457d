-------------------------- MODULE DiscoveryProofs --------------------------
(* How a server starts and what it gives up with, for every configuration, *)
(* every range of ports and any number of restarts.                        *)
EXTENDS Discovery, TLAPS

-----------------------------------------------------------------------------
(* What the operators compute. *)

(* A product that is compared by dividing. *)
LEMMA ProductFits ==
    ASSUME NEW n \in Nat, NEW m \in Nat \ {0}, NEW w \in Nat
    PROVE  n * m <= w <=> n <= w \div m
<1>1. PICK q : q = w \div m
  OBVIOUS
<1>2. q \in Nat /\ q * m <= w /\ w < q * m + m
  BY <1>1
<1>3. n * m \in Nat /\ q * m \in Nat
  BY <1>2
<1>4. CASE n <= q
  <2>1. n * m <= q * m
    BY <1>2, <1>4
  <2> QED
    BY <1>1, <1>2, <1>3, <1>4, <2>1
<1>5. CASE n > q
  <2>1. n * m >= (q + 1) * m
    BY <1>2, <1>5
  <2>2. (q + 1) * m = q * m + m
    BY <1>2
  <2> QED
    BY <1>1, <1>2, <1>3, <1>5, <2>1, <2>2
<1> QED
  BY <1>2, <1>4, <1>5

(* The units of a log size and their multipliers. *)
LEMMA Multipliers ==
    /\ Multiplier("b") = 1 /\ Multiplier("kb") = Kilo /\ Multiplier("mb") = Kilo * Kilo
    /\ Multiplier("gb") = Kilo * Kilo * Kilo /\ Multiplier("other") = 0
    /\ Kilo \in Nat \ {0} /\ Kilo * Kilo \in Nat \ {0} /\ Kilo * Kilo * Kilo \in Nat \ {0}
<1>1. /\ Multiplier("b") = 1 /\ Multiplier("kb") = Kilo /\ Multiplier("mb") = Kilo * Kilo
      /\ Multiplier("gb") = Kilo * Kilo * Kilo /\ Multiplier("other") = 0
  BY DEF Multiplier
<1>2. Kilo \in Nat \ {0}
  BY DiscoveryAssumption
<1>3. Kilo * Kilo \in Nat \ {0}
  BY <1>2
<1>4. Kilo * Kilo * Kilo \in Nat \ {0}
  <2> DEFINE k == Kilo * Kilo
  <2>1. k \in Nat \ {0}
    BY <1>3
  <2> HIDE DEF k
  <2>2. k * Kilo \in Nat \ {0}
    BY <1>2, <2>1
  <2> QED
    BY <2>2 DEF k
<1> QED
  BY <1>1, <1>2, <1>3, <1>4

(* What a log size has to be. *)
SizeOk(log) ==
    \E k \in 1..4 :
        LET bytes == <<1, Kilo, Kilo * Kilo, Kilo * Kilo * Kilo>>[k]
        IN  /\ log.unit = <<"b", "kb", "mb", "gb">>[k]
            /\ log.number > 0 /\ log.number <= WordMax \div bytes

(* The size that parse_log_size_bytes accepts after a checked              *)
(* multiplication is one whose number of units fits.                       *)
LEMMA LogSize ==
    ASSUME NEW log \in [number : Nat \cup {-1}, unit : {"b", "kb", "mb", "gb", "other"}]
    PROVE  parse_log_size_bytes(log) <=> SizeOk(log)
<1> DEFINE n == log.number
           Fits(m) == n > 0 /\ n <= WordMax \div m
           Product(m) == n \in 1..WordMax /\ m # 0 /\ n * m <= WordMax
           Bytes(k) == <<1, Kilo, Kilo * Kilo, Kilo * Kilo * Kilo>>[k]
           Unit(k) == log.unit = <<"b", "kb", "mb", "gb">>[k]
<1>1. ASSUME NEW m \in Nat \ {0} PROVE Product(m) <=> Fits(m)
  <2>1. n \in Nat \/ n = -1
    OBVIOUS
  <2>2. CASE n \in Nat
    <3>1. n * m <= WordMax <=> n <= WordMax \div m
      BY <2>2, ProductFits, DiscoveryAssumption
    <3>2. n <= n * m
      BY <2>2
    <3>3. n * m \in Nat
      BY <2>2
    <3> QED
      BY <2>2, <3>1, <3>2, <3>3, DiscoveryAssumption
  <2>3. CASE n = -1
    BY <2>3
  <2> QED
    BY <2>1, <2>2, <2>3
<1>2. parse_log_size_bytes(log) <=> Product(Multiplier(log.unit))
  BY DEF parse_log_size_bytes
<1>3. SizeOk(log) <=> \E k \in 1..4 : Unit(k) /\ Fits(Bytes(k))
  BY DEF SizeOk
<1> DEFINE k2 == Kilo * Kilo
           k3 == Kilo * Kilo * Kilo
<1> HIDE DEF Fits, Product
<1>4. /\ Multiplier("b") = 1 /\ Multiplier("kb") = Kilo /\ Multiplier("mb") = k2
      /\ Multiplier("gb") = k3 /\ Multiplier("other") = 0
      /\ Kilo \in Nat \ {0} /\ k2 \in Nat \ {0} /\ k3 \in Nat \ {0}
  BY Multipliers
<1>5. SizeOk(log) <=> \/ log.unit = "b" /\ Fits(1)
                      \/ log.unit = "kb" /\ Fits(Kilo)
                      \/ log.unit = "mb" /\ Fits(k2)
                      \/ log.unit = "gb" /\ Fits(k3)
  <2>1. /\ Unit(1) <=> log.unit = "b"
        /\ Unit(2) <=> log.unit = "kb"
        /\ Unit(3) <=> log.unit = "mb"
        /\ Unit(4) <=> log.unit = "gb"
    OBVIOUS
  <2>2. Bytes(1) = 1 /\ Bytes(2) = Kilo /\ Bytes(3) = k2 /\ Bytes(4) = k3
    OBVIOUS
  <2> HIDE DEF Unit, Bytes, k2, k3
  <2>3. SizeOk(log) <=> \/ Unit(1) /\ Fits(Bytes(1))
                        \/ Unit(2) /\ Fits(Bytes(2))
                        \/ Unit(3) /\ Fits(Bytes(3))
                        \/ Unit(4) /\ Fits(Bytes(4))
    <3>1. 1..4 = {1, 2, 3, 4}
      OBVIOUS
    <3>2. SizeOk(log) <=> \E k \in {1, 2, 3, 4} : Unit(k) /\ Fits(Bytes(k))
      BY <1>3, <3>1, Zenon
    <3> QED
      BY <3>2, Zenon
  <2> QED
    BY <2>1, <2>2, <2>3
<1> HIDE DEF k2, k3
<1>6. CASE log.unit = "b"
  <2>1. Multiplier(log.unit) = 1 /\ (Product(1) <=> Fits(1))
    BY <1>1, <1>4, <1>6
  <2>2. parse_log_size_bytes(log) <=> Product(1)
    BY <1>2, <2>1
  <2>3. SizeOk(log) <=> Fits(1)
    BY <1>5, <1>6
  <2> QED
    BY <2>1, <2>2, <2>3
<1>7. CASE log.unit = "kb"
  <2>1. Multiplier(log.unit) = Kilo /\ (Product(Kilo) <=> Fits(Kilo))
    BY <1>1, <1>4, <1>7
  <2>2. parse_log_size_bytes(log) <=> Product(Kilo)
    BY <1>2, <2>1
  <2>3. SizeOk(log) <=> Fits(Kilo)
    BY <1>5, <1>7
  <2> QED
    BY <2>1, <2>2, <2>3
<1>8. CASE log.unit = "mb"
  <2>1. Multiplier(log.unit) = k2 /\ (Product(k2) <=> Fits(k2))
    BY <1>1, <1>4, <1>8
  <2>2. parse_log_size_bytes(log) <=> Product(k2)
    BY <1>2, <2>1
  <2>3. SizeOk(log) <=> Fits(k2)
    BY <1>5, <1>8
  <2> QED
    BY <2>1, <2>2, <2>3
<1>9. CASE log.unit = "gb"
  <2>1. Multiplier(log.unit) = k3 /\ (Product(k3) <=> Fits(k3))
    BY <1>1, <1>4, <1>9
  <2>2. parse_log_size_bytes(log) <=> Product(k3)
    BY <1>2, <2>1
  <2>3. SizeOk(log) <=> Fits(k3)
    BY <1>5, <1>9
  <2> QED
    BY <2>1, <2>2, <2>3
<1>10. CASE log.unit = "other"
  <2>1. Multiplier(log.unit) = 0
    BY <1>4, <1>10
  <2>2. ~Product(0)
    BY DEF Product
  <2>3. ~parse_log_size_bytes(log)
    BY <1>2, <2>1, <2>2
  <2>4. ~SizeOk(log)
    BY <1>5, <1>10
  <2> QED
    BY <2>3, <2>4
<1> QED
  BY <1>6, <1>7, <1>8, <1>9, <1>10

(* The candidates, from wherever they begin, are the ports of the range. *)
LEMMA CandidatesCover ==
    ASSUME NEW lo \in Nat, NEW hi \in Nat, lo <= hi, NEW o \in 0..(hi - lo)
    PROVE  {lo + ((o + i) % (hi - lo + 1)) : i \in 0..(hi - lo)} = lo..hi
<1> DEFINE c == hi - lo + 1
<1>1. c \in Nat \ {0} /\ hi = lo + c - 1
  OBVIOUS
<1>2. ASSUME NEW i \in 0..(hi - lo) PROVE lo + ((o + i) % c) \in lo..hi
  <2>1. o + i \in Nat
    OBVIOUS
  <2> HIDE DEF c
  <2>2. (o + i) % c \in 0..(c - 1)
    BY <1>1, <2>1
  <2> QED
    BY <1>1, <2>2
<1>3. ASSUME NEW p \in lo..hi PROVE \E i \in 0..(hi - lo) : p = lo + ((o + i) % c)
  <2> DEFINE r == p - lo
  <2>1. r \in 0..(c - 1) /\ o \in 0..(c - 1) /\ p = lo + r /\ c - 1 = hi - lo
    OBVIOUS
  <2> HIDE DEF c, r
  <2>2. CASE r >= o
    <3>1. r - o \in 0..(hi - lo) /\ (o + (r - o)) % c = r
      BY <1>1, <2>1, <2>2
    <3> QED
      BY <2>1, <3>1
  <2>3. CASE r < o
    <3>1. r - o + c \in 0..(hi - lo) /\ (o + (r - o + c)) % c = r
      BY <1>1, <2>1, <2>3
    <3> QED
      BY <2>1, <3>1
  <2> QED
    BY <1>1, <2>1, <2>2, <2>3
<1> QED
  BY <1>2, <1>3

-----------------------------------------------------------------------------
(* validate_config. *)

(* Every check passes only if the configuration is usable, and a usable    *)
(* one fails only because a name is not resolved.                          *)
LEMMA ChecksDecide ==
    ASSUME NEW s \in Settings, NEW group \in Resolved(s.group)
    PROVE  /\ DOMAIN Checks(s, group) = 1..7
           /\ \A i \in 1..7 : Checks(s, group)[i][2] = IF i = 3 THEN "MulticastFailed"
                                                        ELSE "ConfigInvalid"
           /\ (\A i \in 1..7 : Checks(s, group)[i][1]) => Usable(s)
           /\ Usable(s) => \A i \in (1..7) \ {3} : Checks(s, group)[i][1]
           /\ Checks(s, group)[1][1] => s.readable
           /\ Checks(s, group)[2][1] => s.port_range[1] \in 1..s.port_range[2]
           /\ ~Checks(s, group)[3][1] => s.group # "multicast"
<1> DEFINE c == Checks(s, group)
<1>1. s \in Config
  BY DiscoveryAssumption
<1>2. /\ s.readable \in BOOLEAN /\ s.port_range \in Nat \X Nat /\ s.least \in Nat
      /\ s.group \in {"multicast", "unicast", "unresolved", "name"}
      /\ s.outbound \in SUBSET {"ipv4", "blank", "other"}
      /\ s.log \in [number : Nat \cup {-1}, unit : {"b", "kb", "mb", "gb", "other"}]
  BY <1>1 DEF Config
<1>3. DOMAIN c = 1..7
  BY DEF Checks
<1>4. \A i \in 1..7 : c[i][2] = IF i = 3 THEN "MulticastFailed" ELSE "ConfigInvalid"
  BY DEF Checks
<1>5. /\ c[1][1] <=> s.readable
      /\ c[2][1] <=> validate_port_range(s.port_range)
      /\ c[3][1] <=> group = "multicast"
      /\ c[4][1] <=> validate_protocol(s.protocol)
      /\ c[5][1] <=> validate_positive(s.least)
      /\ c[6][1] <=> validate_multicast_outbound_ips(s.outbound)
      /\ c[7][1] <=> parse_log_size_bytes(s.log)
  BY <1>2 DEF Checks
<1> HIDE DEF c
<1>6. /\ validate_port_range(s.port_range) <=> s.port_range[1] \in 1..s.port_range[2]
      /\ validate_protocol(s.protocol) <=> s.protocol \in Transports
      /\ validate_positive(s.least) <=> s.least > 0
  BY <1>2 DEF validate_port_range, validate_protocol, validate_positive
<1>7. validate_multicast_outbound_ips(s.outbound) <=> "other" \notin s.outbound
  BY <1>2 DEF validate_multicast_outbound_ips
<1>8. parse_log_size_bytes(s.log) <=> SizeOk(s.log)
  BY <1>2, LogSize
<1>9. Usable(s) <=> /\ s.readable /\ s.port_range[1] \in 1..s.port_range[2]
                    /\ s.group \in {"multicast", "name"} /\ s.protocol \in Transports
                    /\ s.least > 0 /\ "other" \notin s.outbound /\ SizeOk(s.log)
  BY DEF Usable, SizeOk
<1>10. /\ group = "multicast" => s.group \in {"multicast", "name"}
       /\ group # "multicast" => s.group # "multicast"
  BY <1>2 DEF Resolved
<1>11. (\A i \in 1..7 : c[i][1]) => Usable(s)
  BY <1>5, <1>6, <1>7, <1>8, <1>9, <1>10
<1>12. ASSUME Usable(s), NEW i \in (1..7) \ {3} PROVE c[i][1]
  <2>1. c[1][1] /\ c[2][1] /\ c[4][1] /\ c[5][1] /\ c[6][1] /\ c[7][1]
    BY <1>5, <1>6, <1>7, <1>8, <1>9, <1>12
  <2>2. i = 1 \/ i = 2 \/ i = 4 \/ i = 5 \/ i = 6 \/ i = 7
    OBVIOUS
  <2> QED
    BY <2>1, <2>2
<1> QED
  BY <1>3, <1>4, <1>5, <1>6, <1>10, <1>11, <1>12 DEF c

(* Of the checks that fail, the first is reported. *)
LEMMA FirstFailed ==
    ASSUME NEW failed \in SUBSET (1..7), failed # {}
    PROVE  \E i \in failed : \A j \in failed : i <= j
<1> DEFINE P(i) == i \in failed
<1>1. PICK k \in failed : TRUE
  OBVIOUS
<1>2. k = 1 \/ k = 2 \/ k = 3 \/ k = 4 \/ k = 5 \/ k = 6 \/ k = 7
  OBVIOUS
<1>3. P(1) \/ P(2) \/ P(3) \/ P(4) \/ P(5) \/ P(6) \/ P(7)
  BY <1>1, <1>2
<1> QED
  BY <1>3

-----------------------------------------------------------------------------
(* The inductive invariants. *)

(* What is known of the configuration, by where the server is. *)
ConfigOK ==
    /\ main # "failed" => failure = ""
    /\ main \in {"group", "udp", "tcp", "collector", "running"} => Usable(settings)
    /\ failure \in {"PortExhausted", "NvmlUnavailable"} => Usable(settings)
    /\ failure = "MulticastFailed" =>
           /\ settings.group # "multicast" /\ settings.readable
           /\ settings.port_range[1] \in 1..settings.port_range[2]
    /\ failure = "ConfigInvalid" => ~Usable(settings) \/ settings.test_paths # {}

(* Port x is chosen as configured. *)
PortOK(x) == IF settings[x] = 0 THEN port[x] \in Range ELSE port[x] = settings[x]

(* What was tried so far, by where the choice of ports is. *)
ChoiceOK ==
    /\ main \in {"config", "group"} => port = [x \in Transports |-> 0] /\ tries = 0 /\ refused = {}
    /\ main \in Transports =>
           /\ port["tcp"] = 0 /\ IF main = "udp" THEN port["udp"] = 0 ELSE PortOK("udp")
           /\ offset \in 0..(Count - 1) /\ tries \in 0..Count
           /\ refused = {Candidate(i) : i \in 0..(tries - 1)}
    /\ main \in {"collector", "running"} =>
           PortOK("udp") /\ PortOK("tcp") /\ port["udp"] # port["tcp"]
    /\ failure = "PortExhausted" =>
           LET x == IF port["udp"] = 0 THEN "udp" ELSE "tcp"
           IN  refused = IF settings[x] = 0 THEN Range ELSE {settings[x]}

(* Only a running server answers discovery queries. *)
AnswersRunning == answering # "down" => main = "running"

(* What the announce thread has tried: every interface in the attempts before  *)
(* this one, in vain, and in this one those it no longer has left.             *)
AnnounceOK ==
    /\ main # "running" => announcer = Fresh /\ tried = {}
    /\ \A n \in 1..RetryLimit, i \in Interfaces :
           /\ <<n, i, "failed">> \in tried <=>
                \/ n < announcer.attempt
                \/ n = announcer.attempt /\ i \notin announcer.left /\ <<n, i, "sent">> \notin tried
           /\ <<n, i, "sent">> \in tried => n = announcer.attempt /\ i \notin announcer.left
    /\ announcer.sent <=> \E i \in Interfaces : <<announcer.attempt, i, "sent">> \in tried
    /\ announcer.sent => ThisServer \in wire
    /\ announcer.attempt > RetryLimit => announcer.left = {} /\ ~announcer.sent
    /\ announcer.over =>
           (announcer.left = {} /\ announcer.sent) \/ announcer.attempt > RetryLimit

IInv == TypeOK /\ AnswersRunning /\ ConfigOK /\ ChoiceOK /\ AnnounceOK

(* The constants that count something. *)
LEMMA Constants ==
    /\ MaxPort \in Nat \ {0} /\ RetryLimit \in Nat \ {0}
    /\ MaxTaken \in Nat /\ MaxRestarts \in Nat /\ Protocol \in Transports
BY DiscoveryAssumption

(* The settings of a start, and the ports of its range. *)
LEMMA SettingsFacts ==
    ASSUME TypeOK
    PROVE  /\ Lo \in 0..MaxPort /\ Hi \in 0..MaxPort /\ MaxPort \in Nat \ {0}
           /\ \A x \in Transports : settings[x] \in 0..MaxPort
           /\ Usable(settings) =>
                Lo \in 1..Hi /\ Count \in 1..MaxPort /\ Count \in Nat \ {0} /\ Range \subseteq Ports
<1>1. settings \in Settings
  BY DEF TypeOK
<1>2. /\ settings.port_range \in (0..MaxPort) \X (0..MaxPort) /\ MaxPort \in Nat \ {0}
      /\ settings.udp \in 0..MaxPort /\ settings.tcp \in 0..MaxPort
  BY <1>1, DiscoveryAssumption
<1>3. Lo \in 0..MaxPort /\ Hi \in 0..MaxPort
  BY <1>2 DEF Lo, Hi
<1>4. Usable(settings) => Lo \in 1..Hi
  BY DEF Usable, Lo, Hi
<1>5. Lo \in 1..Hi => Count \in 1..MaxPort /\ Count \in Nat \ {0} /\ Range \subseteq Ports
  BY <1>2, <1>3 DEF Count, Range, Ports
<1>6. \A x \in Transports : settings[x] \in 0..MaxPort
  BY <1>2 DEF Transports
<1> QED
  BY <1>2, <1>3, <1>4, <1>5, <1>6

(* Every candidate is a port of the range. *)
LEMMA CandidateInRange ==
    ASSUME TypeOK, Usable(settings), NEW i \in Nat
    PROVE  Candidate(i) \in Range /\ Candidate(i) \in Ports
<1>1. Count \in Nat \ {0} /\ Lo \in Nat /\ Hi = Lo + Count - 1 /\ Range \subseteq Ports
  BY SettingsFacts DEF Count
<1>2. offset + i \in Nat
  <2>1. offset \in 0..(MaxPort - 1)
    BY DEF TypeOK
  <2> QED
    BY <2>1, Constants
<1>3. (offset + i) % Count \in 0..(Count - 1)
  BY <1>1, <1>2
<1>4. Candidate(i) \in Range
  BY <1>1, <1>3 DEF Candidate, Range
<1> QED
  BY <1>1, <1>4

-----------------------------------------------------------------------------
(* A port that is chosen is a port. *)
LEMMA ChosenIsPort ==
    ASSUME TypeOK, Usable(settings), NEW x \in Transports, PortOK(x)
    PROVE  port[x] \in Ports /\ port[x] # 0
<1>1. Range \subseteq Ports /\ MaxPort \in Nat /\ settings[x] \in 0..MaxPort
  BY SettingsFacts
<1>2. CASE settings[x] = 0
  <2>1. port[x] \in Ports
    BY <1>1, <1>2 DEF PortOK
  <2> QED
    BY <1>1, <2>1 DEF Ports
<1>3. CASE settings[x] # 0
  <2>1. port[x] = settings[x] /\ settings[x] \in 0..MaxPort /\ settings[x] # 0
    BY <1>1, <1>3 DEF PortOK
  <2> QED
    BY <1>1, <2>1 DEF Ports
<1> QED
  BY <1>2, <1>3

(* A running server announces the two ports it chose. *)
LEMMA AnnouncesPorts ==
    ASSUME TypeOK, ConfigOK, ChoiceOK, main = "running"
    PROVE  ThisServer \in Announce
<1>1. Usable(settings) /\ PortOK("udp") /\ PortOK("tcp")
  BY DEF ConfigOK, ChoiceOK
<1>2. "udp" \in Transports /\ "tcp" \in Transports
  BY DEF Transports
<1>3. port["udp"] \in Ports /\ port["tcp"] \in Ports
  BY <1>1, <1>2, ChosenIsPort
<1> QED
  BY <1>3 DEF ThisServer, Announce

(* What the types say of the announce thread. *)
LEMMA AnnouncerType ==
    ASSUME TypeOK
    PROVE  /\ announcer \in [attempt : 1..(RetryLimit + 1), left : SUBSET Interfaces,
                             sent : BOOLEAN, over : BOOLEAN]
           /\ announcer.attempt \in Nat /\ announcer.attempt \in 1..(RetryLimit + 1)
           /\ RetryLimit \in Nat \ {0}
           /\ announcer.attempt \in 1..RetryLimit \/ announcer.attempt = RetryLimit + 1
           /\ tried \subseteq (1..RetryLimit) \X Interfaces \X {"sent", "failed"}
<1>1. announcer \in [attempt : 1..(RetryLimit + 1), left : SUBSET Interfaces,
                    sent : BOOLEAN, over : BOOLEAN]
      /\ tried \subseteq (1..RetryLimit) \X Interfaces \X {"sent", "failed"}
  BY DEF TypeOK
<1>2. announcer.attempt \in 1..(RetryLimit + 1)
  BY <1>1
<1> QED
  BY <1>1, <1>2, Constants

(* An interface whose turn is still to come leaves an attempt to make. *)
LEMMA TurnFacts ==
    ASSUME TypeOK, AnnounceOK, NEW i \in Interfaces, NEW outcome, Turn(i, outcome)
    PROVE  /\ announcer.attempt \in 1..RetryLimit /\ main = "running" /\ ~announcer.over
           /\ i \in announcer.left /\ UNCHANGED <<main, port>>
           /\ <<announcer.attempt, i, "sent">> \notin tried
           /\ <<announcer.attempt, i, "failed">> \notin tried
<1>1. i \in announcer.left /\ main = "running" /\ ~announcer.over /\ UNCHANGED <<main, port>>
  BY DEF Turn
<1>2. ~(announcer.attempt > RetryLimit)
  BY <1>1 DEF AnnounceOK
<1>3. announcer.attempt \in 1..RetryLimit
  BY <1>2, AnnouncerType
<1>4. ~(announcer.attempt < announcer.attempt)
  BY AnnouncerType
<1> QED
  BY <1>1, <1>3, <1>4 DEF AnnounceOK

(* Each action keeps the types. *)
LEMMA TypeStep ==
    TypeOK /\ AnswersRunning /\ ConfigOK /\ ChoiceOK /\ AnnounceOK /\ [Next]_vars => TypeOK'
<1> SUFFICES ASSUME TypeOK, AnswersRunning, ConfigOK, ChoiceOK, AnnounceOK, [Next]_vars
             PROVE  TypeOK'
  OBVIOUS
<1>0. /\ settings \in Settings /\ MaxPort \in Nat \ {0} /\ tries \in Nat
      /\ \A x \in Transports : settings[x] \in 0..MaxPort
      /\ Usable(settings) => Count \in 1..MaxPort /\ \A i \in Nat : Candidate(i) \in Ports
  <2>1. settings \in Settings /\ tries \in 0..MaxPort
    BY DEF TypeOK
  <2>2. tries \in Nat
    BY <2>1, Constants
  <2> QED
    BY <2>1, <2>2, SettingsFacts, CandidateInRange
<1>1. CASE LoadConfig
  <2>1. PICK group \in Resolved(settings.group) :
          LET checks == Checks(settings, group)
              failed == {i \in DOMAIN checks : ~checks[i][1]}
          IN IF failed = {} THEN main' = "group" /\ UNCHANGED failure
             ELSE Fail(checks[CHOOSE i \in failed : \A j \in failed : i <= j][2])
    BY <1>1 DEF LoadConfig
  <2> DEFINE checks == Checks(settings, group)
             failed == {i \in DOMAIN checks : ~checks[i][1]}
  <2>2. DOMAIN checks = 1..7
        /\ \A i \in 1..7 : checks[i][2] \in {"MulticastFailed", "ConfigInvalid"}
    BY <1>0, ChecksDecide
  <2>3. CASE failed = {}
    BY <1>1, <2>1, <2>3 DEF LoadConfig, TypeOK
  <2>4. CASE failed # {}
    <3>1. failed \in SUBSET (1..7)
      BY <2>2
    <3> DEFINE first == CHOOSE i \in failed : \A j \in failed : i <= j
    <3>2. first \in failed
      <4> HIDE DEF failed
      <4> QED
        BY <2>4, <3>1, FirstFailed
    <3>3. Fail(checks[first][2])
      BY <2>1, <2>4
    <3> HIDE DEF first
    <3>4. checks[first][2] \in {"MulticastFailed", "ConfigInvalid"}
      BY <2>2, <3>2
    <3> QED
      BY <1>1, <3>3, <3>4 DEF LoadConfig, Fail, TypeOK
  <2> QED
    BY <2>3, <2>4
<1>2. CASE ResolveGroup
  <2>1. Usable(settings)
    BY <1>2 DEF ConfigOK, ResolveGroup
  <2>2. 0..(Count - 1) \subseteq 0..(MaxPort - 1)
    BY <1>0, <2>1
  <2> QED
    BY <1>2, <2>2 DEF ResolveGroup, Fail, TypeOK
<1>3. ASSUME NEW x \in Transports, NEW p \in Ports, Chosen(x, p), main = x,
             UNCHANGED <<settings, taken, listener, answering, announcer, tried, asked, wire,
                         found, takes, restarts>>
      PROVE  TypeOK'
  <2>1. Usable(settings)
    BY <1>3 DEF ConfigOK, Transports
  <2>2. 0..(Count - 1) \subseteq 0..(MaxPort - 1) /\ 0 \in 0..MaxPort
    BY <1>0, <2>1
  <2>3. port' \in [Transports -> Ports \cup {0}]
    BY <1>3 DEF Chosen, TypeOK
  <2>4. offset' \in 0..(MaxPort - 1)
    BY <1>3, <2>2 DEF Chosen, TypeOK
  <2>5. main' \in {"tcp", "collector"} /\ tries' = 0 /\ refused' = {} /\ failure' = failure
    BY <1>3 DEF Chosen
  <2> QED
    BY <1>3, <2>2, <2>3, <2>4, <2>5 DEF TypeOK
<1>4. ASSUME NEW x \in Transports, PickRequested(x) PROVE TypeOK'
  <2>1. settings[x] \in Ports
    BY <1>0, <1>4 DEF PickRequested, Ports
  <2>2. CASE Free(x, settings[x])
    BY <1>3, <1>4, <2>1, <2>2 DEF PickRequested
  <2>3. CASE ~Free(x, settings[x])
    BY <1>4, <2>1, <2>3 DEF PickRequested, Fail, TypeOK
  <2> QED
    BY <2>2, <2>3
<1>5. ASSUME NEW x \in Transports, TryCandidate(x) PROVE TypeOK'
  <2>1. Usable(settings) /\ tries \in Nat
    BY <1>0, <1>5 DEF ConfigOK, TryCandidate, Transports
  <2>2. Candidate(tries) \in Ports /\ tries + 1 \in 0..MaxPort
    BY <1>0, <1>5, <2>1 DEF TryCandidate
  <2>3. CASE Free(x, Candidate(tries))
    BY <1>3, <1>5, <2>2, <2>3 DEF TryCandidate
  <2>4. CASE ~Free(x, Candidate(tries))
    BY <1>5, <2>2, <2>4 DEF TryCandidate, TypeOK
  <2> QED
    BY <2>3, <2>4
<1>6. ASSUME NEW x \in Transports, PortExhausted(x) PROVE TypeOK'
  BY <1>6 DEF PortExhausted, Fail, TypeOK
<1>7. CASE BuildCollector
  BY <1>7 DEF BuildCollector, Fail, TypeOK
<1>8. ASSUME NEW x \in Transports, Bind(x) PROVE TypeOK'
  BY <1>8 DEF Bind, TypeOK
<1>9. CASE Join
  BY <1>9 DEF Join, TypeOK
<1>10. CASE AnswerQuery
  <2>1. ThisServer \in Announce
    BY <1>10, AnnouncesPorts DEF AnswerQuery, AnswersRunning
  <2> QED
    BY <1>10, <2>1 DEF AnswerQuery, serverVars, TypeOK
<1>11. ASSUME NEW i \in Interfaces, SendAnnounce(i) PROVE TypeOK'
  <2>1. ThisServer \in Announce
    BY <1>11, AnnouncesPorts DEF SendAnnounce, Turn
  <2>2. announcer' \in [attempt : 1..(RetryLimit + 1), left : SUBSET Interfaces,
                        sent : BOOLEAN, over : BOOLEAN]
    <3>1. announcer \in [attempt : 1..(RetryLimit + 1), left : SUBSET Interfaces,
                         sent : BOOLEAN, over : BOOLEAN]
      BY DEF TypeOK
    <3>2. \/ announcer' = [announcer EXCEPT !.left = @ \ {i}, !.sent = TRUE]
          \/ announcer' = [announcer EXCEPT !.left = @ \ {i}]
      BY <1>11 DEF SendAnnounce
    <3> QED
      BY <3>1, <3>2
  <2>3. PICK outcome \in {"sent", "failed"} : Turn(i, outcome)
    BY <1>11 DEF SendAnnounce
  <2>4. wire' \subseteq Announce
    BY <2>1, <2>3 DEF Turn, TypeOK
  <2>5. tried' \subseteq (1..RetryLimit) \X Interfaces \X {"sent", "failed"}
    <3>1. announcer.attempt \in 1..RetryLimit
      BY <2>3, TurnFacts
    <3>2. tried' = tried \cup {<<announcer.attempt, i, outcome>>}
      BY <2>3 DEF Turn
    <3> QED
      BY <3>1, <3>2, AnnouncerType
  <2> QED
    BY <2>2, <2>3, <2>4, <2>5 DEF Turn, TypeOK
<1>12. CASE EndAnnounce
  BY <1>12 DEF EndAnnounce, TypeOK
<1>13. CASE NextAttempt
  <2>1. announcer \in [attempt : 1..(RetryLimit + 1), left : SUBSET Interfaces,
                       sent : BOOLEAN, over : BOOLEAN]
    BY DEF TypeOK
  <2>2. announcer' \in [attempt : 1..(RetryLimit + 1), left : SUBSET Interfaces,
                        sent : BOOLEAN, over : BOOLEAN]
    <3>1. announcer' = [announcer EXCEPT !.attempt = @ + 1,
                          !.left = IF announcer.attempt = RetryLimit THEN {} ELSE Interfaces]
          /\ announcer.attempt <= RetryLimit
      BY <1>13 DEF NextAttempt
    <3>2. announcer.attempt + 1 \in 1..(RetryLimit + 1)
      BY <2>1, <3>1, Constants
    <3> QED
      BY <2>1, <3>1, <3>2
  <2> QED
    BY <1>13, <2>2 DEF NextAttempt, TypeOK
<1>14. CASE Ask
  BY <1>14 DEF Ask, serverVars, TypeOK
<1>15. ASSUME NEW a \in wire, Receive(a) PROVE TypeOK'
  <2>1. a[Protocol] \in Ports
    BY DiscoveryAssumption DEF TypeOK, Announce, Transports
  <2> QED
    BY <1>15, <2>1 DEF Receive, NodePort, serverVars, TypeOK
<1>16. ASSUME NEW x \in Transports, NEW p \in Ports, Take(x, p) \/ Release(x, p) PROVE TypeOK'
  <2>1. taken' \in [Transports -> SUBSET Ports]
    <3>1. taken \in [Transports -> SUBSET Ports]
      BY DEF TypeOK
    <3>2. taken' = [taken EXCEPT ![x] = @ \cup {p}] \/ taken' = [taken EXCEPT ![x] = @ \ {p}]
      BY <1>16 DEF Take, Release
    <3> QED
      BY <3>1, <3>2
  <2>2. takes' \in 0..MaxTaken
    <3>1. takes \in 0..MaxTaken /\ (takes' = takes \/ (takes < MaxTaken /\ takes' = takes + 1))
      BY <1>16 DEF Take, Release, TypeOK
    <3> QED
      BY <3>1, Constants
  <2> QED
    BY <1>16, <2>1, <2>2 DEF Take, Release, serverVars, TypeOK
<1>17. CASE Restart
  <2>1. announcer' \in [attempt : 1..(RetryLimit + 1), left : SUBSET Interfaces,
                        sent : BOOLEAN, over : BOOLEAN]
    <3>1. announcer' = Fresh
      BY <1>17 DEF Restart, Startup
    <3>2. 1 \in 1..(RetryLimit + 1)
      BY Constants
    <3> QED
      BY <3>1, <3>2 DEF Fresh
  <2>2. 0 \in 0..(MaxPort - 1) /\ 0 \in 0..MaxPort /\ restarts' \in 0..MaxRestarts
    <3>1. restarts \in 0..MaxRestarts /\ restarts < MaxRestarts /\ restarts' = restarts + 1
      BY <1>17 DEF Restart, TypeOK
    <3> QED
      BY <3>1, Constants
  <2>3. port' \in [Transports -> Ports \cup {0}]
        /\ listener' \in [Transports -> {"down", "up", "dead"}]
    BY <1>17 DEF Restart, Startup
  <2> QED
    BY <1>17, <2>1, <2>2, <2>3 DEF Restart, Startup, TypeOK
<1>18. CASE UNCHANGED vars
  BY <1>18 DEF vars, serverVars, TypeOK
<1> QED
  BY <1>1, <1>2, <1>4, <1>5, <1>6, <1>7, <1>8, <1>9, <1>10, <1>11, <1>12, <1>13, <1>14, <1>15,
     <1>16, <1>17, <1>18 DEF Next

(* Only Join makes a server answer, and only a running one joins. *)
LEMMA AnswersRunningStep == TypeOK /\ AnswersRunning /\ [Next]_vars => AnswersRunning'
<1> SUFFICES ASSUME TypeOK, AnswersRunning, [Next]_vars PROVE AnswersRunning'
  OBVIOUS
<1>1. ASSUME answering' # answering PROVE AnswersRunning'
  BY <1>1 DEF Next, vars, serverVars, AnswersRunning, LoadConfig, ResolveGroup, BuildCollector,
     PickRequested, TryCandidate, PortExhausted, Bind, Join, AnswerQuery, SendAnnounce, Turn,
     EndAnnounce, NextAttempt, Ask, Receive, Take, Release, Restart, Startup
<1>2. ASSUME main = "running", ~Restart PROVE main' = "running"
  BY <1>2 DEF Next, vars, serverVars, LoadConfig, ResolveGroup, BuildCollector,
     PickRequested, TryCandidate, PortExhausted, Bind, Join, AnswerQuery, SendAnnounce, Turn,
     EndAnnounce, NextAttempt, Ask, Receive, Take, Release, Transports
<1>3. CASE Restart
  BY <1>3 DEF Restart, Startup, AnswersRunning
<1> QED
  BY <1>1, <1>2, <1>3 DEF AnswersRunning

(* A turn takes its interface from the attempt, and leaves the outcomes of *)
(* the others.                                                             *)
LEMMA SendStep ==
    ASSUME TypeOK, AnnounceOK, NEW i \in Interfaces, SendAnnounce(i)
    PROVE  AnnounceOK'
<1> DEFINE at == announcer.attempt
<1>1. PICK outcome \in {"sent", "failed"} :
          /\ Turn(i, outcome)
          /\ announcer' = IF outcome = "sent"
                          THEN [announcer EXCEPT !.left = @ \ {i}, !.sent = TRUE]
                          ELSE [announcer EXCEPT !.left = @ \ {i}]
  BY DEF SendAnnounce
<1>2. /\ at \in 1..RetryLimit /\ main = "running" /\ ~announcer.over
      /\ i \in announcer.left /\ UNCHANGED <<main, port>>
      /\ <<at, i, "sent">> \notin tried /\ <<at, i, "failed">> \notin tried
  BY <1>1, TurnFacts
<1>3. /\ wire' = IF outcome = "sent" THEN wire \cup {ThisServer} ELSE wire
      /\ tried' = tried \cup {<<at, i, outcome>>}
  BY <1>1 DEF Turn
<1>4. /\ announcer'.attempt = at /\ announcer'.left = announcer.left \ {i}
      /\ announcer'.sent <=> announcer.sent \/ outcome = "sent"
      /\ ~announcer'.over
  BY <1>1, <1>2, AnnouncerType
<1>5. RetryLimit \in Nat /\ ~(at > RetryLimit) /\ ~(at < at)
  BY <1>2, AnnouncerType
<1> HIDE DEF at
<1>6. ASSUME NEW n \in 1..RetryLimit, NEW j \in Interfaces, NEW b \in {"sent", "failed"}
      PROVE  <<n, j, b>> \in tried' <=>
                 <<n, j, b>> \in tried \/ (n = at /\ j = i /\ b = outcome)
  BY <1>3
<1>7. ASSUME NEW n \in 1..RetryLimit, NEW j \in Interfaces
      PROVE  /\ <<n, j, "failed">> \in tried' <=>
                   \/ n < announcer'.attempt
                   \/ /\ n = announcer'.attempt /\ j \notin announcer'.left
                      /\ <<n, j, "sent">> \notin tried'
             /\ <<n, j, "sent">> \in tried' => n = announcer'.attempt /\ j \notin announcer'.left
  <2>1. /\ <<n, j, "failed">> \in tried <=>
             \/ n < at
             \/ n = at /\ j \notin announcer.left /\ <<n, j, "sent">> \notin tried
        /\ <<n, j, "sent">> \in tried => n = at /\ j \notin announcer.left
    BY DEF AnnounceOK, at
  <2>2. /\ <<n, j, "failed">> \in tried' <=>
             <<n, j, "failed">> \in tried \/ (n = at /\ j = i /\ outcome = "failed")
        /\ <<n, j, "sent">> \in tried' <=>
             <<n, j, "sent">> \in tried \/ (n = at /\ j = i /\ outcome = "sent")
    BY <1>6
  <2>3. CASE n = at /\ j = i
    BY <1>1, <1>2, <1>4, <1>5, <2>2, <2>3 DEF at
  <2>4. CASE ~(n = at /\ j = i)
    BY <1>4, <2>1, <2>2, <2>4
  <2> QED
    BY <2>3, <2>4
<1>8. announcer'.sent <=> \E j \in Interfaces : <<announcer'.attempt, j, "sent">> \in tried'
  <2>1. announcer.sent <=> \E j \in Interfaces : <<at, j, "sent">> \in tried
    BY DEF AnnounceOK, at
  <2>2. \A j \in Interfaces :
            <<at, j, "sent">> \in tried' <=>
                <<at, j, "sent">> \in tried \/ (j = i /\ outcome = "sent")
    BY <1>2, <1>6
  <2> QED
    BY <1>4, <2>1, <2>2
<1>9. announcer'.sent => ThisServer' \in wire'
  BY <1>2, <1>3, <1>4 DEF AnnounceOK, ThisServer
<1> QED
  BY <1>2, <1>4, <1>5, <1>7, <1>8, <1>9 DEF AnnounceOK

(* An attempt that reached no interface has failed on every one of them.   *)
LEMMA NextStep ==
    ASSUME TypeOK, AnnounceOK, NextAttempt
    PROVE  AnnounceOK'
<1> DEFINE at == announcer.attempt
<1>1. /\ announcer \in [attempt : 1..(RetryLimit + 1), left : SUBSET Interfaces,
                        sent : BOOLEAN, over : BOOLEAN]
      /\ main = "running" /\ ~announcer.over /\ UNCHANGED <<main, port, tried, wire>>
      /\ announcer.left = {} /\ ~announcer.sent /\ at \in 1..RetryLimit
      /\ announcer' = [announcer EXCEPT !.attempt = @ + 1,
                                        !.left = IF at = RetryLimit THEN {} ELSE Interfaces]
  <2>1. /\ announcer.left = {} /\ ~announcer.sent /\ ~(at > RetryLimit)
        /\ main = "running" /\ ~announcer.over /\ UNCHANGED <<main, port, tried, wire>>
        /\ announcer' = [announcer EXCEPT !.attempt = @ + 1,
                                          !.left = IF at = RetryLimit THEN {} ELSE Interfaces]
    <3>1. at <= RetryLimit => ~(at > RetryLimit)
      BY AnnouncerType
    <3> QED
      BY <3>1 DEF NextAttempt, AttemptOver
  <2> QED
    BY <2>1, AnnouncerType
<1>2. /\ announcer'.attempt = at + 1 /\ ~announcer'.sent /\ ~announcer'.over
      /\ announcer'.left = IF at = RetryLimit THEN {} ELSE Interfaces
  BY <1>1
<1>3. \A n \in 1..RetryLimit, i \in Interfaces :
          <<n, i, "sent">> \notin tried /\ (<<n, i, "failed">> \in tried <=> n < at + 1)
  <2> SUFFICES ASSUME NEW n \in 1..RetryLimit, NEW i \in Interfaces
               PROVE  <<n, i, "sent">> \notin tried /\ (<<n, i, "failed">> \in tried <=> n < at + 1)
    OBVIOUS
  <2>1. /\ <<n, i, "failed">> \in tried <=> n < at \/ (n = at /\ <<n, i, "sent">> \notin tried)
        /\ <<n, i, "sent">> \in tried => n = at
        /\ <<at, i, "sent">> \notin tried
    BY <1>1 DEF AnnounceOK
  <2>2. n < at + 1 <=> n < at \/ n = at
    BY <1>1
  <2> QED
    BY <2>1, <2>2
<1>4. \A i \in Interfaces : <<at + 1, i, "sent">> \notin tried
  <2>1. tried \subseteq (1..RetryLimit) \X Interfaces \X {"sent", "failed"}
    BY DEF TypeOK
  <2> QED
    BY <1>3, <2>1
<1>5. at + 1 > RetryLimit => announcer'.left = {}
  BY <1>1, <1>2, Constants
<1>6. \A n \in 1..RetryLimit, i \in Interfaces : n = at + 1 => i \in announcer'.left
  BY <1>1, <1>2
<1> HIDE DEF at
<1> QED
  BY <1>1, <1>2, <1>3, <1>4, <1>5, <1>6 DEF AnnounceOK

(* The announce thread of a start goes through interfaces and attempts. *)
LEMMA AnnounceStep == TypeOK /\ AnnounceOK /\ [Next]_vars => AnnounceOK'
<1> SUFFICES ASSUME TypeOK, AnnounceOK, [Next]_vars PROVE AnnounceOK'
  OBVIOUS
<1>0. ASSUME announcer' = Fresh, tried' = {} PROVE AnnounceOK'
  BY <1>0, Constants DEF AnnounceOK, Fresh
<1>1. ASSUME NEW i \in Interfaces, SendAnnounce(i) PROVE AnnounceOK'
  BY <1>1, SendStep
<1>2. CASE EndAnnounce
  <2>1. /\ (announcer.left = {} /\ announcer.sent) \/ announcer.attempt > RetryLimit
        /\ announcer' = [announcer EXCEPT !.over = TRUE] /\ UNCHANGED <<main, port, tried, wire>>
        /\ main = "running"
    BY <1>2 DEF EndAnnounce, AttemptOver
  <2>2. announcer'.attempt = announcer.attempt /\ announcer'.left = announcer.left
        /\ (announcer'.sent <=> announcer.sent)
    BY <2>1, AnnouncerType
  <2>3. ThisServer' = ThisServer /\ main' = main /\ tried' = tried /\ wire' = wire
    BY <2>1 DEF ThisServer
  <2> QED
    BY <2>1, <2>2, <2>3 DEF AnnounceOK
<1>3. CASE NextAttempt
  BY <1>3, NextStep
<1>4. CASE Restart
  BY <1>0, <1>4 DEF Restart, Startup
<1>5. CASE UNCHANGED <<announcer, tried>> /\ main # "running"
  BY <1>0, <1>5 DEF AnnounceOK
<1>6. CASE UNCHANGED <<announcer, tried, main, port>> /\ wire \subseteq wire'
  BY <1>6 DEF AnnounceOK, ThisServer
<1> QED
  BY <1>1, <1>2, <1>3, <1>4, <1>5, <1>6 DEF Next, vars, serverVars, LoadConfig, ResolveGroup,
     BuildCollector, PickRequested, TryCandidate, PortExhausted, Bind, Join, AnswerQuery, Ask,
     Receive, Take, Release, Transports

-----------------------------------------------------------------------------
(* What LoadConfig ends with. *)
LEMMA LoadConfigEnds ==
    ASSUME TypeOK, LoadConfig
    PROVE  \/ main' = "group" /\ failure' = failure /\ Usable(settings)
           \/ main' = "failed" /\ failure' = "ConfigInvalid" /\ ~Usable(settings)
           \/ /\ main' = "failed" /\ failure' = "MulticastFailed"
              /\ settings.group # "multicast" /\ settings.readable
              /\ settings.port_range[1] \in 1..settings.port_range[2]
<1>1. PICK group \in Resolved(settings.group) :
        LET checks == Checks(settings, group)
            failed == {i \in DOMAIN checks : ~checks[i][1]}
        IN IF failed = {} THEN main' = "group" /\ UNCHANGED failure
           ELSE Fail(checks[CHOOSE i \in failed : \A j \in failed : i <= j][2])
  BY DEF LoadConfig
<1> DEFINE checks == Checks(settings, group)
           failed == {i \in DOMAIN checks : ~checks[i][1]}
<1>2. settings \in Settings
  BY DEF TypeOK
<1>3. /\ DOMAIN checks = 1..7
      /\ \A i \in 1..7 : checks[i][2] = IF i = 3 THEN "MulticastFailed" ELSE "ConfigInvalid"
      /\ (\A i \in 1..7 : checks[i][1]) => Usable(settings)
      /\ Usable(settings) => \A i \in (1..7) \ {3} : checks[i][1]
      /\ checks[1][1] => settings.readable
      /\ checks[2][1] => settings.port_range[1] \in 1..settings.port_range[2]
      /\ ~checks[3][1] => settings.group # "multicast"
  BY <1>2, ChecksDecide
<1>4. CASE failed = {}
  <2>1. main' = "group" /\ UNCHANGED failure
    BY <1>1, <1>4
  <2> HIDE DEF checks
  <2>2. \A i \in 1..7 : checks[i][1]
    BY <1>3, <1>4
  <2> QED
    BY <1>3, <2>1, <2>2
<1>5. CASE failed # {}
  <2> DEFINE first == CHOOSE i \in failed : \A j \in failed : i <= j
  <2>1. Fail(checks[first][2])
    BY <1>1, <1>5
  <2>2. first \in failed /\ \A j \in failed : first <= j
    <3>1. failed \in SUBSET (1..7)
      BY <1>3
    <3> HIDE DEF failed
    <3> QED
      BY <1>5, <3>1, FirstFailed
  <2> HIDE DEF first, checks
  <2>3. first \in 1..7 /\ ~checks[first][1]
    BY <1>3, <2>2
  <2>4. \A j \in 1..7 : j < first => checks[j][1]
    <3> SUFFICES ASSUME NEW j \in 1..7, j < first, ~checks[j][1] PROVE FALSE
      OBVIOUS
    <3>1. first <= j
      BY <1>3, <2>2
    <3> QED
      BY <2>3, <3>1
  <2>5. CASE first = 3
    <3>1. checks[1][1] /\ checks[2][1] /\ ~checks[3][1]
      BY <2>3, <2>4, <2>5
    <3> QED
      BY <1>3, <2>1, <2>5, <3>1 DEF Fail
  <2>6. CASE first # 3
    <3>1. ~Usable(settings)
      BY <1>3, <2>3, <2>6
    <3> QED
      BY <1>3, <2>1, <2>3, <2>6, <3>1 DEF Fail
  <2> QED
    BY <2>5, <2>6
<1> QED
  BY <1>4, <1>5

(* The checks are passed one after the other, and stay passed. *)
LEMMA ConfigStep == TypeOK /\ ConfigOK /\ [Next]_vars => ConfigOK'
<1> SUFFICES ASSUME TypeOK, ConfigOK, [Next]_vars PROVE ConfigOK'
  OBVIOUS
<1>1. CASE LoadConfig
  <2>1. settings' = settings /\ failure = ""
    BY <1>1 DEF LoadConfig, ConfigOK
  <2> QED
    BY <1>1, <2>1, LoadConfigEnds DEF ConfigOK, Usable
<1>2. CASE ResolveGroup
  <2>1. settings' = settings /\ failure = "" /\ Usable(settings)
    BY <1>2 DEF ResolveGroup, ConfigOK
  <2>2. \/ main' = "udp" /\ failure' = failure
        \/ main' = "failed" /\ failure' = "MulticastFailed" /\ settings.group # "multicast"
    BY <1>2 DEF ResolveGroup, Resolved, Fail
  <2>3. settings.readable /\ settings.port_range[1] \in 1..settings.port_range[2]
    BY <2>1 DEF Usable
  <2> QED
    BY <2>1, <2>2, <2>3 DEF ConfigOK, Usable
<1>3. ASSUME NEW x \in Transports, PickRequested(x) \/ TryCandidate(x) \/ PortExhausted(x)
      PROVE  ConfigOK'
  <2>1. settings' = settings /\ failure = "" /\ Usable(settings)
    BY <1>3 DEF PickRequested, TryCandidate, PortExhausted, ConfigOK, Transports
  <2>2. \/ main' \in {"udp", "tcp", "collector"} /\ failure' = failure
        \/ main' = "failed" /\ failure' = "PortExhausted"
    BY <1>3 DEF PickRequested, TryCandidate, PortExhausted, Chosen, Fail, Transports
  <2> QED
    BY <2>1, <2>2 DEF ConfigOK, Usable
<1>4. CASE BuildCollector
  <2>1. settings' = settings /\ failure = "" /\ Usable(settings)
    BY <1>4 DEF BuildCollector, ConfigOK
  <2>2. \/ main' = "running" /\ failure' = failure
        \/ main' = "failed" /\ failure' = "ConfigInvalid" /\ settings.test_paths # {}
        \/ main' = "failed" /\ failure' = "NvmlUnavailable"
    BY <1>4 DEF BuildCollector, Fail
  <2> QED
    BY <2>1, <2>2 DEF ConfigOK, Usable
<1>5. CASE Restart
  BY <1>5 DEF Restart, Startup, ConfigOK
<1>6. CASE UNCHANGED <<settings, main, failure>>
  BY <1>6 DEF ConfigOK, Usable
<1> QED
  BY <1>1, <1>2, <1>3, <1>4, <1>5, <1>6 DEF Next, vars, serverVars, Bind, Join, AnswerQuery,
     SendAnnounce, Turn, EndAnnounce, NextAttempt, Ask, Receive, Take, Release

(* One port after the other. *)
LEMMA ChoiceStep == TypeOK /\ ConfigOK /\ ChoiceOK /\ [Next]_vars => ChoiceOK'
<1> SUFFICES ASSUME TypeOK, ConfigOK, ChoiceOK, [Next]_vars PROVE ChoiceOK'
  OBVIOUS
<1>0. ASSUME settings' = settings
      PROVE  /\ Lo' = Lo /\ Hi' = Hi /\ Count' = Count /\ Range' = Range
             /\ \A x \in Transports : port'[x] = port[x] /\ PortOK(x) => PortOK(x)'
  BY <1>0 DEF Lo, Hi, Count, Range, PortOK
<1>1. CASE LoadConfig
  BY <1>1, LoadConfigEnds DEF LoadConfig, ChoiceOK, ConfigOK, Transports
<1>2. CASE ResolveGroup
  <2>1. /\ settings' = settings /\ port' = port /\ tries' = tries /\ refused' = refused
        /\ port = [x \in Transports |-> 0] /\ tries = 0 /\ refused = {}
    BY <1>2 DEF ResolveGroup, ChoiceOK
  <2>2. \/ main' = "udp" /\ failure' = "" /\ offset' \in 0..(Count - 1)
        \/ main' = "failed" /\ failure' = "MulticastFailed"
    BY <1>2 DEF ResolveGroup, Fail, ConfigOK
  <2>3. Usable(settings)
    BY <1>2 DEF ResolveGroup, ConfigOK
  <2>4. Count \in Nat /\ Count' = Count
    BY <1>0, <2>1, <2>3, SettingsFacts
  <2>5. refused' = {Candidate(i)' : i \in 0..(tries' - 1)} /\ tries' \in 0..Count
    BY <2>1, <2>4
  <2>6. port'["udp"] = 0 /\ port'["tcp"] = 0
    BY <2>1 DEF Transports
  <2>7. CASE main' = "udp" /\ failure' = "" /\ offset' \in 0..(Count - 1)
    BY <2>4, <2>5, <2>6, <2>7 DEF ChoiceOK
  <2>8. CASE main' = "failed" /\ failure' = "MulticastFailed"
    BY <2>8 DEF ChoiceOK, Transports
  <2> QED
    BY <2>2, <2>7, <2>8
<1>3. ASSUME NEW x \in Transports, NEW p, main = x, Free(x, p), Chosen(x, p), settings' = settings,
             IF settings[x] = 0 THEN p \in Range ELSE p = settings[x]
      PROVE  ChoiceOK'
  <2>1. /\ port' = [port EXCEPT ![x] = p] /\ tries' = 0 /\ refused' = {} /\ failure' = ""
        /\ main' = IF x = "udp" THEN "tcp" ELSE "collector"
    BY <1>3 DEF Chosen, ConfigOK, Transports
  <2>2. port'[x] = p /\ \A y \in Transports \ {x} : port'[y] = port[y]
    BY <2>1 DEF TypeOK
  <2>3. PortOK(x)'
    BY <1>0, <1>3, <2>2 DEF PortOK
  <2>4. CASE x = "udp"
    <3>1. offset' \in 0..(Count - 1) /\ Count' = Count
      BY <1>0, <1>3, <2>4 DEF Chosen
    <3>2. Count \in Nat /\ tries' \in 0..Count
      <4>1. Usable(settings)
        BY <1>3, <2>4 DEF ConfigOK
      <4>2. Count \in Nat
        BY <4>1, SettingsFacts
      <4>3. tries' = 0
        BY <2>1
      <4> QED
        BY <4>2, <4>3
    <3>3. port'["tcp"] = 0
      <4>1. port["tcp"] = 0
        BY <1>3, <2>4 DEF ChoiceOK, Transports
      <4> QED
        BY <2>2, <2>4, <4>1 DEF Transports
    <3>4. refused' = {Candidate(i)' : i \in 0..(tries' - 1)}
      <4>1. tries' = 0 /\ refused' = {}
        BY <2>1
      <4>2. 0..(tries' - 1) = {}
        BY <4>1
      <4> QED
        BY <4>1, <4>2
    <3>5. main' = "tcp" /\ failure' = ""
      BY <2>1, <2>4
    <3> QED
      BY <2>3, <2>4, <3>1, <3>2, <3>3, <3>4, <3>5 DEF ChoiceOK
  <2>5. CASE x = "tcp"
    <3>1. PortOK("udp") /\ port'["udp"] = port["udp"]
      BY <1>3, <2>2, <2>5 DEF ChoiceOK, Transports
    <3>2. PortOK("udp")'
      BY <1>0, <1>3, <3>1 DEF Transports
    <3>3. p # port["udp"]
      BY <1>3, <2>5 DEF Free, Excluded
    <3> QED
      BY <2>1, <2>2, <2>3, <2>5, <3>1, <3>2, <3>3 DEF ChoiceOK, Transports
  <2> QED
    BY <2>4, <2>5 DEF Transports
<1>4. ASSUME NEW x \in Transports, main = x, main' = "failed", failure' = "PortExhausted",
             UNCHANGED <<settings, port>>, refused' = IF settings[x] = 0 THEN Range ELSE {settings[x]}
      PROVE  ChoiceOK'
  <2>1. x = IF port["udp"] = 0 THEN "udp" ELSE "tcp"
    <3>1. CASE x = "udp"
      BY <1>4, <3>1 DEF ChoiceOK, Transports
    <3>2. CASE x = "tcp"
      <4>1. PortOK("udp") /\ Usable(settings)
        BY <1>4, <3>2 DEF ChoiceOK, ConfigOK, Transports
      <4>2. port["udp"] # 0
        BY <4>1, ChosenIsPort DEF Transports
      <4> QED
        BY <3>2, <4>2
    <3> QED
      BY <3>1, <3>2 DEF Transports
  <2>2. x = IF port'["udp"] = 0 THEN "udp" ELSE "tcp"
    BY <1>4, <2>1
  <2>3. Range' = Range
    BY <1>0, <1>4
  <2> QED
    BY <1>4, <2>2, <2>3 DEF ChoiceOK, Transports
<1>5. ASSUME NEW x \in Transports, PickRequested(x) PROVE ChoiceOK'
  <2>1. CASE Free(x, settings[x])
    BY <1>3, <1>5, <2>1 DEF PickRequested
  <2>2. CASE ~Free(x, settings[x])
    BY <1>4, <1>5, <2>2 DEF PickRequested, Fail
  <2> QED
    BY <2>1, <2>2
<1>6. ASSUME NEW x \in Transports, TryCandidate(x) PROVE ChoiceOK'
  <2>1. /\ main = x /\ settings[x] = 0 /\ tries < Count /\ settings' = settings
        /\ Usable(settings) /\ failure = ""
    BY <1>6 DEF TryCandidate, ConfigOK, Transports
  <2>2. /\ tries \in 0..Count /\ refused = {Candidate(i) : i \in 0..(tries - 1)}
        /\ offset \in 0..(Count - 1)
    BY <2>1 DEF ChoiceOK
  <2>3. Candidate(tries) \in Range /\ tries \in Nat /\ Count \in Nat
    <3>1. Count \in Nat
      BY <2>1, SettingsFacts
    <3>2. tries \in Nat
      BY <2>2, <3>1
    <3> QED
      BY <2>1, <3>1, <3>2, CandidateInRange
  <2>4. CASE Free(x, Candidate(tries))
    BY <1>3, <1>6, <2>1, <2>3, <2>4 DEF TryCandidate
  <2>5. CASE ~Free(x, Candidate(tries))
    <3>1. /\ refused' = refused \cup {Candidate(tries)} /\ tries' = tries + 1
          /\ UNCHANGED <<main, failure, port, offset>>
      BY <1>6, <2>5 DEF TryCandidate
    <3>2. \A i : Candidate(i)' = Candidate(i)
      BY <1>0, <2>1, <3>1 DEF Candidate
    <3>3. 0..(tries' - 1) = (0..(tries - 1)) \cup {tries} /\ tries' \in 0..Count
      <4>1. tries \in Nat /\ Count \in Nat /\ tries < Count /\ tries' = tries + 1
        BY <2>1, <2>3, <3>1
      <4>2. tries' \in 0..Count
        BY <4>1
      <4>3. \A i : i \in 0..(tries' - 1) <=> i \in (0..(tries - 1)) \cup {tries}
        BY <4>1
      <4> QED
        BY <4>2, <4>3, Zenon
    <3>4. refused' = {Candidate(i) : i \in 0..(tries' - 1)}
      BY <2>2, <3>1, <3>3
    <3>5. refused' = {Candidate(i)' : i \in 0..(tries' - 1)}
      BY <3>2, <3>4
    <3>6. Count' = Count /\ (PortOK("udp") => PortOK("udp")')
      BY <1>0, <2>1, <3>1 DEF Transports
    <3> QED
      BY <2>1, <2>2, <3>1, <3>3, <3>5, <3>6 DEF ChoiceOK, Transports
  <2> QED
    BY <2>4, <2>5
<1>7. ASSUME NEW x \in Transports, PortExhausted(x) PROVE ChoiceOK'
  <2>1. /\ main = x /\ settings[x] = 0 /\ tries = Count /\ Usable(settings)
        /\ main' = "failed" /\ failure' = "PortExhausted"
        /\ UNCHANGED <<settings, port, refused>>
    BY <1>7 DEF PortExhausted, Fail, ConfigOK, Transports
  <2>2. refused = {Candidate(i) : i \in 0..(Count - 1)} /\ offset \in 0..(Count - 1)
    BY <2>1 DEF ChoiceOK
  <2>3. refused = Range
    <3>1. Lo \in Nat /\ Hi \in Nat /\ Lo <= Hi /\ Count - 1 = Hi - Lo
      BY <2>1, SettingsFacts DEF Count
    <3>2. offset \in 0..(Hi - Lo)
      BY <2>2, <3>1
    <3>3. {Lo + ((offset + i) % (Hi - Lo + 1)) : i \in 0..(Hi - Lo)} = Lo..Hi
      BY <3>1, <3>2, CandidatesCover
    <3>4. refused = {Lo + ((offset + i) % (Hi - Lo + 1)) : i \in 0..(Hi - Lo)}
      BY <2>2, <3>1 DEF Candidate, Count
    <3> QED
      BY <3>3, <3>4 DEF Range
  <2> QED
    BY <1>4, <2>1, <2>3
<1>8. CASE BuildCollector
  <2>1. /\ settings' = settings /\ port' = port /\ main = "collector"
        /\ \/ main' = "running" /\ failure' = ""
           \/ main' = "failed" /\ failure' \in {"ConfigInvalid", "NvmlUnavailable"}
    BY <1>8 DEF BuildCollector, Fail, ConfigOK
  <2>2. /\ PortOK("udp") => PortOK("udp")'
        /\ PortOK("tcp") => PortOK("tcp")'
    BY <1>0, <2>1 DEF Transports
  <2> QED
    BY <2>1, <2>2 DEF ChoiceOK, Transports
<1>9. CASE Restart
  BY <1>9 DEF Restart, Startup, ChoiceOK, Transports
<1>10. CASE UNCHANGED <<settings, main, failure, port, offset, tries, refused>>
  BY <1>10 DEF ChoiceOK, PortOK, Range, Lo, Hi, Count, Candidate
<1> QED
  BY <1>1, <1>2, <1>5, <1>6, <1>7, <1>8, <1>9, <1>10 DEF Next, vars, serverVars, Bind, Join,
     AnswerQuery, SendAnnounce, Turn, EndAnnounce, NextAttempt, Ask, Receive, Take, Release

-----------------------------------------------------------------------------
(* The invariant holds before the first start. *)
LEMMA Initially == Init => IInv
<1> SUFFICES ASSUME Init PROVE IInv
  OBVIOUS
<1>1. TypeOK
  <2>1. 0 \in 0..(MaxPort - 1) /\ 0 \in 0..MaxPort /\ 0 \in 0..MaxTaken /\ 0 \in 0..MaxRestarts
        /\ 1 \in 1..(RetryLimit + 1)
    BY Constants
  <2> QED
    BY <2>1 DEF Init, TypeOK, Fresh
<1>2. AnswersRunning /\ ConfigOK /\ ChoiceOK
  BY DEF Init, AnswersRunning, ConfigOK, ChoiceOK, Transports
<1>3. AnnounceOK
  <2>1. /\ announcer.attempt = 1 /\ announcer.left = Interfaces /\ ~announcer.sent
        /\ ~announcer.over /\ tried = {} /\ announcer = Fresh
    BY DEF Init, Fresh
  <2>2. RetryLimit \in Nat /\ ~(1 > RetryLimit) /\ \A n \in 1..RetryLimit : ~(n < 1)
    BY Constants
  <2> QED
    BY <2>1, <2>2 DEF AnnounceOK
<1> QED
  BY <1>1, <1>2, <1>3 DEF IInv

(* The invariant holds in every state. *)
LEMMA Inductive == Spec => []IInv
<1>1. IInv /\ [Next]_vars => IInv'
  BY TypeStep, AnswersRunningStep, ConfigStep, ChoiceStep, AnnounceStep DEF IInv
<1> QED
  BY Initially, <1>1, PTL DEF Spec

(* The types of the state hold; what is on the wire names two ports. *)
THEOREM TypeCorrect == Spec => []TypeOK
<1>1. IInv => TypeOK
  BY DEF IInv
<1> QED
  BY <1>1, Inductive, PTL

(* Whatever the configuration, the range of ports, what other programs     *)
(* take meanwhile and how often the server is restarted, the code that     *)
(* run ends with is true: PortExhausted after the whole range or the       *)
(* configured port was refused, MulticastFailed, ConfigInvalid and         *)
(* NvmlUnavailable only where the configuration explains them; and a       *)
(* server that runs has a usable configuration and two different ports.    *)
THEOREM StartupExplained == Spec => []StartupIsExplained
<1>1. IInv => StartupIsExplained
  BY DEF IInv, ConfigOK, ChoiceOK, PortOK, StartupIsExplained, Transports
<1> QED
  BY <1>1, Inductive, PTL

(* The attempts before the last one. *)
LEMMA Before ==
    ASSUME NEW n \in Nat \ {0}, NEW m \in Nat
    PROVE  n \in 1..(m - 1) <=> n < m
OBVIOUS

(* announce_startup_once tries every interface in every attempt, whatever  *)
(* the others' outcomes, and ends after the first attempt that reached one *)
(* or after multicast_retry_limit attempts.                                *)
THEOREM AnnounceTriedAll == Spec => []AnnounceTriesAll
<1>1. IInv => AnnounceTriesAll
  <2> SUFFICES ASSUME IInv, announcer.over PROVE AnnounceTriesAll
    BY DEF AnnounceTriesAll
  <2>0. TypeOK /\ AnnounceOK
    BY DEF IInv
  <2> DEFINE at == announcer.attempt
             last == IF at > RetryLimit THEN RetryLimit ELSE at
             reached == {i \in Interfaces : <<last, i, "sent">> \in tried}
             all == ((1..(last - 1)) \X Interfaces \X {"failed"})
                      \cup ({last} \X (Interfaces \ reached) \X {"failed"})
                      \cup ({last} \X reached \X {"sent"})
  <2>1. last \in 1..RetryLimit /\ RetryLimit \in Nat /\ last \in Nat
        /\ \A n \in 1..RetryLimit : n < last => n # last
    BY <2>0, AnnouncerType
  <2>2. reached \subseteq Interfaces
        /\ \A i \in Interfaces : i \in reached <=> <<last, i, "sent">> \in tried
    OBVIOUS
  <2> HIDE DEF last, reached
  <2>3. ASSUME NEW n \in 1..RetryLimit, NEW i \in Interfaces
        PROVE  /\ <<n, i, "failed">> \in tried <=> n < last \/ (n = last /\ i \notin reached)
               /\ <<n, i, "sent">> \in tried <=> n = last /\ i \in reached
    <3>1. /\ <<n, i, "failed">> \in tried <=>
               n < at \/ (n = at /\ i \notin announcer.left /\ <<n, i, "sent">> \notin tried)
          /\ <<n, i, "sent">> \in tried => n = at /\ i \notin announcer.left
          /\ announcer.left = {}
      BY <2>0 DEF AnnounceOK
    <3>2. /\ n < at <=> n < last \/ (n = last /\ at > RetryLimit)
          /\ n = at <=> n = last /\ ~(at > RetryLimit)
      <4>1. /\ n \in Nat /\ RetryLimit \in Nat /\ n <= RetryLimit
            /\ at \in Nat /\ at <= RetryLimit + 1
        BY <2>0, <2>1, AnnouncerType
      <4> HIDE DEF at
      <4>2. CASE at > RetryLimit
        BY <4>1, <4>2 DEF last
      <4>3. CASE ~(at > RetryLimit)
        BY <4>1, <4>3 DEF last
      <4> QED
        BY <4>2, <4>3
    <3> HIDE DEF at
    <3> QED
      BY <2>1, <2>2, <3>1, <3>2
  <2>4. ASSUME NEW n \in 1..RetryLimit, NEW i \in Interfaces
        PROVE  /\ <<n, i, "failed">> \in all <=> n < last \/ (n = last /\ i \notin reached)
               /\ <<n, i, "sent">> \in all <=> n = last /\ i \in reached
    <3>0. RetryLimit \in Nat
      BY Constants
    <3>1. n \in Nat \ {0} /\ last \in Nat
      BY <2>1, <2>4, <3>0
    <3>2. n \in 1..(last - 1) <=> n < last
      BY <3>1, Before
    <3> QED
      BY <2>1, <2>2, <3>2
  <2>5. all \subseteq (1..RetryLimit) \X Interfaces \X {"sent", "failed"}
    <3>1. \A n \in 1..(last - 1) : n \in 1..RetryLimit
      <4>1. last - 1 \in Int /\ last <= RetryLimit
        BY <2>1
      <4> QED
        BY <2>1, <4>1
    <3> QED
      BY <2>1, <2>2, <3>1
  <2> HIDE DEF all
  <2>6. tried = all
    <3>1. ASSUME NEW s \in (1..RetryLimit) \X Interfaces \X {"sent", "failed"}
          PROVE  s \in tried <=> s \in all
      <4>1. PICK n \in 1..RetryLimit, i \in Interfaces, b \in {"sent", "failed"} : s = <<n, i, b>>
        BY <3>1
      <4> QED
        BY <2>3, <2>4, <4>1
    <3> QED
      BY <2>0, <2>5, <3>1, AnnouncerType
  <2>7. IF reached = {} THEN last = RetryLimit ELSE ThisServer \in wire
    <3>1. CASE at > RetryLimit
      <4>1. last = RetryLimit /\ ~announcer.sent
        BY <2>0, <3>1 DEF AnnounceOK, last
      <4>2. \A i \in Interfaces : <<last, i, "sent">> \notin tried
        <5>1. ASSUME NEW i \in Interfaces, <<last, i, "sent">> \in tried PROVE last = at
          BY <2>0, <2>1, <5>1 DEF AnnounceOK
        <5> QED
          BY <2>1, <3>1, <5>1
      <4> QED
        BY <2>2, <4>1, <4>2
    <3>2. CASE ~(at > RetryLimit)
      <4>1. announcer.sent /\ last = at
        BY <2>0, <3>2 DEF AnnounceOK, last
      <4>2. ThisServer \in wire /\ \E i \in Interfaces : <<at, i, "sent">> \in tried
        BY <2>0, <4>1 DEF AnnounceOK
      <4> QED
        BY <2>2, <4>1, <4>2
    <3> QED
      BY <3>1, <3>2
  <2> QED
    BY <2>1, <2>2, <2>6, <2>7 DEF AnnounceTriesAll, all
<1> QED
  BY <1>1, Inductive, PTL
============================================================================
