-------------------------- MODULE CtrlEndp_proofs ---------------------------
(***************************************************************************)
(* Proof that the device and the host agree on the device's state, for any *)
(* lengths, addresses and line codings, and any number of transfers,       *)
(* faults and bus resets.                                                  *)
(***************************************************************************)
EXTENDS CtrlEndp, SequenceTheorems, TLAPS

Requests == HostRequests \cup {NoRequest}
Names == {"NONE", "UNSUPPORTED", "SET_ADDRESS", "SET_CONFIGURATION", "CLEAR_FEATURE",
          "DUMMY", "GET_CONFIGURATION", "GET_INTERFACE", "GET_STATUS",
          "GET_LINE_CODING", "SET_LINE_CODING", "GET_DESCRIPTOR_DEVICE",
          "GET_DESCRIPTOR_CONFIGURATION"}
States  == {"idle", "setup", "data", "status", "stall"}
Devices == {"powered", "default", "address", "configured"}
Pipes   == {"ctrl", "bulk"}
Replies == {NoReply} \cup [kind : {"stall", "nak"}]
             \cup [kind : {"data"}, toggle : {0, 1}, data : Seq(Nat)]

\* Where the data of an IN request end, and how far they were sent.
Size == CASE req_q = "GET_DESCRIPTOR_DEVICE"        -> CDC_DEV_DESCR_LENGTH
          [] req_q = "GET_DESCRIPTOR_CONFIGURATION" -> CDC_CONF_DESCR_LENGTH
          [] req_q = "GET_LINE_CODING"              -> CDC_LINE_CODING_LENGTH
          [] OTHER                                  -> max_length_q
End == IF max_length_q < Size THEN max_length_q ELSE Size

DeviceTypes ==
  /\ state_q \in States
  /\ byte_cnt_q \in Nat /\ max_length_q \in Nat
  /\ in_dir_q \in BOOLEAN /\ in_endp_q \in BOOLEAN
  /\ req_q \in Names
  /\ dev_state_q \in Devices /\ dev_state_qq \in Devices
  /\ addr_q \in Nat /\ addr_qq \in Nat /\ usb_reset_q \in BOOLEAN
  /\ line_coding_q \in [0 .. CDC_LINE_CODING_LENGTH - 1 -> Nat]
  /\ inToggles \in SUBSET Pipes /\ outToggles \in SUBSET Pipes
  /\ in_byte_q \in Nat
  /\ state_q = "data" /\ in_dir_q => byte_cnt_q <= End

TransferTypes ==
  /\ stage \in {"none", "setup", "in", "out", "status"}
  /\ request \in Requests
  /\ got \in Seq(Nat)
  /\ clean \in BOOLEAN /\ ctrlToggle \in {0, 1}
  /\ outcome \in {"none", "ok", "stall", "nak"}

ViewTypes ==
  /\ hostAddr \in Nat /\ hostState \in Devices /\ hostLine \in Nat
  /\ hostIn \in {0, 1} /\ hostOut \in {0, 1} /\ sure \in BOOLEAN

\* A stage belongs to its request, a reply to a stage that asks for one.
StageFits ==
  /\ stage = "none" <=> request = NoRequest
  /\ stage = "in" => request.in
  /\ stage = "out" => request.name = "SET_LINE_CODING"
  /\ stage = "status" =>
       request.in \/ request.length = 0 \/ request.name = "SET_LINE_CODING"
  /\ reply \in Replies
  /\ reply # NoReply => stage = "in" \/ (stage = "status" /\ ~request.in)
  /\ reply.kind = "stall" => state_q = "stall"
  /\ reply.kind = "data" =>
       state_q # "stall" /\ reply.toggle = Toggle(inToggles, "ctrl")

CtrlTypeOK == DeviceTypes /\ TransferTypes /\ ViewTypes /\ StageFits

-----------------------------------------------------------------------------
(***************************************************************************)
(* Constants, requests and toggles.                                        *)
(***************************************************************************)
LEMMA Lengths ==
  /\ CTRL_MAXPACKETSIZE \in Nat /\ CTRL_MAXPACKETSIZE > 0
  /\ CDC_DEV_DESCR_LENGTH \in Nat /\ CDC_DEV_DESCR_LENGTH > 0
  /\ CDC_CONF_DESCR_LENGTH \in Nat /\ CDC_CONF_DESCR_LENGTH > 0
  /\ CDC_LINE_CODING_LENGTH \in Nat /\ CDC_LINE_CODING_LENGTH > 0
  /\ LengthMax \in Nat /\ LengthMax > 0
BY CtrlAssumption

\* The requests of the host, by their names.
LEMMA RequestFacts ==
  ASSUME NEW r \in HostRequests
  PROVE  /\ r.name \in Names \ {"NONE"} /\ r.in \in BOOLEAN
         /\ r.value \in Nat /\ r.length \in Nat
         /\ ~r.in /\ r.length # 0 => r.name = "SET_LINE_CODING"
         /\ r.name \in {"SET_ADDRESS", "SET_CONFIGURATION", "CLEAR_FEATURE", "DUMMY"}
              => ~r.in /\ r.length = 0
         /\ r.name = "SET_LINE_CODING"
              => ~r.in /\ r.length = CDC_LINE_CODING_LENGTH
         /\ r.name = "SET_CONFIGURATION" => r.value \in {0, 1}
         /\ r.name = "CLEAR_FEATURE" => r.value \in {0, 1}
         /\ r # NoRequest
<1>. DEFINE Is(name, in, value, length) ==
              r.name = name /\ r.in = in /\ r.value = value /\ r.length = length
<1>1. \/ \E a \in HostAddresses : Is("SET_ADDRESS", FALSE, a, 0)
      \/ \E v \in {0, 1} : Is("SET_CONFIGURATION", FALSE, v, 0)
      \/ \E e \in {0, 1} : Is("CLEAR_FEATURE", FALSE, e, 0)
      \/ Is("DUMMY", FALSE, 0, 0) \/ Is("GET_CONFIGURATION", TRUE, 0, 1)
      \/ Is("GET_INTERFACE", TRUE, 0, 1) \/ Is("GET_STATUS", TRUE, 0, 2)
      \/ Is("GET_LINE_CODING", TRUE, 0, CDC_LINE_CODING_LENGTH)
      \/ \E d \in Descriptors, n \in HostLengths : Is(d, TRUE, 0, n)
      \/ \E c \in HostCodings : Is("SET_LINE_CODING", FALSE, c, CDC_LINE_CODING_LENGTH)
      \/ Is("UNSUPPORTED", FALSE, 0, 0) \/ Is("UNSUPPORTED", TRUE, 0, 1)
  BY DEF HostRequests, Req, InPipe, OutPipe
<1>2. r.name # "NONE" => r # NoRequest
  BY DEF NoRequest, Req
<1>3. CASE ~r.in
  <2>1. \/ \E a \in HostAddresses : Is("SET_ADDRESS", FALSE, a, 0)
        \/ \E v \in {0, 1} : Is("SET_CONFIGURATION", FALSE, v, 0)
        \/ \E e \in {0, 1} : Is("CLEAR_FEATURE", FALSE, e, 0)
        \/ Is("DUMMY", FALSE, 0, 0) \/ Is("UNSUPPORTED", FALSE, 0, 0)
        \/ \E c \in HostCodings : Is("SET_LINE_CODING", FALSE, c, CDC_LINE_CODING_LENGTH)
    BY <1>1, <1>3
  <2>2. r.value \in Nat /\ r.length \in Nat
    BY <2>1, CtrlAssumption, Lengths
  <2>3. r.name \in Names \ {"NONE"}
    BY <2>1 DEF Names
  <2>. QED BY <1>2, <1>3, <2>1, <2>2, <2>3
<1>4. CASE r.in
  <2>1. /\ r.in = TRUE /\ r.value = 0 /\ r.length \in Nat
        /\ r.name \in {"GET_CONFIGURATION", "GET_INTERFACE", "GET_STATUS",
                       "GET_LINE_CODING", "UNSUPPORTED"} \cup Descriptors
    BY <1>1, <1>4, CtrlAssumption, Lengths
  <2>2. r.name \in Names \ {"NONE", "SET_ADDRESS", "SET_CONFIGURATION", "CLEAR_FEATURE",
                            "DUMMY", "SET_LINE_CODING"}
    BY <2>1 DEF Names, Descriptors
  <2>. QED BY <1>2, <1>4, <2>1, <2>2
<1>. QED BY <1>3, <1>4

\* What flipping and setting one pipe's toggle does to the other.
LEMMA Toggles ==
  ASSUME NEW t \in SUBSET Pipes, NEW bit \in {0, 1}
  PROVE  /\ FlipOf(t, "ctrl") \in SUBSET Pipes /\ FlipOf(t, "bulk") \in SUBSET Pipes
         /\ Set(t, "ctrl", bit) \in SUBSET Pipes
         /\ Toggle(t, "ctrl") \in {0, 1} /\ Toggle(t, "bulk") \in {0, 1}
         /\ Toggle(FlipOf(t, "bulk"), "bulk") = 1 - Toggle(t, "bulk")
         /\ Toggle(FlipOf(t, "ctrl"), "bulk") = Toggle(t, "bulk")
         /\ Toggle(FlipOf(t, "ctrl") \ {"bulk"}, "bulk") = 0
         /\ Toggle(Set(t, "ctrl", bit), "bulk") = Toggle(t, "bulk")
         /\ "ctrl" \in FlipOf(t, "bulk") <=> "ctrl" \in t
         /\ "ctrl" \in FlipOf(t, "ctrl") <=> "ctrl" \notin t
         /\ "ctrl" \in Set(t, "ctrl", bit) <=> bit = 1
BY DEF Pipes, FlipOf, Set, Toggle

-----------------------------------------------------------------------------
(***************************************************************************)
(* What each step of the endpoint does to its registers.                   *)
(***************************************************************************)

\* clk_gate without a new device state.
LEMMA GateKeeps ==
  ASSUME DeviceTypes, ClkGate(dev_state_qq)
  PROVE  /\ DeviceNow' = DeviceNow /\ usb_reset_q' = FALSE
         /\ dev_state_qq' \in Devices
BY DEF DeviceTypes, ClkGate, DeviceNow, Devices

LEMMA SetupTokenStep ==
  ASSUME DeviceTypes, NEW bit \in {0, 1}, SetupToken(bit)
  PROVE  /\ DeviceNow' = DeviceNow /\ usb_reset_q' = FALSE
         /\ dev_state_qq' \in Devices /\ byte_cnt_q' = 0
         /\ inToggles' \in SUBSET Pipes /\ outToggles' \in SUBSET Pipes
         /\ "ctrl" \in inToggles' /\ ("ctrl" \in outToggles' <=> bit = 1)
         /\ Toggle(inToggles, "bulk")' = Toggle(inToggles, "bulk")
         /\ Toggle(outToggles, "bulk")' = Toggle(outToggles, "bulk")
<1>1. inToggles \in SUBSET Pipes /\ outToggles \in SUBSET Pipes
  BY DEF DeviceTypes
<1>2. ClkGate(dev_state_qq) /\ byte_cnt_q' = 0
  BY DEF SetupToken
<1>3. inToggles' = inToggles \cup {"ctrl"} /\ outToggles' = Set(outToggles, "ctrl", bit)
  BY DEF SetupToken
<1>4. /\ inToggles' \in SUBSET Pipes /\ "ctrl" \in inToggles'
      /\ Toggle(inToggles, "bulk")' = Toggle(inToggles, "bulk")
  BY <1>1, <1>3 DEF Pipes, Toggle
<1>5. /\ outToggles' \in SUBSET Pipes /\ ("ctrl" \in outToggles' <=> bit = 1)
      /\ Toggle(outToggles, "bulk")' = Toggle(outToggles, "bulk")
  BY <1>1, <1>3, Toggles DEF Toggle
<1>. QED BY <1>2, <1>4, <1>5, GateKeeps

\* The registers keep their types through any part of a SETUP packet.
LEMMA SetupBytesTypes ==
  ASSUME DeviceTypes, NEW r \in HostRequests, NEW k \in Nat, SetupBytes(r, k)
  PROVE  /\ in_dir_q' \in BOOLEAN /\ in_endp_q' \in BOOLEAN
         /\ req_q' \in Names /\ addr_q' \in Nat
         /\ dev_state_q' \in Devices /\ max_length_q' \in Nat
<1>1. /\ r.in \in BOOLEAN /\ r.name \in Names /\ r.value \in Nat
      /\ Saturate(r.length) \in Nat
  BY RequestFacts, Lengths DEF Saturate
<1>2. /\ in_dir_q' \in BOOLEAN /\ in_endp_q' \in BOOLEAN /\ req_q' \in Names
  BY <1>1 DEF SetupBytes, DeviceTypes, Names
<1>3. addr_q' \in Nat /\ dev_state_q' \in Devices /\ max_length_q' \in Nat
  BY <1>1 DEF SetupBytes, DeviceTypes, Devices
<1>. QED BY <1>2, <1>3

\* A complete SETUP packet: its request is in the registers, or is refused.
LEMMA SetupDoneStep ==
  ASSUME DeviceTypes, NEW r \in HostRequests, SetupDone(r)
  PROVE  /\ DeviceTypes'
         /\ DeviceNow' = DeviceNow /\ usb_reset_q' = FALSE
         /\ UNCHANGED <<addr_qq, line_coding_q>> /\ byte_cnt_q' = 0
         /\ "ctrl" \in inToggles' /\ "ctrl" \in outToggles'
         /\ Toggle(inToggles, "bulk")' = Toggle(inToggles, "bulk")
         /\ Toggle(outToggles, "bulk")' = Toggle(outToggles, "bulk")
         /\ ~Accepted(r.name, DeviceNow) => req_q' = "UNSUPPORTED" /\ state_q' = "stall"
         /\ Accepted(r.name, DeviceNow) =>
              /\ req_q' = r.name /\ in_dir_q' = r.in /\ max_length_q' = Saturate(r.length)
              /\ state_q' = IF r.in \/ r.length # 0 THEN "data" ELSE "status"
              /\ r.name = "SET_ADDRESS" => addr_q' = r.value
              /\ r.name = "SET_CONFIGURATION" =>
                   dev_state_q' = IF r.value = 1 THEN "configured" ELSE "address"
              /\ r.name = "CLEAR_FEATURE" => in_endp_q' = (r.value = InPipe)
<1>1. SetupToken(1) /\ SetupBytes(r, 8) /\ UNCHANGED <<addr_qq, line_coding_q, in_byte_q>>
  BY DEF SetupDone
<1>2. /\ DeviceNow' = DeviceNow /\ usb_reset_q' = FALSE
      /\ dev_state_qq' \in Devices /\ byte_cnt_q' = 0
      /\ inToggles' \in SUBSET Pipes /\ outToggles' \in SUBSET Pipes
      /\ "ctrl" \in inToggles' /\ "ctrl" \in outToggles'
      /\ Toggle(inToggles, "bulk")' = Toggle(inToggles, "bulk")
      /\ Toggle(outToggles, "bulk")' = Toggle(outToggles, "bulk")
  BY <1>1, SetupTokenStep
<1>3. /\ in_dir_q' \in BOOLEAN /\ in_endp_q' \in BOOLEAN
      /\ req_q' \in Names /\ addr_q' \in Nat
      /\ dev_state_q' \in Devices /\ max_length_q' \in Nat
  BY <1>1, SetupBytesTypes
<1>4. /\ r.length \in Nat /\ r.in \in BOOLEAN
      /\ Accepted(r.name, DeviceNow) => r.name # "UNSUPPORTED"
  BY RequestFacts DEF Accepted, Descriptors
<1>5. Saturate(r.length) # 0 <=> r.length # 0
  BY <1>4, RequestFacts, Lengths DEF Saturate
<1>6. ~Accepted(r.name, DeviceNow) => req_q' = "UNSUPPORTED" /\ state_q' = "stall"
  BY <1>1 DEF SetupBytes, SetupDone
<1>7. Accepted(r.name, DeviceNow) =>
        /\ req_q' = r.name /\ in_dir_q' = r.in /\ max_length_q' = Saturate(r.length)
        /\ r.name = "SET_ADDRESS" => addr_q' = r.value
        /\ r.name = "SET_CONFIGURATION" =>
             dev_state_q' = IF r.value = 1 THEN "configured" ELSE "address"
        /\ r.name = "CLEAR_FEATURE" => in_endp_q' = (r.value = InPipe)
  BY <1>1 DEF SetupBytes
<1>8. Accepted(r.name, DeviceNow) =>
        state_q' = IF r.in \/ r.length # 0 THEN "data" ELSE "status"
  <2>1. state_q' = IF req_q' = "UNSUPPORTED" THEN "stall"
                   ELSE IF in_dir_q' \/ max_length_q' # 0 THEN "data" ELSE "status"
    BY DEF SetupDone
  <2>. QED BY <1>4, <1>5, <1>7, <2>1
<1>9. state_q' \in States
  BY <1>6, <1>8 DEF States
<1>10. 0 <= End'
  BY <1>3, Lengths DEF End, Size
<1>11. /\ addr_qq' \in Nat /\ in_byte_q' \in Nat
       /\ line_coding_q' \in [0 .. CDC_LINE_CODING_LENGTH - 1 -> Nat]
  BY <1>1 DEF DeviceTypes
<1>12. DeviceTypes'
  BY <1>2, <1>3, <1>9, <1>10, <1>11 DEF DeviceTypes
<1>. QED BY <1>1, <1>2, <1>6, <1>7, <1>8, <1>12

\* A damaged one, or none: the endpoint waits for another SETUP.
LEMMA SetupBrokenStep ==
  ASSUME DeviceTypes, SetupDamaged \/ SetupAlone
  PROVE  /\ DeviceTypes'
         /\ DeviceNow' = DeviceNow /\ UNCHANGED <<addr_qq, line_coding_q>>
         /\ state_q' \in {"idle", "setup"}
         /\ Toggle(inToggles, "bulk")' = Toggle(inToggles, "bulk")
         /\ Toggle(outToggles, "bulk")' = Toggle(outToggles, "bulk")
<1>1. /\ SetupToken(0) /\ UNCHANGED <<addr_qq, line_coding_q, in_byte_q>>
      /\ state_q' \in {"idle", "setup"}
  BY DEF SetupDamaged, SetupAlone
<1>2. /\ DeviceNow' = DeviceNow /\ usb_reset_q' = FALSE
      /\ dev_state_qq' \in Devices /\ byte_cnt_q' = 0
      /\ inToggles' \in SUBSET Pipes /\ outToggles' \in SUBSET Pipes
      /\ Toggle(inToggles, "bulk")' = Toggle(inToggles, "bulk")
      /\ Toggle(outToggles, "bulk")' = Toggle(outToggles, "bulk")
  BY <1>1, SetupTokenStep
<1>3. /\ in_dir_q' \in BOOLEAN /\ in_endp_q' \in BOOLEAN
      /\ req_q' \in Names /\ addr_q' \in Nat
      /\ dev_state_q' \in Devices /\ max_length_q' \in Nat
  <2>1. CASE SetupDamaged
    <3>1. PICK r \in HostRequests, k \in BrokenAfter : SetupBytes(r, k)
      BY <2>1 DEF SetupDamaged
    <3>2. k \in Nat
      BY DEF BrokenAfter
    <3>. QED BY <3>1, <3>2, SetupBytesTypes
  <2>2. CASE SetupAlone
    BY <2>2 DEF SetupAlone, DeviceTypes
  <2>. QED BY <2>1, <2>2
<1>4. DeviceTypes'
  BY <1>1, <1>2, <1>3 DEF DeviceTypes, States
<1>. QED BY <1>1, <1>2, <1>4

\* The smaller of two numbers.
LEMMA MinOfTwo ==
  ASSUME NEW a \in Nat, NEW b \in Nat
  PROVE  Min({a, b}) = IF a < b THEN a ELSE b
<1>. DEFINE m == IF a < b THEN a ELSE b
<1>1. /\ m \in {a, b} /\ (\A y \in {a, b} : m <= y)
      /\ \A x \in {a, b} : (\A y \in {a, b} : x <= y) => x = m
  OBVIOUS
<1>. HIDE DEF m
<1>2. Min({a, b}) = m
  BY <1>1 DEF Min
<1>. QED BY <1>2 DEF m

LEMMA MinIs ==
  ASSUME NEW S \in SUBSET Nat, NEW m \in S, \A y \in S : m <= y
  PROVE  Min(S) = m
<1>1. \A x \in S : (\A y \in S : x <= y) => x = m
  OBVIOUS
<1>. QED BY <1>1 DEF Min

\* The line coding keeps its type, and without bytes its value.
LEMMA LineStep ==
  ASSUME DeviceTypes, NEW n \in Nat, NEW value \in Nat, OutBytes(n, value)
  PROVE  /\ line_coding_q' \in [0 .. CDC_LINE_CODING_LENGTH - 1 -> Nat]
         /\ n = 0 => line_coding_q' = line_coding_q
         /\ StoresLine /\ byte_cnt_q = 0 /\ n = CDC_LINE_CODING_LENGTH
              => line_coding_q' = LineCoding(value)
<1>. DEFINE D == 0 .. CDC_LINE_CODING_LENGTH - 1
            stored == [i \in D |-> IF i >= byte_cnt_q /\ i < byte_cnt_q + n
                                   THEN value ELSE line_coding_q[i]]
<1>1. line_coding_q \in [D -> Nat] /\ byte_cnt_q \in Nat
  BY DEF DeviceTypes
<1>2. line_coding_q' = IF StoresLine THEN stored ELSE line_coding_q
  BY <1>1 DEF OutBytes
<1>3. stored \in [D -> Nat]
  BY <1>1
<1>4. n = 0 => stored = line_coding_q
  BY <1>1
<1>5. byte_cnt_q = 0 /\ n = CDC_LINE_CODING_LENGTH => stored = LineCoding(value)
  BY Lengths DEF LineCoding
<1>. HIDE DEF stored
<1>. QED BY <1>1, <1>2, <1>3, <1>4, <1>5

\* A good OUT packet.
LEMMA OutDoneStep ==
  ASSUME DeviceTypes, NEW n \in Nat, NEW value \in Nat, NEW toggle \in {0, 1},
         OutDone(n, value, toggle)
  PROVE  /\ DeviceTypes'
         /\ DeviceNow' = DeviceNow /\ usb_reset_q' = FALSE
         /\ UNCHANGED <<max_length_q, in_dir_q, req_q, in_endp_q, dev_state_q, addr_q,
                        addr_qq, inToggles>>
         /\ Toggle(outToggles, "bulk")' = Toggle(outToggles, "bulk")
         /\ n = 0 => line_coding_q' = line_coding_q
         /\ state_q' # "setup"
         /\ state_q' \in {"status", "data"} => state_q = "data"
         /\ state_q' = "stall" /\ ~Stalled(n) /\ state_q # "setup" =>
              state_q = "status" /\ ~in_dir_q
         /\ StoresLine /\ "ctrl" \in outToggles /\ toggle = 1 => state_q' = "status"
         /\ StoresLine /\ byte_cnt_q = 0 /\ n = CDC_LINE_CODING_LENGTH
              => line_coding_q' = LineCoding(value)
<1>. DEFINE expected == Toggle(outToggles, "ctrl") = toggle
<1>1. /\ OutBytes(n, value)
      /\ byte_cnt_q' = IF expected /\ ~Stalled(n) /\ state_q \in {"data", "status"}
                       THEN CountAfter(n) ELSE 0
      /\ state_q' = IF Stalled(n) THEN "stall"
                    ELSE IF expected THEN StateAfterOut ELSE "idle"
      /\ outToggles' = IF expected THEN FlipOf(outToggles, "ctrl") ELSE outToggles
      /\ ClkGate(dev_state_qq) /\ RequestKept /\ UNCHANGED inToggles
  BY DEF OutDone
<1>2. /\ UNCHANGED <<max_length_q, in_dir_q, req_q, in_endp_q, dev_state_q, addr_q, addr_qq>>
      /\ UNCHANGED <<in_byte_q, inToggles>>
  BY <1>1 DEF RequestKept
<1>3. DeviceNow' = DeviceNow /\ usb_reset_q' = FALSE /\ dev_state_qq' \in Devices
  BY <1>1, GateKeeps
<1>4. outToggles' \in SUBSET Pipes /\ Toggle(outToggles, "bulk")' = Toggle(outToggles, "bulk")
  <2>1. outToggles \in SUBSET Pipes
    BY DEF DeviceTypes
  <2>2. CASE expected
    BY <1>1, <2>1, <2>2, Toggles DEF Toggle
  <2>3. CASE ~expected
    BY <1>1, <2>1, <2>3 DEF Toggle
  <2>. QED BY <2>2, <2>3
<1>5. /\ line_coding_q' \in [0 .. CDC_LINE_CODING_LENGTH - 1 -> Nat]
      /\ n = 0 => line_coding_q' = line_coding_q
      /\ StoresLine /\ byte_cnt_q = 0 /\ n = CDC_LINE_CODING_LENGTH
           => line_coding_q' = LineCoding(value)
  BY <1>1, LineStep
<1>. HIDE DEF expected
<1>6. /\ state_q' \in States /\ state_q' # "setup"
      /\ state_q' \in {"status", "data"} => state_q = "data"
      /\ state_q' = "data" => in_dir_q
      /\ state_q' = "stall" /\ ~Stalled(n) /\ state_q # "setup" =>
           state_q = "status" /\ ~in_dir_q
  <2>1. state_q \in States /\ in_dir_q \in BOOLEAN
    BY DEF DeviceTypes
  <2>2. state_q = "stall" => Stalled(n)
    BY DEF Stalled
  <2>3. /\ state_q = "data" /\ ~in_dir_q => StateAfterOut = "status"
        /\ state_q = "data" /\ in_dir_q => StateAfterOut = "data"
        /\ state_q = "status" /\ in_dir_q => StateAfterOut = "idle"
        /\ state_q = "status" /\ ~in_dir_q => StateAfterOut = "stall"
        /\ state_q = "setup" => StateAfterOut = "stall"
        /\ state_q \in {"idle", "stall"} => StateAfterOut = state_q
    BY DEF StateAfterOut
  <2>4. state_q' \in States /\ state_q' # "setup"
    BY <1>1, <2>1, <2>3 DEF States
  <2>5. state_q' \in {"status", "data"} => state_q = "data"
    BY <1>1, <2>1, <2>2, <2>3 DEF States
  <2>6. state_q' = "data" => in_dir_q
    BY <1>1, <2>1, <2>2, <2>3 DEF States
  <2>7. state_q' = "stall" /\ ~Stalled(n) /\ state_q # "setup" =>
          state_q = "status" /\ ~in_dir_q
    BY <1>1, <2>1, <2>2, <2>3 DEF States
  <2>. QED BY <2>4, <2>5, <2>6, <2>7
<1>11. StoresLine /\ "ctrl" \in outToggles /\ toggle = 1 => state_q' = "status"
  <2>1. "ctrl" \in outToggles /\ toggle = 1 => expected
    BY DEF expected, Toggle
  <2>2. StoresLine => ~Stalled(n) /\ StateAfterOut = "status"
    BY DEF StoresLine, Stalled, StateAfterOut
  <2>. QED BY <1>1, <2>1, <2>2
<1>7. /\ byte_cnt_q' \in Nat
      /\ in_dir_q => byte_cnt_q' \in {0, byte_cnt_q}
  BY <1>1, MinOfTwo, Lengths DEF CountAfter, DeviceTypes, StoresLine
<1>8. End' = End /\ 0 <= End
  BY <1>2, Lengths DEF End, Size, DeviceTypes
<1>9. state_q' = "data" /\ in_dir_q' => byte_cnt_q' <= End'
  BY <1>2, <1>6, <1>7, <1>8 DEF DeviceTypes
<1>10. DeviceTypes'
  BY <1>2, <1>3, <1>4, <1>5, <1>6, <1>7, <1>9 DEF DeviceTypes
<1>. QED BY <1>2, <1>3, <1>4, <1>5, <1>6, <1>10, <1>11

\* A damaged one, after any number of its bytes.
LEMMA OutDamagedStep ==
  ASSUME DeviceTypes, NEW n \in Nat, NEW value \in Nat, OutDamaged(n, value)
  PROVE  /\ DeviceTypes'
         /\ DeviceNow' = DeviceNow /\ usb_reset_q' = FALSE
         /\ UNCHANGED <<max_length_q, in_dir_q, req_q, in_endp_q, dev_state_q, addr_q,
                        addr_qq, toggleVars>>
         /\ n = 0 => line_coding_q' = line_coding_q
         /\ state_q' = IF Stalled(n) THEN "stall" ELSE "idle"
<1>1. /\ OutBytes(n, value) /\ byte_cnt_q' = 0
      /\ state_q' = IF Stalled(n) THEN "stall" ELSE "idle"
      /\ ClkGate(dev_state_qq)
      /\ UNCHANGED <<max_length_q, in_dir_q, req_q, in_endp_q, dev_state_q, addr_q, addr_qq>>
      /\ UNCHANGED <<in_byte_q, inToggles, outToggles>>
  BY DEF OutDamaged, RequestKept, toggleVars
<1>2. DeviceNow' = DeviceNow /\ usb_reset_q' = FALSE /\ dev_state_qq' \in Devices
  BY <1>1, GateKeeps
<1>3. /\ line_coding_q' \in [0 .. CDC_LINE_CODING_LENGTH - 1 -> Nat]
      /\ n = 0 => line_coding_q' = line_coding_q
  BY <1>1, LineStep
<1>4. DeviceTypes'
  BY <1>1, <1>2, <1>3 DEF DeviceTypes, States
<1>. QED BY <1>1, <1>2, <1>3, <1>4 DEF toggleVars

\* How far an IN packet goes: to the end of the answer, or it is full.
LEMMA PacketSize ==
  ASSUME DeviceTypes
  PROVE  /\ HasData => /\ byte_cnt_q < End
                       /\ PacketLength = IF End - byte_cnt_q < CTRL_MAXPACKETSIZE
                                         THEN End - byte_cnt_q ELSE CTRL_MAXPACKETSIZE
         /\ ~HasData => PacketLength = 0
         /\ PacketLength \in Nat
         /\ HasData => byte_cnt_q + PacketLength <= End
<1>1. /\ byte_cnt_q \in Nat /\ max_length_q \in Nat /\ End \in Nat /\ Size \in Nat
      /\ End <= max_length_q /\ End <= Size /\ (End = max_length_q \/ End = Size)
      /\ state_q = "data" /\ in_dir_q => byte_cnt_q <= End
  BY Lengths DEF DeviceTypes, End, Size
<1>2. \A n \in Nat : AtEnd(n) <=> n = max_length_q \/ n = Size
  BY <1>1 DEF AtEnd, Size
<1>3. ASSUME HasData
      PROVE  /\ byte_cnt_q < End
             /\ PacketLength = IF End - byte_cnt_q < CTRL_MAXPACKETSIZE
                               THEN End - byte_cnt_q ELSE CTRL_MAXPACKETSIZE
  <2>. DEFINE left == End - byte_cnt_q
              m == IF left < CTRL_MAXPACKETSIZE THEN left ELSE CTRL_MAXPACKETSIZE
              ends == {k \in 1 .. CTRL_MAXPACKETSIZE :
                         k = CTRL_MAXPACKETSIZE \/ AtEnd(byte_cnt_q + k)}
  <2>1. byte_cnt_q <= End /\ ~AtEnd(byte_cnt_q)
    BY <1>1, <1>3 DEF HasData
  <2>2. byte_cnt_q < End
    BY <1>1, <1>2, <2>1
  <2>3. left \in Nat /\ left > 0 /\ byte_cnt_q + left = End
    BY <1>1, <2>2
  <2>4. m \in 1 .. CTRL_MAXPACKETSIZE /\ (m = CTRL_MAXPACKETSIZE \/ byte_cnt_q + m = End)
    BY <2>3, Lengths
  <2>5. m \in ends
    BY <1>1, <1>2, <2>4, Lengths
  <2>6. ASSUME NEW y \in ends PROVE m <= y
    <3>1. y \in Nat /\ (y = CTRL_MAXPACKETSIZE \/ byte_cnt_q + y = max_length_q
                          \/ byte_cnt_q + y = Size)
      BY <1>1, <1>2, Lengths
    <3>. QED BY <1>1, <2>3, <3>1, Lengths
  <2>7. ends \in SUBSET Nat
    BY Lengths
  <2>. HIDE DEF m, ends
  <2>8. Min(ends) = m
    BY <2>5, <2>6, <2>7, MinIs
  <2>9. PacketLength = m
    BY <1>3, <2>8 DEF PacketLength, ends
  <2>. QED BY <2>2, <2>9 DEF m
<1>4. ~HasData => PacketLength = 0
  BY DEF PacketLength
<1>. QED BY <1>1, <1>3, <1>4, Lengths

\* The bytes of an answer.
LEMMA InDataTypes ==
  ASSUME DeviceTypes, NEW i \in Nat, i < End
  PROVE  InData(i) \in Nat
<1>1. req_q = "GET_LINE_CODING" => i \in 0 .. CDC_LINE_CODING_LENGTH - 1
  BY Lengths DEF DeviceTypes, End, Size
<1>2. req_q = "GET_LINE_CODING" => line_coding_q[i] \in Nat
  BY <1>1 DEF DeviceTypes
<1>3. req_q \in Descriptors => req_q \notin {"GET_CONFIGURATION", "GET_LINE_CODING"}
  BY DEF Descriptors
<1>. QED BY <1>2, <1>3 DEF InData

\* A packet goes to the host, or a handshake.
LEMMA InTokenStep ==
  ASSUME DeviceTypes, InToken
  PROVE  /\ DeviceTypes'
         /\ DeviceNow' = DeviceNow /\ usb_reset_q' \in {usb_reset_q, FALSE}
         /\ UNCHANGED <<state_q, max_length_q, in_dir_q, req_q, in_endp_q, dev_state_q,
                        addr_q, addr_qq, line_coding_q, toggleVars>>
         /\ reply' \in Replies /\ reply' # NoReply
         /\ reply'.kind = "stall" <=> state_q = "stall"
         /\ reply'.kind = "nak" <=> state_q # "stall" /\ ~Answered
         /\ reply'.kind = "data" =>
              /\ reply'.toggle = Toggle(inToggles, "ctrl")
              /\ reply'.data = [i \in 1 .. PacketLength |-> InData(byte_cnt_q + i - 1)]
         /\ byte_cnt_q' = byte_cnt_q + PacketLength
<1>. DEFINE bytes == [i \in 1 .. PacketLength |-> InData(byte_cnt_q + i - 1)]
            bit == Toggle(inToggles, "ctrl")
<1>1. /\ UNCHANGED <<state_q, max_length_q, in_dir_q, req_q, in_endp_q, dev_state_q>>
      /\ UNCHANGED <<addr_q, addr_qq, line_coding_q, inToggles, outToggles>>
      /\ in_byte_q' = PacketLength /\ byte_cnt_q' = byte_cnt_q + PacketLength
  BY DEF InToken, toggleVars
<1>2. /\ DeviceNow' = DeviceNow /\ usb_reset_q' \in {usb_reset_q, FALSE}
      /\ usb_reset_q' \in BOOLEAN /\ dev_state_qq' \in Devices
  BY GateKeeps DEF InToken, DeviceTypes, DeviceNow
<1>3. byte_cnt_q \in Nat /\ PacketLength \in Nat
  BY PacketSize DEF DeviceTypes
<1>4. bytes \in Seq(Nat)
  <2>1. HasData => byte_cnt_q + PacketLength <= End /\ End \in Nat
    BY PacketSize, Lengths DEF End, Size, DeviceTypes
  <2>2. ~HasData => PacketLength = 0
    BY PacketSize
  <2>3. ASSUME NEW i \in 1 .. PacketLength PROVE InData(byte_cnt_q + i - 1) \in Nat
    <3>1. byte_cnt_q + i - 1 \in Nat /\ byte_cnt_q + i - 1 < End
      BY <1>3, <2>1, <2>2
    <3>. QED BY <3>1, InDataTypes
  <2>. QED BY <1>3, <2>3
<1>5. bit \in {0, 1}
  BY DEF Toggle
<1>. HIDE DEF bytes, bit
<1>6. reply' = IF state_q = "stall" THEN [kind |-> "stall"]
               ELSE IF ~Answered THEN [kind |-> "nak"]
               ELSE [kind |-> "data", toggle |-> bit, data |-> bytes]
  BY DEF InToken, bytes, bit
<1>7. reply' \in Replies /\ reply' # NoReply
  <2>1. CASE state_q = "stall"
    BY <1>6, <2>1 DEF Replies, NoReply
  <2>2. CASE state_q # "stall" /\ ~Answered
    BY <1>6, <2>2 DEF Replies, NoReply
  <2>3. CASE state_q # "stall" /\ Answered
    <3>1. reply' = [kind |-> "data", toggle |-> bit, data |-> bytes]
      BY <1>6, <2>3
    <3>. HIDE DEF Answered
    <3>. QED BY <1>4, <1>5, <3>1 DEF Replies, NoReply
  <2>. QED BY <2>1, <2>2, <2>3
<1>8. /\ reply'.kind = "stall" <=> state_q = "stall"
      /\ reply'.kind = "nak" <=> state_q # "stall" /\ ~Answered
      /\ reply'.kind = "data" => reply'.toggle = bit /\ reply'.data = bytes
  BY <1>6
<1>9. state_q' = "data" /\ in_dir_q' => byte_cnt_q' <= End'
  <2>1. End' = End
    BY <1>1 DEF End, Size
  <2>2. CASE HasData
    BY <1>1, <2>1, <2>2, PacketSize
  <2>3. CASE ~HasData
    BY <1>1, <1>3, <2>1, <2>3, PacketSize DEF DeviceTypes
  <2>. QED BY <2>2, <2>3
<1>10. DeviceTypes'
  BY <1>1, <1>2, <1>3, <1>9 DEF DeviceTypes
<1>. QED BY <1>1, <1>2, <1>7, <1>8, <1>10 DEF bytes, bit, toggleVars

\* The host has the packet.
LEMMA AckStep ==
  ASSUME DeviceTypes, CtrlAcked
  PROVE  /\ DeviceTypes'
         /\ DeviceNow' = (IF usb_reset_q THEN "default" ELSE DeviceAfter)
         /\ usb_reset_q' = FALSE
         /\ addr_qq' = AddressAfter
         /\ UNCHANGED <<max_length_q, in_dir_q, req_q, in_endp_q, dev_state_q, addr_q,
                        line_coding_q>>
         /\ state_q' = StateAfterAck
         /\ HasZlp => state_q' = "idle"
         /\ state_q' = "status" => state_q = "data" \/ (state_q = "status" /\ in_dir_q)
         /\ state_q = "stall" <=> state_q' = "stall" /\ state_q # "setup"
         /\ ("ctrl" \in inToggles' <=> "ctrl" \notin inToggles)
         /\ ("ctrl" \in outToggles' <=> "ctrl" \in outToggles)
         /\ Toggle(inToggles, "bulk")' = IF ResetsIn THEN 0 ELSE Toggle(inToggles, "bulk")
         /\ Toggle(outToggles, "bulk")' = IF ResetsOut THEN 0 ELSE Toggle(outToggles, "bulk")
<1>1. /\ UNCHANGED <<max_length_q, in_dir_q, req_q, in_endp_q, dev_state_q, addr_q>>
      /\ UNCHANGED <<line_coding_q, in_byte_q>>
      /\ state_q' = StateAfterAck /\ addr_qq' = AddressAfter
      /\ byte_cnt_q' = (IF state_q \in {"data", "status"} THEN byte_cnt_q ELSE 0)
      /\ ClkGate(DeviceAfter)
  BY DEF CtrlAcked
<1>2. /\ inToggles' = FlipOf(inToggles, "ctrl") \ (IF ResetsIn THEN {"bulk"} ELSE {})
      /\ outToggles' = outToggles \ (IF ResetsOut THEN {"bulk"} ELSE {})
      /\ inToggles \in SUBSET Pipes /\ outToggles \in SUBSET Pipes
  BY DEF CtrlAcked, DeviceTypes
<1>3. DeviceAfter \in Devices /\ AddressAfter \in Nat
  BY DEF DeviceAfter, AddressAfter, DeviceTypes, Devices
<1>4. /\ dev_state_qq' \in Devices /\ usb_reset_q' = FALSE
      /\ DeviceNow' = IF usb_reset_q THEN "default" ELSE DeviceAfter
  BY <1>1, <1>3 DEF ClkGate, DeviceNow, Devices
<1>5. /\ inToggles' \in SUBSET Pipes
      /\ "ctrl" \in inToggles' <=> "ctrl" \notin inToggles
      /\ Toggle(inToggles, "bulk")' = IF ResetsIn THEN 0 ELSE Toggle(inToggles, "bulk")
  BY <1>2 DEF FlipOf, Set, Toggle, Pipes
<1>6. /\ outToggles' \in SUBSET Pipes
      /\ "ctrl" \in outToggles' <=> "ctrl" \in outToggles
      /\ Toggle(outToggles, "bulk")' = IF ResetsOut THEN 0 ELSE Toggle(outToggles, "bulk")
  BY <1>2 DEF Toggle, Pipes
<1>7. /\ StateAfterAck \in States
      /\ HasZlp => StateAfterAck = "idle"
      /\ StateAfterAck = "status" => state_q = "data" \/ (state_q = "status" /\ in_dir_q)
      /\ StateAfterAck = "data" => state_q = "data" /\ in_dir_q
      /\ state_q = "stall" <=> StateAfterAck = "stall" /\ state_q # "setup"
  <2>1. state_q \in States /\ in_dir_q \in BOOLEAN
    BY DEF DeviceTypes
  <2>2. /\ state_q = "data" => StateAfterAck \in {"status", "data"}
        /\ state_q = "data" /\ ~in_dir_q => StateAfterAck = "status"
        /\ state_q = "status" /\ in_dir_q => StateAfterAck = "status"
        /\ HasZlp => StateAfterAck = "idle"
        /\ state_q = "setup" => StateAfterAck = "stall"
        /\ state_q \in {"idle", "stall"} => StateAfterAck = state_q
    BY DEF StateAfterAck, HasZlp
  <2>3. HasZlp <=> state_q = "status" /\ ~in_dir_q
    BY DEF HasZlp
  <2>. HIDE DEF StateAfterAck, HasZlp
  <2>. QED BY <2>1, <2>2, <2>3 DEF States
<1>8. /\ byte_cnt_q' \in Nat
      /\ state_q' = "data" /\ in_dir_q' => byte_cnt_q' <= End'
  <2>1. End' = End
    BY <1>1 DEF End, Size
  <2>. QED BY <1>1, <1>7, <2>1 DEF DeviceTypes
<1>9. DeviceTypes'
  BY <1>1, <1>3, <1>4, <1>5, <1>6, <1>7, <1>8 DEF DeviceTypes
<1>. QED BY <1>1, <1>4, <1>5, <1>6, <1>7, <1>9

-----------------------------------------------------------------------------
(***************************************************************************)
(* Every step keeps the types.                                             *)
(***************************************************************************)
LEMMA Stored ==
  /\ request \in Requests =>
       /\ request.name \in Names /\ request.in \in BOOLEAN
       /\ request.value \in Nat /\ request.length \in Nat
       /\ request # NoRequest => request \in HostRequests
  /\ reply \in Replies =>
       /\ reply.kind \in {"stall", "nak", "data"} <=> reply # NoReply
       /\ reply.kind = "data" => reply.toggle \in {0, 1} /\ reply.data \in Seq(Nat)
  /\ NoReply \in Replies /\ NoReply.kind = "none"
  /\ ~NoRequest.in /\ NoRequest.name = "NONE" /\ NoRequest.length = 0 /\ NoRequest.value = 0
<1>1. ~NoRequest.in /\ NoRequest.name = "NONE" /\ NoRequest.length = 0 /\ NoRequest.value = 0
  BY DEF NoRequest, Req
<1>2. request \in Requests =>
        /\ request.name \in Names /\ request.in \in BOOLEAN
        /\ request.value \in Nat /\ request.length \in Nat
        /\ request # NoRequest => request \in HostRequests
  <2>1. SUFFICES ASSUME request \in Requests
                 PROVE  /\ request.name \in Names /\ request.in \in BOOLEAN
                        /\ request.value \in Nat /\ request.length \in Nat
                        /\ request # NoRequest => request \in HostRequests
    OBVIOUS
  <2>2. CASE request \in HostRequests
    BY <2>2, RequestFacts
  <2>3. CASE request = NoRequest
    <3>1. request.in = FALSE /\ request.name = "NONE" /\ request.length = 0 /\ request.value = 0
      BY <2>3 DEF NoRequest, Req
    <3>2. request.in \in BOOLEAN
      BY <3>1
    <3>3. request.name \in Names /\ request.value \in Nat /\ request.length \in Nat
      BY <3>1 DEF Names
    <3>. QED BY <2>3, <3>2, <3>3
  <2>. QED BY <2>1, <2>2, <2>3 DEF Requests
<1>3. reply \in Replies =>
        /\ reply.kind \in {"stall", "nak", "data"} <=> reply # NoReply
        /\ reply.kind = "data" => reply.toggle \in {0, 1} /\ reply.data \in Seq(Nat)
  <2>1. ASSUME reply \in [kind : {"data"}, toggle : {0, 1}, data : Seq(Nat)]
        PROVE  reply.kind = "data" /\ reply.toggle \in {0, 1} /\ reply.data \in Seq(Nat)
    BY <2>1
  <2>2. ASSUME reply \in [kind : {"stall", "nak"}] PROVE reply.kind \in {"stall", "nak"}
    BY <2>2
  <2>3. reply = NoReply => reply.kind = "none"
    BY DEF NoReply
  <2>. QED BY <2>1, <2>2, <2>3 DEF Replies
<1>4. NoReply \in Replies /\ NoReply.kind = "none"
  BY DEF NoReply, Replies
<1>. QED BY <1>1, <1>2, <1>3, <1>4

LEMMA EndsTypes ==
  ASSUME NEW result \in {"none", "ok", "stall", "nak"}, Ends(result), reply' = NoReply
  PROVE  TransferTypes' /\ StageFits'
<1>1. /\ stage' = "none" /\ outcome' = result /\ request' = NoRequest
      /\ got' = << >> /\ clean' = TRUE /\ ctrlToggle' = 1
  BY DEF Ends
<1>2. TransferTypes'
  <2>1. << >> \in Seq(Nat)
    OBVIOUS
  <2>. QED BY <1>1, <2>1 DEF TransferTypes, Requests
<1>3. StageFits'
  BY <1>1, Stored DEF StageFits
<1>. QED BY <1>2, <1>3

LEMMA DeviceKeptTypes ==
  ASSUME DeviceTypes, DeviceKept
  PROVE  /\ DeviceTypes' /\ DeviceNow' = DeviceNow /\ End' = End
         /\ UNCHANGED <<state_q, byte_cnt_q, max_length_q, in_dir_q, req_q, in_endp_q>>
         /\ UNCHANGED <<dev_state_q, dev_state_qq, addr_q, addr_qq, usb_reset_q>>
         /\ UNCHANGED <<line_coding_q, inToggles, outToggles, in_byte_q>>
<1>1. /\ UNCHANGED <<state_q, byte_cnt_q, max_length_q, in_dir_q, req_q, in_endp_q>>
      /\ UNCHANGED <<dev_state_q, dev_state_qq, addr_q, addr_qq, usb_reset_q>>
      /\ UNCHANGED <<line_coding_q, inToggles, outToggles, in_byte_q>>
  BY DEF DeviceKept, requestVars, deviceVars, toggleVars
<1>2. End' = End /\ DeviceNow' = DeviceNow
  BY <1>1 DEF End, Size, DeviceNow
<1>3. DeviceTypes'
  BY <1>1, <1>2 DEF DeviceTypes
<1>. QED BY <1>1, <1>2, <1>3

\* What a SETUP transaction of the host does, in any of its forms.
LEMMA HostSetupTypes ==
  ASSUME CtrlTypeOK, HostSetup
  PROVE  CtrlTypeOK' /\ request' \in HostRequests
<1>1. /\ reply = NoReply /\ reply' = NoReply /\ UNCHANGED hostView
      /\ got' = << >> /\ clean' = TRUE /\ ctrlToggle' = 1 /\ outcome' = "none"
  BY DEF HostSetup
<1>2. request' \in HostRequests
  <2>1. CASE stage = "none"
    BY <2>1 DEF HostSetup
  <2>2. CASE stage # "none"
    BY <2>2, Stored DEF HostSetup, CtrlTypeOK, StageFits, TransferTypes
  <2>. QED BY <2>1, <2>2
<1>3. ViewTypes'
  BY <1>1 DEF CtrlTypeOK, ViewTypes, hostView
<1>4. \/ SetupDone(request') /\ stage' \in {NextStage(request'), "setup"}
      \/ (SetupDamaged \/ SetupAlone) /\ stage' = "setup"
      \/ DeviceKept /\ stage' = "setup"
  BY DEF HostSetup
<1>5. DeviceTypes'
  BY <1>2, <1>4, SetupDoneStep, SetupBrokenStep, DeviceKeptTypes DEF CtrlTypeOK
<1>6. /\ request'.in \in BOOLEAN /\ request'.length \in Nat /\ request' # NoRequest
      /\ ~request'.in /\ request'.length # 0 => request'.name = "SET_LINE_CODING"
  BY <1>2, RequestFacts
<1>7. stage' = "setup" \/ stage' = (IF request'.in THEN "in"
                                    ELSE IF request'.length > 0 THEN "out" ELSE "status")
  BY <1>4 DEF NextStage
<1>8. TransferTypes'
  <2>1. << >> \in Seq(Nat)
    OBVIOUS
  <2>. QED BY <1>1, <1>2, <1>7, <2>1 DEF TransferTypes, Requests
<1>9. StageFits'
  BY <1>1, <1>6, <1>7, Stored DEF StageFits
<1>. QED BY <1>2, <1>3, <1>5, <1>8, <1>9 DEF CtrlTypeOK

\* The bytes of an OUT packet, damaged or not.
OutLength == IF stage = "out" THEN request.length ELSE 0

LEMMA HostOutParts ==
  ASSUME CtrlTypeOK, HostOut
  PROVE  /\ reply = NoReply /\ reply' = NoReply /\ ~Deaf /\ OutLength \in Nat
         /\ request.value \in Nat /\ ctrlToggle \in {0, 1}
         /\ stage = "out" \/ (stage = "status" /\ request.in)
         /\ \/ OutDone(OutLength, request.value, ctrlToggle)
            \/ \E k \in Nat, value \in Nat :
                 k <= OutLength /\ OutDamaged(k, value)
         /\ \/ Ends("stall") /\ Stalled(OutLength) /\ NoLineFault
            \/ Ends("ok") /\ ~Stalled(OutLength) /\ NoLineFault /\ stage = "status"
            \/ /\ UNCHANGED <<request, got, ctrlToggle, outcome>>
               /\ \/ /\ stage = "out" /\ stage' = "status" /\ ~Stalled(OutLength)
                     /\ clean' = clean
                     /\ OutDone(OutLength, request.value, ctrlToggle)
                  \/ stage' = stage /\ Dirty
         /\ Ends("stall") \/ Ends("ok") => OutDone(OutLength, request.value, ctrlToggle)
         /\ hostLine' = IF stage = "out" THEN UnknownLine ELSE hostLine
         /\ UNCHANGED <<hostAddr, hostState, hostIn, hostOut, sure>>
<1>1. request.length \in Nat /\ request.value \in Nat /\ ctrlToggle \in {0, 1}
  BY Stored DEF CtrlTypeOK, TransferTypes
<1>2. OutLength \in Nat
  BY <1>1 DEF OutLength
<1>3. /\ reply = NoReply /\ reply' = NoReply /\ ~Deaf
      /\ stage = "out" \/ (stage = "status" /\ request.in)
      /\ hostLine' = IF stage = "out" THEN UnknownLine ELSE hostLine
      /\ UNCHANGED <<hostAddr, hostState, hostIn, hostOut, sure>>
  BY DEF HostOut
<1>4. \/ /\ NoLineFault /\ OutDone(OutLength, request.value, ctrlToggle)
         /\ \/ Stalled(OutLength) /\ Ends("stall")
            \/ ~Stalled(OutLength) /\ stage = "status" /\ Ends("ok")
            \/ /\ ~Stalled(OutLength) /\ stage = "out" /\ stage' = "status"
               /\ UNCHANGED <<request, got, clean, ctrlToggle, outcome>>
      \/ /\ Dirty /\ UNCHANGED <<stage, request, got, ctrlToggle, outcome>>
         /\ \/ OutDone(OutLength, request.value, ctrlToggle)
            \/ \E k \in 0 .. OutLength, value \in HostCodings : OutDamaged(k, value)
  BY DEF HostOut, OutLength
<1>5. ASSUME \E k \in 0 .. OutLength, value \in HostCodings : OutDamaged(k, value)
      PROVE  \E k \in Nat, value \in Nat : k <= OutLength /\ OutDamaged(k, value)
  BY <1>2, <1>5, CtrlAssumption
<1>6. ASSUME Ends("stall") \/ Ends("ok") PROVE stage' # stage
  BY <1>3, <1>6 DEF Ends
<1>. QED BY <1>1, <1>2, <1>3, <1>4, <1>5, <1>6

LEMMA HostOutTypes ==
  ASSUME CtrlTypeOK, HostOut
  PROVE  CtrlTypeOK'
<1>1. DeviceTypes'
  BY HostOutParts, OutDoneStep, OutDamagedStep DEF CtrlTypeOK
<1>2. ViewTypes'
  BY HostOutParts DEF CtrlTypeOK, ViewTypes, UnknownLine
<1>3. ASSUME Ends("stall") \/ Ends("ok") PROVE TransferTypes' /\ StageFits'
  BY <1>3, HostOutParts, EndsTypes
<1>4. ASSUME UNCHANGED <<request, got, ctrlToggle, outcome>>,
             \/ stage = "out" /\ stage' = "status" /\ clean' = clean
             \/ stage' = stage /\ Dirty
      PROVE  TransferTypes' /\ StageFits'
  <2>1. TransferTypes'
    BY <1>4 DEF CtrlTypeOK, TransferTypes, Dirty
  <2>2. StageFits'
    BY <1>4, HostOutParts, Stored DEF CtrlTypeOK, StageFits
  <2>. QED BY <2>1, <2>2
<1>. QED BY <1>1, <1>2, <1>3, <1>4, HostOutParts DEF CtrlTypeOK

LEMMA HostInTypes ==
  ASSUME CtrlTypeOK, HostIn
  PROVE  CtrlTypeOK'
<1>1. /\ InToken
      /\ stage = "in" \/ (stage = "status" /\ ~request.in)
      /\ UNCHANGED <<stage, request, got, clean, ctrlToggle, outcome>>
      /\ UNCHANGED <<hostAddr, hostState, hostLine, hostIn, hostOut, sure>>
  BY DEF HostIn, transferVars, hostView
<1>2. TransferTypes' /\ ViewTypes'
  BY <1>1 DEF CtrlTypeOK, TransferTypes, ViewTypes
<1>3. /\ DeviceTypes' /\ reply' \in Replies
      /\ state_q' = state_q /\ inToggles' = inToggles
      /\ reply'.kind = "stall" <=> state_q = "stall"
      /\ reply'.kind = "data" => reply'.toggle = Toggle(inToggles, "ctrl")
  <2>1. /\ DeviceTypes' /\ reply' \in Replies
        /\ UNCHANGED state_q /\ UNCHANGED toggleVars
    BY <1>1, InTokenStep DEF CtrlTypeOK
  <2>2. reply'.kind = "stall" <=> state_q = "stall"
    BY <1>1, InTokenStep DEF CtrlTypeOK
  <2>3. reply'.kind = "data" => reply'.toggle = Toggle(inToggles, "ctrl")
    BY <1>1, InTokenStep DEF CtrlTypeOK
  <2>. QED BY <2>1, <2>2, <2>3 DEF toggleVars
<1>4. StageFits'
  <2>1. reply'.kind = "data" => state_q' # "stall" /\ reply'.toggle = Toggle(inToggles, "ctrl")'
    BY <1>3 DEF Toggle
  <2>. QED BY <1>1, <1>3, <2>1 DEF CtrlTypeOK, StageFits
<1>. QED BY <1>2, <1>3, <1>4 DEF CtrlTypeOK

LEMMA HostRefusedTypes ==
  ASSUME CtrlTypeOK, HostRefused
  PROVE  CtrlTypeOK'
<1>1. reply' = NoReply /\ DeviceKept /\ UNCHANGED hostView
  BY DEF HostRefused
<1>2. DeviceTypes' /\ ViewTypes'
  BY <1>1, DeviceKeptTypes DEF CtrlTypeOK, ViewTypes, hostView
<1>3. CASE Ends("stall")
  BY <1>1, <1>2, <1>3, EndsTypes DEF CtrlTypeOK
<1>4. CASE outcome' = "nak" /\ UNCHANGED <<stage, request, got, clean, ctrlToggle>>
  <2>1. TransferTypes'
    BY <1>4 DEF CtrlTypeOK, TransferTypes
  <2>2. StageFits'
    BY <1>1, <1>4, Stored DEF CtrlTypeOK, StageFits
  <2>. QED BY <1>2, <2>1, <2>2 DEF CtrlTypeOK
<1>. QED BY <1>3, <1>4 DEF HostRefused

\* A packet that reached the host, acknowledged or not.
LEMMA HostTakesReplyTypes ==
  ASSUME CtrlTypeOK, HostTakesReply
  PROVE  CtrlTypeOK'
<1>1. /\ reply.kind = "data" /\ reply' = NoReply
      /\ reply.toggle \in {0, 1} /\ reply.data \in Seq(Nat)
      /\ reply # NoReply
      /\ stage = "in" \/ (stage = "status" /\ ~request.in)
  BY Stored DEF HostTakesReply, CtrlTypeOK, StageFits
<1>2. DeviceTypes'
  BY AckStep, DeviceKeptTypes DEF HostTakesReply, CtrlTypeOK
<1>3. \/ (HostKeeps(UNCHANGED clean) \/ HostKeeps(Dirty)) /\ sure' \in BOOLEAN
      \/ Dirty /\ UNCHANGED <<stage, request, got, ctrlToggle, outcome, hostView>>
  BY DEF HostTakesReply, CtrlTypeOK, ViewTypes
<1>4. ASSUME NEW damage, damage => clean' \in BOOLEAN, HostKeeps(damage)
      PROVE  TransferTypes' /\ StageFits'
             /\ hostAddr' \in Nat /\ hostState' \in Devices /\ hostLine' \in Nat
             /\ hostIn' \in {0, 1} /\ hostOut' \in {0, 1}
  <2>1. CASE reply.toggle # ctrlToggle
    <3>1. /\ UNCHANGED <<stage, request, got, ctrlToggle, outcome>> /\ clean' \in BOOLEAN
          /\ UNCHANGED <<hostAddr, hostState, hostLine, hostIn, hostOut>>
      BY <1>4, <2>1 DEF HostKeeps
    <3>. QED BY <1>1, <3>1, Stored DEF CtrlTypeOK, TransferTypes, ViewTypes, StageFits
  <2>2. CASE stage = "status" /\ Ends("ok") /\ HostLearns
    <3>1. request.value \in Nat
      BY Stored DEF CtrlTypeOK, TransferTypes
    <3>2. /\ hostAddr' \in Nat /\ hostState' \in Devices /\ hostLine' \in Nat
          /\ hostIn' \in {0, 1} /\ hostOut' \in {0, 1}
      BY <2>2, <3>1 DEF HostLearns, CtrlTypeOK, ViewTypes, Devices
    <3>. QED BY <1>1, <2>2, <3>2, EndsTypes
  <2>3. CASE reply.toggle = ctrlToggle /\ stage = "in"
    <3>1. /\ stage' \in {"status", "in"} /\ ctrlToggle' \in {1, 1 - ctrlToggle}
          /\ got' = got \o reply.data /\ clean' \in BOOLEAN
          /\ UNCHANGED <<request, outcome>>
          /\ UNCHANGED <<hostAddr, hostState, hostLine, hostIn, hostOut>>
      BY <1>4, <2>3 DEF HostKeeps
    <3>2. got' \in Seq(Nat)
      BY <1>1, <3>1 DEF CtrlTypeOK, TransferTypes
    <3>3. TransferTypes'
      BY <3>1, <3>2 DEF CtrlTypeOK, TransferTypes
    <3>4. StageFits'
      BY <1>1, <2>3, <3>1, Stored DEF CtrlTypeOK, StageFits
    <3>. QED BY <3>1, <3>3, <3>4 DEF CtrlTypeOK, ViewTypes
  <2>. QED BY <1>4, <2>1, <2>2, <2>3 DEF HostKeeps
<1>5. (UNCHANGED clean => clean' \in BOOLEAN) /\ (Dirty => clean' \in BOOLEAN)
  BY DEF Dirty, CtrlTypeOK, TransferTypes
<1>6. CASE (HostKeeps(UNCHANGED clean) \/ HostKeeps(Dirty)) /\ sure' \in BOOLEAN
  BY <1>2, <1>4, <1>5, <1>6 DEF CtrlTypeOK, ViewTypes
<1>7. CASE Dirty /\ UNCHANGED <<stage, request, got, ctrlToggle, outcome, hostView>>
  <2>1. TransferTypes' /\ ViewTypes'
    BY <1>5, <1>7 DEF CtrlTypeOK, TransferTypes, ViewTypes, hostView
  <2>2. StageFits'
    BY <1>1, <1>7, Stored DEF CtrlTypeOK, StageFits
  <2>. QED BY <1>2, <2>1, <2>2 DEF CtrlTypeOK
<1>. QED BY <1>3, <1>6, <1>7

LEMMA HostGivesUpTypes ==
  ASSUME CtrlTypeOK, HostGivesUp
  PROVE  CtrlTypeOK'
BY EndsTypes, DeviceKeptTypes DEF CtrlTypeOK, ViewTypes, HostGivesUp

LEMMA BulkTypes ==
  ASSUME CtrlTypeOK, BulkInPasses \/ BulkOutPasses
  PROVE  CtrlTypeOK'
<1>1. /\ reply = NoReply /\ reply' = NoReply
      /\ UNCHANGED <<state_q, requestVars, deviceVars, line_coding_q, transferVars>>
      /\ UNCHANGED <<hostAddr, hostState, hostLine, sure>>
      /\ inToggles' \in {inToggles, FlipOf(inToggles, "bulk")}
      /\ outToggles' \in {outToggles, outToggles \ {"bulk"}, FlipOf(outToggles, "bulk")}
      /\ in_byte_q' \in Nat
      /\ hostIn' \in {hostIn, 1 - hostIn} /\ hostOut' \in {hostOut, 1 - hostOut}
  <2>1. CASE BulkInPasses
    <3>1. in_byte_q' \in 0 .. CTRL_MAXPACKETSIZE
      BY <2>1 DEF BulkInPasses
    <3>2. in_byte_q' \in Nat
      BY <3>1, Lengths
    <3>. QED BY <2>1, <3>2 DEF BulkInPasses, UsesBulk
  <2>2. CASE BulkOutPasses
    BY <2>2 DEF BulkOutPasses, UsesBulk, CtrlTypeOK, DeviceTypes
  <2>. QED BY <2>1, <2>2
<1>2. inToggles' \in SUBSET Pipes /\ outToggles' \in SUBSET Pipes
  BY <1>1 DEF CtrlTypeOK, DeviceTypes, FlipOf, Set, Pipes
<1>3. End' = End
  BY <1>1 DEF requestVars, End, Size
<1>4. DeviceTypes'
  BY <1>1, <1>2, <1>3 DEF CtrlTypeOK, DeviceTypes, requestVars, deviceVars
<1>5. TransferTypes' /\ ViewTypes'
  BY <1>1 DEF CtrlTypeOK, TransferTypes, ViewTypes, transferVars
<1>6. StageFits'
  BY <1>1, Stored DEF CtrlTypeOK, StageFits, transferVars
<1>. QED BY <1>4, <1>5, <1>6 DEF CtrlTypeOK

LEMMA LineCodingType ==
  ASSUME NEW c \in Nat
  PROVE  LineCoding(c) \in [0 .. CDC_LINE_CODING_LENGTH - 1 -> Nat]
BY DEF LineCoding

LEMMA BusResetTypes ==
  ASSUME CtrlTypeOK, BusReset
  PROVE  CtrlTypeOK'
<1>1. DeviceTypes'
  BY LineCodingType DEF BusReset, CtrlTypeOK, DeviceTypes, States, Names, Devices
<1>. QED BY <1>1, EndsTypes DEF BusReset, CtrlTypeOK, ViewTypes, Devices

LEMMA InitTypes ==
  ASSUME CtrlInit
  PROVE  CtrlTypeOK
<1>1. DeviceTypes
  BY LineCodingType DEF CtrlInit, DeviceTypes, States, Names, Devices
<1>2. TransferTypes
  <2>1. << >> \in Seq(Nat)
    OBVIOUS
  <2>. QED BY <2>1 DEF CtrlInit, TransferTypes, Requests
<1>3. StageFits /\ ViewTypes
  BY Stored DEF CtrlInit, StageFits, ViewTypes, Devices
<1>. QED BY <1>1, <1>2, <1>3 DEF CtrlTypeOK

LEMMA StutterTypes ==
  ASSUME CtrlTypeOK, UNCHANGED ctrlVars
  PROVE  CtrlTypeOK'
<1>1. DeviceKept /\ UNCHANGED <<reply, transferVars, hostView>>
  BY DEF ctrlVars, DeviceKept
<1>2. DeviceTypes' /\ UNCHANGED <<state_q, inToggles>>
  BY <1>1, DeviceKeptTypes DEF CtrlTypeOK
<1>3. TransferTypes' /\ ViewTypes'
  BY <1>1 DEF CtrlTypeOK, TransferTypes, ViewTypes, transferVars, hostView
<1>4. StageFits'
  BY <1>1, <1>2 DEF CtrlTypeOK, StageFits, Toggle, transferVars
<1>. QED BY <1>2, <1>3, <1>4 DEF CtrlTypeOK

LEMMA CtrlTypesStep ==
  ASSUME CtrlTypeOK, [CtrlNext]_ctrlVars
  PROVE  CtrlTypeOK'
BY HostSetupTypes, HostOutTypes, HostInTypes, HostRefusedTypes, HostTakesReplyTypes,
   HostGivesUpTypes, BulkTypes, BusResetTypes, StutterTypes DEF CtrlNext

-----------------------------------------------------------------------------
(***************************************************************************)
(* The invariant, while nothing that changes the device's state ended in   *)
(* doubt.                                                                  *)
(***************************************************************************)

\* After its SETUP the device serves the host's request, or refuses it.
Served ==
  stage \in {"in", "out", "status"} =>
    /\ ~usb_reset_q /\ req_q \in {request.name, "UNSUPPORTED"}
    /\ ~request.in => "ctrl" \in inToggles /\ ctrlToggle = 1

\* A request without data is accepted and waits for its status stage.
Pending ==
  stage = "status" /\ ~request.in /\ request.length = 0 /\ state_q # "stall" =>
    /\ state_q = "status" /\ ~in_dir_q /\ req_q = request.name
    /\ req_q = "SET_ADDRESS" => addr_q = request.value
    /\ req_q = "SET_CONFIGURATION" =>
         dev_state_q = IF request.value = 1 THEN "configured" ELSE "address"
    /\ req_q = "CLEAR_FEATURE" => in_endp_q = (request.value = InPipe)

\* The toggles are about to be reset only for the host's request.
Resets ==
  HasZlp /\ req_q \in {"SET_CONFIGURATION", "CLEAR_FEATURE"} =>
    /\ stage \in {"setup", "status"} /\ request.name = req_q
    /\ req_q = "CLEAR_FEATURE" => in_endp_q = (request.value = InPipe)

\* A line coding whose data stage meets no fault is stored whole.
LineKept ==
  request.name = "SET_LINE_CODING" /\ clean =>
    /\ stage = "out" /\ state_q # "stall" =>
         /\ state_q = "data" /\ ~in_dir_q /\ req_q = "SET_LINE_CODING"
         /\ byte_cnt_q = 0 /\ "ctrl" \in outToggles /\ ctrlToggle = 1
    /\ stage = "status" => line_coding_q = LineCoding(request.value)

\* A bulk IN handshake may have reset the OUT toggle before the host has.
ResetEarly ==
  /\ stage \in {"setup", "status"} /\ hostState = "configured"
  /\ request.name = "CLEAR_FEATURE" /\ request.value = OutPipe
  /\ stage = "status" => state_q = "status"
Agree ==
  /\ addr_qq = hostAddr /\ DeviceNow = hostState
  /\ hostLine # UnknownLine => line_coding_q = LineCoding(hostLine)
  /\ Toggle(inToggles, "bulk") = hostIn
  /\ Toggle(outToggles, "bulk") = hostOut \/ ResetEarly

Faithful == Served /\ Pending /\ Resets /\ LineKept /\ Agree
CtrlInv == CtrlTypeOK /\ (sure => Faithful)

-----------------------------------------------------------------------------
(***************************************************************************)
(* Every step keeps it.                                                    *)
(***************************************************************************)
LEMMA HostSetupKeeps ==
  ASSUME CtrlTypeOK, Faithful, HostSetup
  PROVE  Faithful'
<1>. DEFINE r == request'
<1>1. /\ ctrlToggle' = 1 /\ clean' = TRUE
      /\ UNCHANGED <<hostAddr, hostState, hostLine, hostIn, hostOut>>
      /\ stage = "none" \/ (stage = "setup" /\ r = request)
  BY DEF HostSetup, hostView
<1>2. DeviceTypes /\ r \in HostRequests
  BY HostSetupTypes DEF CtrlTypeOK
<1>3. /\ r.in \in BOOLEAN /\ r.length \in Nat /\ CDC_LINE_CODING_LENGTH > 0
      /\ r.name \in {"SET_ADDRESS", "SET_CONFIGURATION", "CLEAR_FEATURE"}
           => ~r.in /\ r.length = 0
      /\ r.name = "SET_LINE_CODING" => ~r.in /\ r.length = CDC_LINE_CODING_LENGTH
  BY <1>2, RequestFacts, Lengths
<1>4. /\ addr_qq = hostAddr /\ DeviceNow = hostState
      /\ Toggle(inToggles, "bulk") = hostIn
      /\ hostLine # UnknownLine => line_coding_q = LineCoding(hostLine)
      /\ \/ Toggle(outToggles, "bulk") = hostOut
         \/ /\ stage = "setup" /\ hostState = "configured"
            /\ r.name = "CLEAR_FEATURE" /\ r.value = OutPipe
  BY <1>1 DEF Faithful, Agree, ResetEarly
<1>5. CASE SetupDone(r) /\ stage' \in {NextStage(r), "setup"}
  <2>1. /\ DeviceNow' = DeviceNow /\ usb_reset_q' = FALSE
        /\ addr_qq' = addr_qq /\ line_coding_q' = line_coding_q /\ byte_cnt_q' = 0
        /\ "ctrl" \in inToggles' /\ "ctrl" \in outToggles'
        /\ Toggle(inToggles, "bulk")' = Toggle(inToggles, "bulk")
        /\ Toggle(outToggles, "bulk")' = Toggle(outToggles, "bulk")
    BY <1>2, <1>5, SetupDoneStep
  <2>2. ~Accepted(r.name, DeviceNow) => req_q' = "UNSUPPORTED" /\ state_q' = "stall"
    BY <1>2, <1>5, SetupDoneStep
  <2>3. Accepted(r.name, DeviceNow) =>
          /\ req_q' = r.name /\ in_dir_q' = r.in
          /\ state_q' = IF r.in \/ r.length # 0 THEN "data" ELSE "status"
          /\ r.name = "SET_ADDRESS" => addr_q' = r.value
          /\ r.name = "SET_CONFIGURATION" =>
               dev_state_q' = IF r.value = 1 THEN "configured" ELSE "address"
          /\ r.name = "CLEAR_FEATURE" => in_endp_q' = (r.value = InPipe)
    BY <1>2, <1>5, SetupDoneStep
  <2>4. stage' = "setup" \/ stage' = (IF r.in THEN "in"
                                      ELSE IF r.length > 0 THEN "out" ELSE "status")
    BY <1>5 DEF NextStage
  <2>5. r.name = "CLEAR_FEATURE" /\ hostState = "configured" => Accepted(r.name, DeviceNow)
    BY <1>4 DEF Accepted
  <2>. HIDE DEF r
  <2>6. Served'
    BY <1>1, <2>1, <2>2, <2>3 DEF Served, r
  <2>7. Pending'
    BY <1>3, <2>2, <2>3 DEF Pending, r
  <2>8. Resets'
    BY <1>3, <2>2, <2>3, <2>4 DEF Resets, HasZlp, r
  <2>9. LineKept'
    BY <1>1, <1>3, <2>1, <2>2, <2>3, <2>4 DEF LineKept, r
  <2>10. Toggle(outToggles, "bulk")' = hostOut' \/ ResetEarly'
    BY <1>1, <1>3, <1>4, <2>1, <2>3, <2>4, <2>5 DEF ResetEarly, r
  <2>11. Agree'
    BY <1>1, <1>4, <2>1, <2>10 DEF Agree
  <2>. QED BY <2>6, <2>7, <2>8, <2>9, <2>11 DEF Faithful
<1>6. CASE (SetupDamaged \/ SetupAlone) /\ stage' = "setup"
  <2>1. /\ DeviceNow' = DeviceNow /\ addr_qq' = addr_qq /\ line_coding_q' = line_coding_q
        /\ state_q' \in {"idle", "setup"}
        /\ Toggle(inToggles, "bulk")' = Toggle(inToggles, "bulk")
        /\ Toggle(outToggles, "bulk")' = Toggle(outToggles, "bulk")
    BY <1>2, <1>6, SetupBrokenStep
  <2>2. Served' /\ Pending' /\ Resets' /\ LineKept'
    BY <1>6, <2>1 DEF Served, Pending, Resets, LineKept, HasZlp
  <2>3. Agree'
    BY <1>1, <1>4, <1>6, <2>1 DEF Agree, ResetEarly
  <2>. QED BY <2>2, <2>3 DEF Faithful
<1>. QED BY <1>4, <1>5, <1>6 DEF HostSetup, Deaf

LEMMA HostOutKeeps ==
  ASSUME CtrlTypeOK, Faithful, HostOut
  PROVE  Faithful'
<1>. DEFINE n == OutLength
<1>1. /\ stage = "out" \/ (stage = "status" /\ request.in)
      /\ n \in Nat /\ request.value \in Nat /\ ctrlToggle \in {0, 1}
      /\ UNCHANGED <<hostAddr, hostState, hostIn, hostOut>>
      /\ hostLine' = IF stage = "out" THEN UnknownLine ELSE hostLine
  BY HostOutParts
<1>2. \/ OutDone(n, request.value, ctrlToggle)
      \/ \E k \in Nat, value \in Nat : k <= n /\ OutDamaged(k, value)
  BY HostOutParts
<1>3. /\ DeviceTypes /\ request \in HostRequests
      /\ stage = "out" => request.name = "SET_LINE_CODING"
  BY <1>1, Stored DEF CtrlTypeOK, TransferTypes, StageFits
<1>4. /\ request.name \notin {"SET_ADDRESS", "SET_CONFIGURATION", "CLEAR_FEATURE"}
      /\ request.name = "SET_LINE_CODING" => stage = "out"
      /\ stage = "out" => n = CDC_LINE_CODING_LENGTH /\ request.length # 0
      /\ stage # "out" => n = 0
      /\ request.in \in BOOLEAN
  BY <1>1, <1>3, RequestFacts, Lengths DEF OutLength
<1>. HIDE DEF n
<1>5. /\ DeviceNow' = DeviceNow /\ usb_reset_q' = FALSE
      /\ UNCHANGED <<in_dir_q, req_q, in_endp_q, addr_qq, inToggles>>
      /\ Toggle(outToggles, "bulk")' = Toggle(outToggles, "bulk")
      /\ n = 0 => line_coding_q' = line_coding_q
  <2>1. CASE OutDone(n, request.value, ctrlToggle)
    BY <1>1, <1>3, <2>1, OutDoneStep
  <2>2. CASE \E k \in Nat, value \in Nat : k <= n /\ OutDamaged(k, value)
    <3>1. PICK k \in Nat, value \in Nat : k <= n /\ OutDamaged(k, value)
      BY <2>2
    <3>2. n = 0 => k = 0
      BY <1>1, <3>1
    <3>. QED BY <1>3, <3>1, <3>2, OutDamagedStep DEF toggleVars, Toggle
  <2>. QED BY <1>2, <2>1, <2>2
<1>6. /\ \/ stage' = "none" /\ request' = NoRequest
         \/ request' = request /\ ctrlToggle' = ctrlToggle
            /\ \/ /\ stage = "out" /\ stage' = "status" /\ ~Stalled(n) /\ clean' = clean
                  /\ OutDone(n, request.value, ctrlToggle)
               \/ stage' = stage /\ Dirty
  BY HostOutParts DEF Ends, n
<1>7. req_q \in {request.name, "UNSUPPORTED"} /\ ~usb_reset_q
  BY <1>1 DEF Faithful, Served
<1>8. req_q \notin {"SET_ADDRESS", "SET_CONFIGURATION", "CLEAR_FEATURE"}
  BY <1>4, <1>7
<1>9. Served'
  BY <1>1, <1>5, <1>6, <1>7 DEF Faithful, Served
<1>10. Pending'
  BY <1>1, <1>4, <1>6, Stored DEF Pending
<1>11. Resets'
  BY <1>5, <1>8 DEF Resets
<1>12. LineKept'
  <2>1. CASE stage' = "none"
    BY <2>1 DEF LineKept
  <2>2. CASE /\ stage = "out" /\ stage' = "status" /\ ~Stalled(n) /\ clean' = clean
             /\ request' = request
             /\ OutDone(n, request.value, ctrlToggle)
    <3>1. clean /\ request.name = "SET_LINE_CODING" => StoresLine /\ byte_cnt_q = 0
      BY <2>2 DEF Faithful, LineKept, Stalled, StoresLine
    <3>2. StoresLine /\ byte_cnt_q = 0 => line_coding_q' = LineCoding(request.value)
      BY <1>1, <1>3, <1>4, <2>2, OutDoneStep
    <3>. QED BY <2>2, <3>1, <3>2 DEF LineKept
  <2>3. CASE stage' = stage /\ Dirty /\ request' = request
    BY <1>4, <2>3 DEF LineKept, Dirty
  <2>. QED BY <1>6, <2>1, <2>2, <2>3
<1>13. Agree'
  BY <1>1, <1>4, <1>5 DEF Faithful, Agree, ResetEarly
<1>. QED BY <1>9, <1>10, <1>11, <1>12, <1>13 DEF Faithful

LEMMA HostInKeeps ==
  ASSUME CtrlTypeOK, Faithful, HostIn
  PROVE  Faithful'
<1>1. /\ InToken /\ DeviceTypes
      /\ stage \in {"in", "status"}
      /\ UNCHANGED <<stage, request, clean, ctrlToggle>>
      /\ UNCHANGED <<hostAddr, hostState, hostLine, hostIn, hostOut>>
  BY DEF HostIn, transferVars, hostView, CtrlTypeOK
<1>2. /\ DeviceNow' = DeviceNow /\ usb_reset_q' \in {usb_reset_q, FALSE}
      /\ UNCHANGED <<state_q, in_dir_q, req_q, in_endp_q, dev_state_q>>
      /\ UNCHANGED <<addr_q, addr_qq, line_coding_q, inToggles, outToggles>>
  BY <1>1, InTokenStep DEF toggleVars
<1>3. Served' /\ Pending'
  <2>1. ~usb_reset_q => ~usb_reset_q'
    BY <1>2
  <2>2. Served'
    BY <1>1, <1>2, <2>1 DEF Faithful, Served
  <2>. QED BY <1>1, <1>2, <2>2 DEF Faithful, Pending
<1>4. Resets' /\ LineKept'
  BY <1>1, <1>2 DEF Faithful, Resets, LineKept, HasZlp
<1>5. Agree'
  BY <1>1, <1>2 DEF Faithful, Agree, ResetEarly, Toggle
<1>. QED BY <1>3, <1>4, <1>5 DEF Faithful

LEMMA HostRefusedKeeps ==
  ASSUME CtrlTypeOK, Faithful, HostRefused
  PROVE  Faithful'
<1>1. /\ DeviceNow' = DeviceNow
      /\ UNCHANGED <<state_q, byte_cnt_q, max_length_q, in_dir_q, req_q, in_endp_q>>
      /\ UNCHANGED <<dev_state_q, dev_state_qq, addr_q, addr_qq, usb_reset_q>>
      /\ UNCHANGED <<line_coding_q, inToggles, outToggles, in_byte_q>>
      /\ UNCHANGED <<hostAddr, hostState, hostLine, hostIn, hostOut>>
  BY DeviceKeptTypes DEF HostRefused, CtrlTypeOK, hostView
<1>2. CASE reply.kind = "stall" /\ Ends("stall")
  <2>1. /\ state_q = "stall" /\ stage' = "none" /\ request' = NoRequest
        /\ stage \in {"in", "status"}
    BY <1>2, Stored DEF Ends, CtrlTypeOK, StageFits
  <2>2. Served' /\ Pending' /\ Resets' /\ LineKept'
    BY <1>1, <2>1 DEF Served, Pending, Resets, LineKept, HasZlp
  <2>3. Agree'
    BY <1>1, <2>1 DEF Faithful, Agree, ResetEarly, Toggle
  <2>. QED BY <2>2, <2>3 DEF Faithful
<1>3. CASE UNCHANGED <<stage, request, got, clean, ctrlToggle>>
  <2>1. Served' /\ Pending'
    BY <1>1, <1>3 DEF Faithful, Served, Pending
  <2>2. Resets' /\ LineKept'
    BY <1>1, <1>3 DEF Faithful, Resets, LineKept, HasZlp
  <2>3. Agree'
    BY <1>1, <1>3 DEF Faithful, Agree, ResetEarly, Toggle
  <2>. QED BY <2>1, <2>2, <2>3 DEF Faithful
<1>. QED BY <1>2, <1>3 DEF HostRefused

\* A packet of a data stage that the host has, or does not: nothing that the
\* two agree on changes.
LEMMA DataStageKeeps ==
  ASSUME CtrlTypeOK, Faithful, stage = "in",
         UNCHANGED <<request, hostAddr, hostState, hostLine, hostIn, hostOut>>,
         stage' \in {"in", "status"}, DeviceKept \/ CtrlAcked
  PROVE  Faithful'
<1>1. /\ DeviceTypes /\ request.in /\ request \in HostRequests
      /\ req_q \in {request.name, "UNSUPPORTED"} /\ ~usb_reset_q
  BY Stored DEF CtrlTypeOK, TransferTypes, StageFits, Faithful, Served
<1>2. request.name \notin {"SET_ADDRESS", "SET_CONFIGURATION", "CLEAR_FEATURE",
                           "SET_LINE_CODING"}
  BY <1>1, RequestFacts
<1>3. req_q \notin {"SET_ADDRESS", "SET_CONFIGURATION", "CLEAR_FEATURE"}
  BY <1>1, <1>2
<1>4. ~ResetsIn /\ ~ResetsOut /\ AddressAfter = addr_qq /\ DeviceAfter = dev_state_qq
  BY <1>3 DEF ResetsIn, ResetsOut, AddressAfter, DeviceAfter
<1>5. /\ DeviceNow' = DeviceNow /\ ~usb_reset_q'
      /\ UNCHANGED <<in_dir_q, req_q, addr_qq, line_coding_q>>
      /\ Toggle(inToggles, "bulk")' = Toggle(inToggles, "bulk")
      /\ Toggle(outToggles, "bulk")' = Toggle(outToggles, "bulk")
  <2>1. CASE CtrlAcked
    BY <1>1, <1>4, <2>1, AckStep DEF DeviceNow
  <2>2. CASE DeviceKept
    BY <1>1, <2>2, DeviceKeptTypes DEF Toggle
  <2>. QED BY <2>1, <2>2
<1>6. Served' /\ Pending' /\ Resets' /\ LineKept'
  BY <1>1, <1>2, <1>3, <1>5 DEF Served, Pending, Resets, LineKept
<1>7. Agree'
  BY <1>2, <1>5 DEF Faithful, Agree, ResetEarly
<1>. QED BY <1>6, <1>7 DEF Faithful

\* The request takes effect with the handshake of its status stage.
LEMMA StatusAckedKeeps ==
  ASSUME CtrlTypeOK, Faithful, stage = "status", ~request.in, reply.kind = "data",
         Ends("ok"), HostLearns, CtrlAcked
  PROVE  Faithful'
<1>. DEFINE r == request
<1>1. DeviceTypes /\ r \in HostRequests /\ state_q # "stall" /\ ~usb_reset_q
      /\ req_q \in {r.name, "UNSUPPORTED"}
  BY Stored DEF CtrlTypeOK, TransferTypes, StageFits, Faithful, Served
<1>2. /\ r.length = 0 \/ r.name = "SET_LINE_CODING"
      /\ r.name = "SET_CONFIGURATION" => r.length = 0 /\ r.value \in {0, 1}
      /\ r.name = "CLEAR_FEATURE" => r.length = 0 /\ r.value \in {0, 1}
      /\ r.name = "SET_ADDRESS" => r.length = 0
  BY <1>1, RequestFacts
<1>3. stage' = "none" /\ request' = NoRequest
  BY DEF Ends
<1>4. r.length = 0 =>
        /\ HasZlp /\ req_q = r.name
        /\ r.name = "SET_ADDRESS" => addr_q = r.value
        /\ r.name = "SET_CONFIGURATION" =>
             dev_state_q = IF r.value = 1 THEN "configured" ELSE "address"
        /\ r.name = "CLEAR_FEATURE" => in_endp_q = (r.value = InPipe)
  BY <1>1 DEF Faithful, Pending, HasZlp
<1>5. /\ DeviceNow' = DeviceAfter /\ addr_qq' = AddressAfter
      /\ UNCHANGED <<req_q, line_coding_q, in_dir_q, in_endp_q>>
      /\ HasZlp => state_q' = "idle"
      /\ state_q' = "status" => state_q = "data" \/ (state_q = "status" /\ in_dir_q)
      /\ Toggle(inToggles, "bulk")' = IF ResetsIn THEN 0 ELSE Toggle(inToggles, "bulk")
      /\ Toggle(outToggles, "bulk")' = IF ResetsOut THEN 0 ELSE Toggle(outToggles, "bulk")
  BY <1>1, AckStep
<1>6. /\ addr_qq = hostAddr /\ dev_state_qq = hostState
      /\ hostLine # UnknownLine => line_coding_q = LineCoding(hostLine)
      /\ Toggle(inToggles, "bulk") = hostIn
      /\ Toggle(outToggles, "bulk") = hostOut
           \/ (r.name = "CLEAR_FEATURE" /\ r.value = OutPipe)
      /\ r.name = "SET_LINE_CODING" /\ clean => line_coding_q = LineCoding(r.value)
  BY <1>1 DEF Faithful, Agree, ResetEarly, LineKept, DeviceNow
<1>7. Served' /\ Pending' /\ LineKept'
  BY <1>3, Stored DEF Served, Pending, LineKept
<1>8. Resets'
  <2>1. SUFFICES ASSUME HasZlp', req_q' \in {"SET_CONFIGURATION", "CLEAR_FEATURE"}
                 PROVE  FALSE
    BY DEF Resets
  <2>2. r.length = 0
    BY <1>1, <1>2, <1>5, <2>1
  <2>. QED BY <1>4, <1>5, <2>1, <2>2 DEF HasZlp
<1>9. addr_qq' = hostAddr' /\ DeviceNow' = hostState'
  <2>1. r.name = "SET_ADDRESS" => addr_qq' = hostAddr' /\ DeviceNow' = hostState'
    BY <1>2, <1>4, <1>5 DEF AddressAfter, DeviceAfter, HostLearns
  <2>2. r.name = "SET_CONFIGURATION" => addr_qq' = hostAddr' /\ DeviceNow' = hostState'
    BY <1>2, <1>4, <1>5, <1>6 DEF AddressAfter, DeviceAfter, HostLearns
  <2>3. r.name \notin {"SET_ADDRESS", "SET_CONFIGURATION"} =>
          addr_qq' = hostAddr' /\ DeviceNow' = hostState'
    BY <1>1, <1>5, <1>6 DEF AddressAfter, DeviceAfter, HostLearns
  <2>. QED BY <2>1, <2>2, <2>3
<1>10. hostLine' # UnknownLine => line_coding_q' = LineCoding(hostLine')
  BY <1>5, <1>6 DEF HostLearns
<1>11. /\ Toggle(inToggles, "bulk")' = hostIn'
       /\ Toggle(outToggles, "bulk")' = hostOut'
  <2>1. r.name = "SET_CONFIGURATION" =>
          /\ Toggle(inToggles, "bulk")' = hostIn'
          /\ Toggle(outToggles, "bulk")' = hostOut'
    BY <1>2, <1>4, <1>5 DEF ResetsIn, ResetsOut, HostLearns
  <2>2. r.name = "CLEAR_FEATURE" =>
          /\ Toggle(inToggles, "bulk")' = hostIn'
          /\ Toggle(outToggles, "bulk")' = hostOut'
    <3>1. CASE r.name = "CLEAR_FEATURE" /\ r.value = InPipe
      <4>1. r.value # OutPipe
        BY <3>1 DEF InPipe, OutPipe
      <4>2. ResetsIn /\ ~ResetsOut
        BY <1>2, <1>4, <3>1 DEF ResetsIn, ResetsOut
      <4>. QED BY <1>5, <1>6, <3>1, <4>1, <4>2 DEF HostLearns
    <3>2. CASE r.name = "CLEAR_FEATURE" /\ r.value = OutPipe
      <4>1. r.value # InPipe
        BY <3>2 DEF InPipe, OutPipe
      <4>2. ResetsOut /\ ~ResetsIn
        BY <1>2, <1>4, <3>2, <4>1 DEF ResetsIn, ResetsOut
      <4>. QED BY <1>5, <1>6, <3>2, <4>1, <4>2 DEF HostLearns
    <3>. QED BY <1>2, <3>1, <3>2 DEF InPipe, OutPipe
  <2>3. r.name \notin {"SET_CONFIGURATION", "CLEAR_FEATURE"} =>
          /\ Toggle(inToggles, "bulk")' = hostIn'
          /\ Toggle(outToggles, "bulk")' = hostOut'
    BY <1>1, <1>5, <1>6 DEF ResetsIn, ResetsOut, HostLearns
  <2>. QED BY <2>1, <2>2, <2>3
<1>12. Agree'
  BY <1>9, <1>10, <1>11 DEF Agree
<1>. QED BY <1>7, <1>8, <1>12 DEF Faithful

\* The handshake is lost: the host went on, and is sure of what it knows only
\* if the request changes nothing in the device's state.
LEMMA StatusLostKeeps ==
  ASSUME CtrlTypeOK, Faithful, stage = "status", ~request.in, reply.kind = "data",
         Ends("ok"), HostLearns, DeviceKept, request.name \notin Effective
  PROVE  Faithful'
<1>1. stage' = "none" /\ request' = NoRequest
  BY DEF Ends
<1>2. /\ DeviceNow' = DeviceNow
      /\ UNCHANGED <<state_q, in_dir_q, req_q, in_endp_q, addr_qq, line_coding_q>>
      /\ UNCHANGED <<inToggles, outToggles>>
  BY DeviceKeptTypes DEF CtrlTypeOK
<1>3. Served' /\ Pending' /\ LineKept'
  BY <1>1, Stored DEF Served, Pending, LineKept
<1>4. Resets'
  BY <1>1, <1>2 DEF Faithful, Resets, HasZlp, Effective
<1>5. /\ UNCHANGED <<hostAddr, hostState, hostIn, hostOut>>
      /\ hostLine' = IF request.name = "SET_LINE_CODING" /\ clean
                     THEN request.value ELSE hostLine
  BY DEF HostLearns, Effective
<1>6. request.name = "SET_LINE_CODING" /\ clean => line_coding_q = LineCoding(request.value)
  BY DEF Faithful, LineKept
<1>7. Agree'
  BY <1>2, <1>5, <1>6 DEF Faithful, Agree, ResetEarly, Toggle, Effective
<1>. QED BY <1>3, <1>4, <1>7 DEF Faithful

LEMMA HostTakesReplyKeeps ==
  ASSUME CtrlTypeOK, Faithful, HostTakesReply, sure'
  PROVE  Faithful'
<1>1. /\ reply.kind = "data" /\ reply \in Replies
      /\ reply.toggle = Toggle(inToggles, "ctrl")
      /\ stage = "in" \/ (stage = "status" /\ ~request.in)
  BY Stored DEF HostTakesReply, CtrlTypeOK, StageFits
<1>2. stage = "status" => reply.toggle = ctrlToggle
  BY <1>1 DEF Faithful, Served, Toggle
<1>3. ASSUME NEW damage, HostKeeps(damage)
      PROVE  \/ stage = "status" /\ Ends("ok") /\ HostLearns
             \/ /\ stage = "in" /\ stage' \in {"in", "status"}
                /\ UNCHANGED <<request, hostAddr, hostState, hostLine, hostIn, hostOut>>
  <2>1. CASE reply.toggle # ctrlToggle
    BY <1>1, <1>2, <1>3, <2>1 DEF HostKeeps
  <2>2. CASE reply.toggle = ctrlToggle /\ stage = "status"
    BY <1>3, <2>2 DEF HostKeeps
  <2>3. CASE reply.toggle = ctrlToggle /\ stage = "in"
    BY <1>3, <2>3 DEF HostKeeps
  <2>. QED BY <1>1, <2>1, <2>2, <2>3
<1>4. CASE HostKeeps(UNCHANGED clean) /\ CtrlAcked
  BY <1>1, <1>3, <1>4, DataStageKeeps, StatusAckedKeeps
<1>5. CASE /\ HostKeeps(Dirty) /\ DeviceKept
           /\ sure' = (sure /\ ~(stage' = "none" /\ request.name \in Effective))
  <2>1. stage' = "none" => request.name \notin Effective
    BY <1>5
  <2>2. Ends("ok") => stage' = "none"
    BY DEF Ends
  <2>. QED BY <1>1, <1>3, <1>5, <2>1, <2>2, DataStageKeeps, StatusLostKeeps
<1>6. CASE /\ Dirty /\ DeviceKept
           /\ UNCHANGED <<stage, request, got, ctrlToggle, outcome, hostView>>
  <2>1. /\ DeviceNow' = DeviceNow
        /\ UNCHANGED <<state_q, byte_cnt_q, in_dir_q, req_q, in_endp_q, dev_state_q>>
        /\ UNCHANGED <<addr_q, addr_qq, usb_reset_q, line_coding_q, inToggles, outToggles>>
    BY <1>6, DeviceKeptTypes DEF CtrlTypeOK
  <2>2. Served' /\ Pending' /\ Resets'
    BY <1>6, <2>1 DEF Faithful, Served, Pending, Resets, HasZlp
  <2>3. LineKept'
    BY <1>6, <2>1 DEF Faithful, LineKept, Dirty
  <2>4. Agree'
    BY <1>6, <2>1 DEF Faithful, Agree, ResetEarly, Toggle, hostView
  <2>. QED BY <2>2, <2>3, <2>4 DEF Faithful
<1>. QED BY <1>4, <1>5, <1>6 DEF HostTakesReply

LEMMA HostGivesUpKeeps ==
  ASSUME CtrlTypeOK, Faithful, HostGivesUp, sure'
  PROVE  Faithful'
<1>1. /\ stage' = "none" /\ request' = NoRequest
      /\ request.name \notin {"SET_CONFIGURATION", "CLEAR_FEATURE"}
      /\ UNCHANGED <<hostAddr, hostState, hostLine, hostIn, hostOut>>
  BY DEF HostGivesUp, Ends
<1>2. /\ DeviceNow' = DeviceNow
      /\ UNCHANGED <<state_q, in_dir_q, req_q, in_endp_q, addr_qq, line_coding_q>>
      /\ UNCHANGED <<inToggles, outToggles>>
  BY DeviceKeptTypes DEF CtrlTypeOK, HostGivesUp
<1>3. Served' /\ Pending' /\ LineKept'
  BY <1>1, Stored DEF Served, Pending, LineKept
<1>4. Resets'
  BY <1>1, <1>2 DEF Faithful, Resets, HasZlp
<1>5. Agree'
  BY <1>1, <1>2 DEF Faithful, Agree, ResetEarly, Toggle
<1>. QED BY <1>3, <1>4, <1>5 DEF Faithful

LEMMA BulkInKeeps ==
  ASSUME CtrlTypeOK, Faithful, BulkInPasses
  PROVE  Faithful'
<1>1. /\ UNCHANGED <<state_q, requestVars, deviceVars, line_coding_q, transferVars>>
      /\ UNCHANGED <<hostAddr, hostState, hostLine, hostOut>>
      /\ hostIn' = 1 - hostIn /\ inToggles' = FlipOf(inToggles, "bulk")
      /\ outToggles' = outToggles \ (IF ResetsOut THEN {"bulk"} ELSE {})
      /\ hostState = "configured"
      /\ stage = "none" \/ request.name \notin {"SET_ADDRESS", "SET_CONFIGURATION"}
      /\ stage = "none" \/ request.name # "CLEAR_FEATURE" \/ request.value # InPipe
  BY DEF BulkInPasses, UsesBulk
<1>2. /\ UNCHANGED <<byte_cnt_q, in_dir_q, req_q, in_endp_q, dev_state_q, addr_q>>
      /\ UNCHANGED <<addr_qq, usb_reset_q, stage, request, clean, ctrlToggle>>
      /\ DeviceNow' = DeviceNow
  BY <1>1 DEF requestVars, deviceVars, transferVars, DeviceNow
<1>3. /\ inToggles \in SUBSET Pipes
      /\ "ctrl" \in inToggles' <=> "ctrl" \in inToggles
      /\ "ctrl" \in outToggles' <=> "ctrl" \in outToggles
      /\ Toggle(inToggles, "bulk")' = 1 - Toggle(inToggles, "bulk")
      /\ ~ResetsOut => outToggles' = outToggles
  BY <1>1 DEF CtrlTypeOK, DeviceTypes, FlipOf, Set, Toggle, Pipes
<1>4. Served' /\ Pending'
  BY <1>1, <1>2, <1>3 DEF Faithful, Served, Pending
<1>5. Resets' /\ LineKept'
  BY <1>1, <1>2, <1>3 DEF Faithful, Resets, LineKept, HasZlp
<1>6. Toggle(outToggles, "bulk")' = hostOut' \/ ResetEarly'
  <2>1. CASE ResetsOut
    <3>1. /\ stage \in {"setup", "status"} /\ request.name = "CLEAR_FEATURE"
          /\ ~in_endp_q /\ in_endp_q = (request.value = InPipe) /\ state_q = "status"
      BY <1>1, <2>1 DEF Faithful, Resets, ResetsOut, HasZlp
    <3>2. request \in HostRequests
      BY <3>1, Stored DEF CtrlTypeOK, TransferTypes
    <3>3. request.value = OutPipe
      BY <3>1, <3>2, RequestFacts DEF InPipe, OutPipe
    <3>. QED BY <1>1, <1>2, <3>1, <3>3 DEF ResetEarly
  <2>2. CASE ~ResetsOut
    BY <1>1, <1>2, <1>3, <2>2 DEF Faithful, Agree, ResetEarly, Toggle
  <2>. QED BY <2>1, <2>2
<1>7. Agree'
  BY <1>1, <1>2, <1>3, <1>6 DEF Faithful, Agree
<1>. QED BY <1>4, <1>5, <1>7 DEF Faithful

LEMMA BulkOutKeeps ==
  ASSUME CtrlTypeOK, Faithful, BulkOutPasses
  PROVE  Faithful'
<1>1. /\ UNCHANGED <<state_q, requestVars, deviceVars, line_coding_q, transferVars>>
      /\ UNCHANGED <<inToggles, hostAddr, hostState, hostLine, hostIn>>
      /\ hostOut' = 1 - hostOut /\ outToggles' = FlipOf(outToggles, "bulk")
      /\ stage = "none" \/ request.name # "CLEAR_FEATURE" \/ request.value # OutPipe
  BY DEF BulkOutPasses, UsesBulk
<1>2. /\ UNCHANGED <<byte_cnt_q, in_dir_q, req_q, in_endp_q, dev_state_q, addr_q>>
      /\ UNCHANGED <<addr_qq, usb_reset_q, stage, request, clean, ctrlToggle>>
      /\ DeviceNow' = DeviceNow
  BY <1>1 DEF requestVars, deviceVars, transferVars, DeviceNow
<1>3. /\ outToggles \in SUBSET Pipes
      /\ "ctrl" \in outToggles' <=> "ctrl" \in outToggles
      /\ Toggle(outToggles, "bulk")' = 1 - Toggle(outToggles, "bulk")
  BY <1>1 DEF CtrlTypeOK, DeviceTypes, FlipOf, Set, Toggle, Pipes
<1>4. Served' /\ Pending'
  BY <1>1, <1>2 DEF Faithful, Served, Pending
<1>5. Resets' /\ LineKept'
  BY <1>1, <1>2, <1>3 DEF Faithful, Resets, LineKept, HasZlp
<1>6. Toggle(outToggles, "bulk") = hostOut
  BY <1>1 DEF Faithful, Agree, ResetEarly
<1>7. Agree'
  BY <1>1, <1>2, <1>3, <1>6 DEF Faithful, Agree, Toggle
<1>. QED BY <1>4, <1>5, <1>7 DEF Faithful

\* A bus reset makes them agree, whatever was in doubt.
LEMMA BusResetKeeps ==
  ASSUME CtrlTypeOK, BusReset
  PROVE  Faithful'
<1>1. /\ stage' = "none" /\ request' = NoRequest
      /\ state_q' = "idle" /\ usb_reset_q' = TRUE
      /\ addr_qq' = 0 /\ line_coding_q' = LineCoding(0)
      /\ inToggles' = {} /\ outToggles' = {}
      /\ hostAddr' = 0 /\ hostState' = "default" /\ hostLine' = 0
      /\ hostIn' = 0 /\ hostOut' = 0
  BY DEF BusReset, Ends
<1>2. Served' /\ Pending' /\ Resets' /\ LineKept'
  BY <1>1, Stored DEF Served, Pending, Resets, LineKept, HasZlp
<1>3. Agree'
  BY <1>1 DEF Agree, DeviceNow, Toggle
<1>. QED BY <1>2, <1>3 DEF Faithful

LEMMA CtrlInvInit ==
  ASSUME CtrlInit
  PROVE  CtrlInv
<1>1. Served /\ Pending /\ Resets /\ LineKept
  BY Stored DEF CtrlInit, Served, Pending, Resets, LineKept, HasZlp
<1>2. Agree
  BY DEF CtrlInit, Agree, DeviceNow, Toggle
<1>. QED BY <1>1, <1>2, InitTypes DEF CtrlInv, Faithful

LEMMA CtrlInvStep ==
  ASSUME CtrlInv, [CtrlNext]_ctrlVars
  PROVE  CtrlInv'
<1>1. CtrlTypeOK /\ CtrlTypeOK'
  BY CtrlTypesStep DEF CtrlInv
<1>2. SUFFICES ASSUME sure' PROVE Faithful'
  BY <1>1 DEF CtrlInv
<1>3. CASE BusReset
  BY <1>1, <1>3, BusResetKeeps
<1>4. CASE HostSetup \/ HostOut \/ HostIn \/ HostRefused \/ BulkInPasses \/ BulkOutPasses
  <2>1. sure
    BY <1>2, <1>4 DEF HostSetup, HostOut, HostIn, HostRefused, BulkInPasses,
                      BulkOutPasses, hostView
  <2>. QED BY <1>1, <1>4, <2>1, HostSetupKeeps, HostOutKeeps, HostInKeeps,
              HostRefusedKeeps, BulkInKeeps, BulkOutKeeps DEF CtrlInv
<1>5. CASE HostTakesReply \/ HostGivesUp
  <2>1. sure
    BY <1>2, <1>5 DEF HostTakesReply, HostGivesUp, hostView
  <2>. QED BY <1>1, <1>2, <1>5, <2>1, HostTakesReplyKeeps, HostGivesUpKeeps DEF CtrlInv
<1>6. CASE UNCHANGED ctrlVars
  <2>1. /\ UNCHANGED <<state_q, byte_cnt_q, in_dir_q, req_q, in_endp_q, dev_state_q>>
        /\ UNCHANGED <<dev_state_qq, addr_q, addr_qq, usb_reset_q, line_coding_q>>
        /\ UNCHANGED <<inToggles, outToggles, stage, request, clean, ctrlToggle>>
        /\ UNCHANGED <<hostAddr, hostState, hostLine, hostIn, hostOut, sure>>
    BY <1>6 DEF ctrlVars, requestVars, deviceVars, toggleVars, transferVars, hostView
  <2>2. Served' /\ Pending'
    BY <1>2, <2>1 DEF CtrlInv, Faithful, Served, Pending
  <2>3. Resets' /\ LineKept'
    BY <1>2, <2>1 DEF CtrlInv, Faithful, Resets, LineKept, HasZlp
  <2>4. Agree'
    BY <1>2, <2>1 DEF CtrlInv, Faithful, Agree, ResetEarly, Toggle, DeviceNow
  <2>. QED BY <2>2, <2>3, <2>4 DEF Faithful
<1>. QED BY <1>3, <1>4, <1>5, <1>6 DEF CtrlNext

\* The registers of ctrl_endp.v keep to their values, an answer is never sent
\* beyond its end, and each reply is for a stage that asks for one.
THEOREM CtrlTypes == CtrlSpec => []CtrlTypeOK
<1>1. CtrlTypeOK /\ [CtrlNext]_ctrlVars => CtrlTypeOK'
  BY CtrlTypesStep
<1>. QED BY <1>1, InitTypes, PTL DEF CtrlSpec

\* ctrl_endp.v:51-58, 517-526: unless the handshake of a status stage is lost
\* or a transfer is broken off in doubt, device and host agree on the address,
\* the device state, the line coding and the bulk toggles.
THEOREM DeviceAsHostKnows == CtrlSpec => []HostAndDeviceAgree
<1>1. CtrlInv /\ [CtrlNext]_ctrlVars => CtrlInv'
  BY CtrlInvStep
<1>2. CtrlInv => HostAndDeviceAgree
  BY DEF CtrlInv, Faithful, Agree, ResetEarly, HostAndDeviceAgree
<1>. QED BY <1>1, <1>2, CtrlInvInit, PTL DEF CtrlSpec

-----------------------------------------------------------------------------
(***************************************************************************)
(* The answers to the host's requests.                                     *)
(***************************************************************************)
FullLength(name) ==
  CASE name = "GET_DESCRIPTOR_DEVICE"        -> CDC_DEV_DESCR_LENGTH
    [] name = "GET_DESCRIPTOR_CONFIGURATION" -> CDC_CONF_DESCR_LENGTH
    [] name = "GET_LINE_CODING"              -> CDC_LINE_CODING_LENGTH
    [] name = "GET_STATUS"                   -> 2
    [] OTHER                                 -> 1

\* How many bytes a request gets.
Due(r) == IF r.length < FullLength(r.name) THEN r.length ELSE FullLength(r.name)

LEMMA InRequests ==
  ASSUME NEW r \in HostRequests, r.in, r.name # "UNSUPPORTED"
  PROVE  /\ r.name \in {"GET_CONFIGURATION", "GET_INTERFACE", "GET_STATUS",
                        "GET_LINE_CODING"} \cup Descriptors
         /\ r.length \in Nat /\ r.length > 0
         /\ r.name \in {"GET_CONFIGURATION", "GET_INTERFACE"} => r.length = 1
         /\ r.name = "GET_STATUS" => r.length = 2
         /\ r.name = "GET_LINE_CODING" => r.length = CDC_LINE_CODING_LENGTH
<1>. DEFINE Is(name, in, value, length) ==
              r.name = name /\ r.in = in /\ r.value = value /\ r.length = length
<1>1. \/ Is("GET_CONFIGURATION", TRUE, 0, 1) \/ Is("GET_INTERFACE", TRUE, 0, 1)
      \/ Is("GET_STATUS", TRUE, 0, 2)
      \/ Is("GET_LINE_CODING", TRUE, 0, CDC_LINE_CODING_LENGTH)
      \/ \E d \in Descriptors, n \in HostLengths : Is(d, TRUE, 0, n)
  BY DEF HostRequests, Req
<1>2. \A n \in HostLengths : n \in Nat /\ n > 0
  BY CtrlAssumption
<1>3. "GET_CONFIGURATION" \notin Descriptors /\ "GET_INTERFACE" \notin Descriptors
      /\ "GET_STATUS" \notin Descriptors /\ "GET_LINE_CODING" \notin Descriptors
  BY DEF Descriptors
<1>. QED BY <1>1, <1>2, <1>3, Lengths

\* The answer ends there, and its last packet tells the host so.
LEMMA DueFacts ==
  ASSUME NEW r \in HostRequests, r.in, r.name # "UNSUPPORTED"
  PROVE  /\ Due(r) \in Nat /\ Due(r) > 0 /\ Due(r) <= r.length
         /\ Due(r) <= FullLength(r.name)
         /\ FullLength(r.name) \in Nat
         /\ Due(r) % CTRL_MAXPACKETSIZE = 0 => Due(r) = r.length
         /\ LET max  == Saturate(r.length)
                size == CASE r.name = "GET_DESCRIPTOR_DEVICE"        -> CDC_DEV_DESCR_LENGTH
                          [] r.name = "GET_DESCRIPTOR_CONFIGURATION" -> CDC_CONF_DESCR_LENGTH
                          [] r.name = "GET_LINE_CODING"              -> CDC_LINE_CODING_LENGTH
                          [] OTHER                                   -> max
            IN (IF max < size THEN max ELSE size) = Due(r)
<1>1. /\ r.length \in Nat /\ r.length > 0
      /\ r.name \in {"GET_CONFIGURATION", "GET_INTERFACE", "GET_STATUS", "GET_LINE_CODING",
                     "GET_DESCRIPTOR_DEVICE", "GET_DESCRIPTOR_CONFIGURATION"}
      /\ r.name \in {"GET_CONFIGURATION", "GET_INTERFACE"} => r.length = 1
      /\ r.name = "GET_STATUS" => r.length = 2
      /\ r.name = "GET_LINE_CODING" => r.length = CDC_LINE_CODING_LENGTH
  BY InRequests DEF Descriptors
<1>2. /\ CDC_DEV_DESCR_LENGTH % CTRL_MAXPACKETSIZE # 0
      /\ CDC_CONF_DESCR_LENGTH % CTRL_MAXPACKETSIZE # 0
      /\ 2 <= LengthMax /\ CDC_DEV_DESCR_LENGTH <= LengthMax
      /\ CDC_CONF_DESCR_LENGTH <= LengthMax /\ CDC_LINE_CODING_LENGTH <= LengthMax
  BY CtrlAssumption
<1>3. CASE r.name = "GET_DESCRIPTOR_DEVICE"
  BY <1>1, <1>2, <1>3, Lengths DEF Due, FullLength, Saturate
<1>4. CASE r.name = "GET_DESCRIPTOR_CONFIGURATION"
  BY <1>1, <1>2, <1>4, Lengths DEF Due, FullLength, Saturate
<1>5. CASE r.name = "GET_LINE_CODING"
  BY <1>1, <1>2, <1>5, Lengths DEF Due, FullLength, Saturate
<1>6. CASE r.name = "GET_STATUS"
  BY <1>1, <1>2, <1>6, Lengths DEF Due, FullLength, Saturate
<1>7. CASE r.name \in {"GET_CONFIGURATION", "GET_INTERFACE"}
  BY <1>1, <1>2, <1>7, Lengths DEF Due, FullLength, Saturate
<1>. QED BY <1>1, <1>3, <1>4, <1>5, <1>6, <1>7

LEMMA EndIsDue ==
  ASSUME request \in HostRequests, request.in, request.name # "UNSUPPORTED",
         req_q = request.name, max_length_q = Saturate(request.length)
  PROVE  End = Due(request)
BY DueFacts DEF End, Size

\* The bytes asked for, and what the endpoint sends.
LEMMA FullAnswers ==
  ASSUME NEW r \in HostRequests, r.in, r.name # "UNSUPPORTED", hostLine \in Nat
  PROVE  FullAnswer(r.name) \in Seq(Nat) /\ Len(FullAnswer(r.name)) = FullLength(r.name)
<1>1. r.name \in {"GET_CONFIGURATION", "GET_INTERFACE", "GET_STATUS", "GET_LINE_CODING",
                  "GET_DESCRIPTOR_DEVICE", "GET_DESCRIPTOR_CONFIGURATION"}
  BY InRequests DEF Descriptors
<1>2. ASSUME NEW n \in Nat
      PROVE  /\ [i \in 1 .. n |-> i - 1] \in Seq(Nat)
             /\ Len([i \in 1 .. n |-> i - 1]) = n
             /\ [i \in 1 .. n |-> hostLine] \in Seq(Nat)
             /\ Len([i \in 1 .. n |-> hostLine]) = n
  <2>1. \A i \in 1 .. n : i - 1 \in Nat
    OBVIOUS
  <2>. QED BY <2>1
<1>3. CASE r.name = "GET_DESCRIPTOR_DEVICE"
  BY <1>2, <1>3, Lengths DEF FullAnswer, FullLength
<1>4. CASE r.name = "GET_DESCRIPTOR_CONFIGURATION"
  BY <1>2, <1>4, Lengths DEF FullAnswer, FullLength
<1>5. CASE r.name = "GET_LINE_CODING"
  BY <1>2, <1>5, Lengths DEF FullAnswer, FullLength
<1>6. CASE r.name \in {"GET_STATUS", "GET_CONFIGURATION", "GET_INTERFACE"}
  BY <1>6 DEF FullAnswer, FullLength
<1>. QED BY <1>1, <1>3, <1>4, <1>5, <1>6

Known == ~(request.name = "GET_LINE_CODING" /\ hostLine = UnknownLine)

LEMMA DataRight ==
  ASSUME CtrlTypeOK, Faithful, ~usb_reset_q, Known, req_q = request.name,
         request \in HostRequests, request.in, request.name # "UNSUPPORTED",
         NEW i \in 1 .. FullLength(request.name)
  PROVE  InData(i - 1) = FullAnswer(request.name)[i]
<1>1. /\ req_q \in {"GET_CONFIGURATION", "GET_INTERFACE", "GET_STATUS", "GET_LINE_CODING",
                    "GET_DESCRIPTOR_DEVICE", "GET_DESCRIPTOR_CONFIGURATION"}
      /\ dev_state_qq = hostState
      /\ req_q = "GET_LINE_CODING" => line_coding_q = LineCoding(hostLine)
  BY InRequests DEF Descriptors, Faithful, Agree, DeviceNow, Known
<1>2. CASE req_q = "GET_DESCRIPTOR_DEVICE"
  BY <1>2, Lengths DEF InData, FullAnswer, FullLength, Descriptors
<1>3. CASE req_q = "GET_DESCRIPTOR_CONFIGURATION"
  BY <1>3, Lengths DEF InData, FullAnswer, FullLength, Descriptors
<1>4. CASE req_q = "GET_LINE_CODING"
  <2>1. i - 1 \in 0 .. CDC_LINE_CODING_LENGTH - 1 /\ i \in 1 .. CDC_LINE_CODING_LENGTH
    BY <1>4, Lengths DEF FullLength
  <2>2. InData(i - 1) = hostLine
    BY <1>1, <1>4, <2>1 DEF InData, Descriptors, LineCoding
  <2>. QED BY <1>4, <2>1, <2>2 DEF FullAnswer
<1>5. CASE req_q = "GET_CONFIGURATION"
  BY <1>1, <1>5 DEF InData, FullAnswer, FullLength, Descriptors
<1>6. CASE req_q = "GET_INTERFACE"
  BY <1>6 DEF InData, FullAnswer, FullLength, Descriptors
<1>7. CASE req_q = "GET_STATUS"
  BY <1>7 DEF InData, FullAnswer, FullLength, Descriptors
<1>. QED BY <1>1, <1>2, <1>3, <1>4, <1>5, <1>6, <1>7

Right(bytes, sent) ==
  Known => \A i \in 1 .. Len(bytes) : bytes[i] = FullAnswer(request.name)[sent + i]

LEMMA AnswerRight ==
  ASSUME request \in HostRequests, request.in, request.name # "UNSUPPORTED",
         hostLine \in Nat, got \in Seq(Nat), Len(got) = Due(request), Right(got, 0), Known
  PROVE  got = Answer(request)
<1>. DEFINE full == FullAnswer(request.name)
            n == Due(request)
<1>1. /\ full \in Seq(Nat) /\ Len(full) = FullLength(request.name)
      /\ n \in Nat /\ n <= Len(full) /\ request.length \in Nat
  BY FullAnswers, DueFacts, RequestFacts
<1>2. Min({Len(full), request.length}) = n
  BY <1>1, MinOfTwo, SMTT(20) DEF Due
<1>3. \A i \in 1 .. n : got[i] = full[i]
  BY DEF Right
<1>4. Answer(request) = SubSeq(full, 1, n)
  BY <1>2 DEF Answer
<1>. HIDE DEF full, n
<1>5. /\ SubSeq(full, 1, n) \in Seq(Nat) /\ Len(SubSeq(full, 1, n)) = n
      /\ \A i \in 1 .. n : SubSeq(full, 1, n)[i] = full[i]
  BY <1>1
<1>. QED BY <1>3, <1>4, <1>5 DEF n

\* After another full packet there are full packets still.
LEMMA Division ==
  ASSUME NEW c \in Nat \ {0}, NEW x \in Nat
  PROVE  x = (c * (x \div c)) + (x % c) /\ (x % c) \in 0 .. c - 1 /\ x \div c \in Int
OBVIOUS

LEMMA Packets ==
  ASSUME NEW c \in Nat \ {0}, NEW x \in Nat, x % c = 0
  PROVE  (x + c) % c = 0
<1>. DEFINE a == x \div c
            b == (x + c) \div c
            m == (x + c) % c
<1>1. x = c * a /\ a \in Int
  BY Division
<1>2. x + c = c * b + m /\ m \in 0 .. c - 1 /\ b \in Int
  <2>1. x + c \in Nat
    OBVIOUS
  <2>. QED BY <2>1, Division
<1>. HIDE DEF a, b, m
<1>3. a + 1 - b \in Int /\ c * (a + 1 - b) = c * a + c - c * b
  BY <1>1, <1>2
<1>4. c * (a + 1 - b) = m
  <2>1. c * a \in Int /\ c * b \in Int
    BY <1>1, <1>2
  <2>. QED BY <1>1, <1>2, <1>3, <2>1
<1>5. m = 0
  BY <1>2, <1>3, <1>4
<1>. QED BY <1>5 DEF m

-----------------------------------------------------------------------------
(***************************************************************************)
(* How far a transfer is, while no fault hit its data stage.               *)
(***************************************************************************)

\* The pipe stalls for what the device does not accept, and for nothing else.
Refuses ==
  clean /\ stage \in {"in", "out", "status"} =>
    (state_q = "stall" <=> ~Accepted(request.name, hostState))

\* The host has whole packets of the answer, and the next one is on the line.
Answering ==
  clean /\ stage = "in" /\ state_q # "stall" =>
    /\ state_q = "data" /\ in_dir_q /\ req_q = request.name
    /\ max_length_q = Saturate(request.length)
    /\ ctrlToggle = Toggle(inToggles, "ctrl")
    /\ Len(got) < Due(request) /\ Len(got) % CTRL_MAXPACKETSIZE = 0 /\ Right(got, 0)
    /\ reply = NoReply => byte_cnt_q = Len(got)
    /\ reply.kind = "data" =>
         /\ byte_cnt_q = Len(got) + Len(reply.data)
         /\ Len(reply.data) = IF Due(request) - Len(got) < CTRL_MAXPACKETSIZE
                              THEN Due(request) - Len(got) ELSE CTRL_MAXPACKETSIZE
         /\ Right(reply.data, Len(got))

AnswerGiven ==
  clean /\ stage = "status" /\ request.in =>
    /\ state_q = "idle" \/ (state_q = "status" /\ in_dir_q)
    /\ Len(got) = Due(request) /\ Right(got, 0)

\* The empty packet of a status stage is ready.
Confirming == clean /\ stage = "status" /\ ~request.in /\ state_q # "stall" => HasZlp

NoNak == clean => reply.kind # "nak"

Punctual == Refuses /\ Answering /\ AnswerGiven /\ Confirming /\ NoNak

\* What TransfersRight says of a step.
EndsRight ==
  clean /\ outcome' \notin {outcome, "none"} =>
    /\ outcome' = IF Accepted(request.name, hostState) THEN "ok" ELSE "stall"
    /\ outcome' = "ok" /\ request.in /\ Known => got = Answer(request)

LEMMA Idle ==
  ASSUME stage' \in {"none", "setup"}, reply' = NoReply
  PROVE  Punctual'
BY Stored DEF Punctual, Refuses, Answering, AnswerGiven, Confirming, NoNak

LEMMA HostSetupPunctual ==
  ASSUME CtrlTypeOK, Faithful, HostSetup
  PROVE  Punctual' /\ EndsRight
<1>. DEFINE r == request'
<1>1. /\ ctrlToggle' = 1 /\ clean' = TRUE /\ got' = << >> /\ outcome' = "none"
      /\ reply' = NoReply /\ hostState' = hostState /\ stage \in {"none", "setup"}
  BY DEF HostSetup, hostView
<1>2. EndsRight
  BY <1>1 DEF EndsRight
<1>3. CASE SetupDone(r) /\ stage' = NextStage(r)
  <2>1. DeviceTypes /\ r \in HostRequests /\ DeviceNow = hostState
    BY HostSetupTypes DEF CtrlTypeOK, Faithful, Agree
  <2>2. /\ r.in \in BOOLEAN /\ r.length \in Nat
        /\ Accepted(r.name, hostState) => r.name # "UNSUPPORTED"
    BY <2>1, RequestFacts DEF Accepted, Descriptors
  <2>3. /\ byte_cnt_q' = 0 /\ "ctrl" \in inToggles'
        /\ ~Accepted(r.name, DeviceNow) => state_q' = "stall"
    BY <1>3, <2>1, SetupDoneStep
  <2>4. Accepted(r.name, DeviceNow) =>
          /\ req_q' = r.name /\ in_dir_q' = r.in /\ max_length_q' = Saturate(r.length)
          /\ state_q' = IF r.in \/ r.length # 0 THEN "data" ELSE "status"
    BY <1>3, <2>1, SetupDoneStep
  <2>5. stage' = IF r.in THEN "in" ELSE IF r.length > 0 THEN "out" ELSE "status"
    BY <1>3 DEF NextStage
  <2>6. r.in /\ r.name # "UNSUPPORTED" => Due(r) \in Nat /\ Due(r) > 0
    BY <2>1, DueFacts
  <2>7. 0 % CTRL_MAXPACKETSIZE = 0
    BY Lengths
  <2>. HIDE DEF r
  <2>8. Refuses'
    BY <1>1, <2>1, <2>3, <2>4 DEF Refuses, r
  <2>9. Answering'
    <3>1. SUFFICES ASSUME stage' = "in", state_q' # "stall"
                   PROVE  /\ state_q' = "data" /\ in_dir_q' /\ req_q' = r.name
                          /\ max_length_q' = Saturate(r.length)
                          /\ ctrlToggle' = Toggle(inToggles, "ctrl")'
                          /\ Len(got') < Due(r) /\ Len(got') % CTRL_MAXPACKETSIZE = 0
                          /\ Right(got, 0)' /\ byte_cnt_q' = Len(got')
      BY <1>1, Stored DEF Answering, r, Due
    <3>2. r.in /\ Accepted(r.name, DeviceNow)
      BY <2>2, <2>3, <2>5, <3>1
    <3>3. Len(got') = 0 /\ 1 .. Len(got') = {}
      BY <1>1
    <3>. QED BY <1>1, <2>1, <2>2, <2>3, <2>4, <2>6, <2>7, <3>2, <3>3 DEF Right, Toggle
  <2>10. AnswerGiven'
    BY <2>5 DEF AnswerGiven, r
  <2>11. Confirming'
    BY <2>2, <2>3, <2>4, <2>5 DEF Confirming, HasZlp, r
  <2>12. NoNak'
    BY <1>1, Stored DEF NoNak
  <2>. QED BY <1>2, <2>8, <2>9, <2>10, <2>11, <2>12 DEF Punctual
<1>4. CASE stage' = "setup"
  BY <1>1, <1>2, <1>4, Idle
<1>. QED BY <1>3, <1>4 DEF HostSetup

LEMMA HostOutPunctual ==
  ASSUME CtrlTypeOK, Faithful, Punctual, HostOut
  PROVE  Punctual' /\ EndsRight
<1>. DEFINE n == OutLength
<1>1. /\ reply' = NoReply
      /\ stage = "out" \/ (stage = "status" /\ request.in)
      /\ n \in Nat /\ request.value \in Nat /\ ctrlToggle \in {0, 1}
      /\ hostState' = hostState
      /\ stage # "out" => hostLine' = hostLine
  BY HostOutParts
<1>2. /\ DeviceTypes /\ request \in HostRequests /\ request.in \in BOOLEAN
      /\ stage = "out" => request.name = "SET_LINE_CODING" /\ ~request.in
      /\ got \in Seq(Nat) /\ hostLine \in Nat
  BY <1>1, Stored, RequestFacts DEF CtrlTypeOK, TransferTypes, StageFits, ViewTypes
<1>3. /\ clean /\ stage = "out" => (Stalled(n) <=> state_q = "stall")
      /\ clean /\ stage = "out" /\ state_q # "stall" =>
           StoresLine /\ "ctrl" \in outToggles /\ ctrlToggle = 1
  BY <1>2 DEF Faithful, LineKept, Stalled, StoresLine
<1>4. clean /\ stage = "status" =>
        /\ n = 0 /\ ~Stalled(n) /\ Accepted(request.name, hostState)
        /\ state_q = "idle" \/ (state_q = "status" /\ in_dir_q)
        /\ Len(got) = Due(request) /\ Right(got, 0)
  BY <1>1 DEF Punctual, Refuses, AnswerGiven, Stalled, OutLength
<1>5. CASE Ends("stall") /\ Stalled(n)
  <2>1. Punctual'
    BY <1>1, <1>5, Idle DEF Ends
  <2>2. EndsRight
    BY <1>1, <1>3, <1>4, <1>5 DEF Ends, EndsRight, Punctual, Refuses
  <2>. QED BY <2>1, <2>2
<1>6. CASE Ends("ok") /\ stage = "status"
  <2>1. Punctual'
    BY <1>1, <1>6, Idle DEF Ends
  <2>2. clean => request.name # "UNSUPPORTED"
    BY <1>4, <1>6 DEF Accepted, Descriptors
  <2>3. clean /\ Known => got = Answer(request)
    BY <1>1, <1>2, <1>4, <1>6, <2>2, AnswerRight
  <2>. QED BY <1>4, <1>6, <2>1, <2>3 DEF Ends, EndsRight
<1>7. CASE /\ stage = "out" /\ stage' = "status" /\ ~Stalled(n) /\ clean' = clean
           /\ UNCHANGED <<request, got, ctrlToggle, outcome>>
           /\ OutDone(n, request.value, ctrlToggle)
  <2>1. clean => state_q' = "status" /\ ~in_dir_q'
    <3>1. /\ in_dir_q' = in_dir_q
          /\ StoresLine /\ "ctrl" \in outToggles /\ ctrlToggle = 1 => state_q' = "status"
      BY <1>1, <1>2, <1>7, OutDoneStep
    <3>. QED BY <1>3, <1>7, <3>1 DEF StoresLine, Stalled
  <2>2. clean => Accepted(request.name, hostState)
    BY <1>3, <1>7 DEF Punctual, Refuses
  <2>3. Refuses' /\ Confirming'
    BY <1>1, <1>7, <2>1, <2>2 DEF Refuses, Confirming, HasZlp
  <2>4. Answering' /\ AnswerGiven' /\ NoNak'
    BY <1>1, <1>2, <1>7, Stored DEF Answering, AnswerGiven, NoNak
  <2>. QED BY <1>7, <2>3, <2>4 DEF Punctual, EndsRight
<1>8. CASE stage' = stage /\ Dirty /\ UNCHANGED <<request, got, ctrlToggle, outcome>>
  <2>1. CASE ~clean'
    BY <1>8, <2>1 DEF Punctual, Refuses, Answering, AnswerGiven, Confirming, NoNak, EndsRight
  <2>2. CASE clean'
    <3>1. clean /\ stage = "status"
      BY <1>1, <1>8, <2>2 DEF Dirty
    <3>2. state_q' = "idle" \/ (state_q' = "status" /\ in_dir_q')
      <4>1. CASE OutDone(n, request.value, ctrlToggle)
        <5>1. /\ state_q' \in States
              /\ state_q' \in {"status", "data"} => state_q = "data"
              /\ state_q' = "stall" /\ ~Stalled(n) /\ state_q # "setup" =>
                   state_q = "status" /\ ~in_dir_q
              /\ state_q' # "setup"
          BY <1>1, <1>2, <4>1, OutDoneStep, ZenonT(30) DEF DeviceTypes
        <5>. QED BY <1>4, <3>1, <5>1 DEF States
      <4>2. ASSUME NEW k \in Nat, NEW value \in Nat, k <= n, OutDamaged(k, value)
            PROVE  state_q' = "idle"
        <5>1. state_q' = IF Stalled(k) THEN "stall" ELSE "idle"
          BY <1>2, <4>2, OutDamagedStep
        <5>2. k = 0 /\ state_q # "stall"
          BY <1>4, <3>1, <4>2
        <5>. QED BY <5>1, <5>2 DEF Stalled
      <4>. QED BY <4>1, <4>2, HostOutParts
    <3>3. UNCHANGED hostLine
      BY <1>1, <3>1
    <3>4. Refuses' /\ Confirming'
      BY <1>1, <1>4, <1>8, <3>1, <3>2 DEF Refuses, Confirming
    <3>5. AnswerGiven'
      BY <1>1, <1>4, <1>8, <3>1, <3>2, <3>3 DEF AnswerGiven, Right, Known, FullAnswer, Due
    <3>6. Answering' /\ NoNak'
      BY <1>1, <1>8, <3>1, Stored DEF Answering, NoNak
    <3>. QED BY <1>8, <3>4, <3>5, <3>6 DEF Punctual, EndsRight
  <2>. QED BY <2>1, <2>2
<1>. QED BY <1>5, <1>6, <1>7, <1>8, HostOutParts

LEMMA HostInPunctual ==
  ASSUME CtrlTypeOK, Faithful, Punctual, HostIn
  PROVE  Punctual' /\ EndsRight
<1>1. /\ InToken /\ DeviceTypes /\ reply = NoReply
      /\ stage = "in" \/ (stage = "status" /\ ~request.in)
      /\ UNCHANGED <<stage, request, got, clean, ctrlToggle, outcome>>
      /\ UNCHANGED <<hostState, hostLine>>
  BY DEF HostIn, transferVars, hostView, CtrlTypeOK
<1>2. /\ UNCHANGED <<state_q, max_length_q, in_dir_q, req_q, inToggles>>
      /\ byte_cnt_q' = byte_cnt_q + PacketLength
  BY <1>1, InTokenStep DEF toggleVars
<1>3. /\ reply' # NoReply
      /\ reply'.kind = "nak" <=> state_q # "stall" /\ ~Answered
  BY <1>1, InTokenStep
<1>4. reply'.kind = "data" =>
        reply'.data = [i \in 1 .. PacketLength |-> InData(byte_cnt_q + i - 1)]
  BY <1>1, InTokenStep
<1>5. /\ request \in HostRequests /\ got \in Seq(Nat) /\ Len(got) \in Nat
      /\ stage = "in" => request.in /\ ~usb_reset_q
  BY <1>1, Stored DEF CtrlTypeOK, TransferTypes, StageFits, Faithful, Served
<1>6. Refuses' /\ Confirming'
  BY <1>1, <1>2 DEF Punctual, Refuses, Confirming, HasZlp
<1>7. AnswerGiven'
  BY <1>1 DEF AnswerGiven
<1>8. CASE ~clean
  BY <1>1, <1>6, <1>7, <1>8 DEF Punctual, Answering, NoNak, EndsRight
<1>9. CASE clean /\ stage = "status"
  <2>1. state_q = "stall" \/ Answered
    BY <1>1, <1>9 DEF Punctual, Confirming, Answered
  <2>. QED BY <1>1, <1>3, <1>6, <1>7, <1>9, <2>1 DEF Punctual, Answering, NoNak, EndsRight
<1>10. CASE clean /\ stage = "in" /\ state_q = "stall"
  BY <1>1, <1>2, <1>3, <1>6, <1>7, <1>10 DEF Punctual, Answering, NoNak, EndsRight
<1>11. CASE clean /\ stage = "in" /\ state_q # "stall"
  <2>. DEFINE left == Due(request) - Len(got)
  <2>1. /\ state_q = "data" /\ in_dir_q /\ req_q = request.name
        /\ max_length_q = Saturate(request.length)
        /\ Len(got) < Due(request) /\ byte_cnt_q = Len(got)
    BY <1>1, <1>11 DEF Punctual, Answering
  <2>2. request.name # "UNSUPPORTED"
    BY <1>11 DEF Punctual, Refuses, Accepted, Descriptors
  <2>3. End = Due(request) /\ Due(request) \in Nat /\ Due(request) <= FullLength(request.name)
        /\ FullLength(request.name) \in Nat
    BY <1>5, <1>11, <2>1, <2>2, EndIsDue, DueFacts
  <2>4. HasData
    <3>1. byte_cnt_q < max_length_q /\ byte_cnt_q < Size
      BY <1>1, <1>5, <2>1, <2>3, Lengths DEF End, Size, DeviceTypes
    <3>2. ~AtEnd(byte_cnt_q)
      BY <1>1, <1>5, <2>1, <3>1, Lengths DEF AtEnd, Size, DeviceTypes
    <3>. QED BY <2>1, <3>2 DEF HasData
  <2>5. /\ PacketLength = IF left < CTRL_MAXPACKETSIZE THEN left ELSE CTRL_MAXPACKETSIZE
        /\ PacketLength \in Nat /\ Len(got) + PacketLength <= Due(request)
    BY <1>1, <2>1, <2>3, <2>4, PacketSize
  <2>6. reply'.kind # "nak"
    BY <1>3, <2>4 DEF Answered
  <2>7. reply'.kind = "data" => Len(reply'.data) = PacketLength /\ Right(reply.data, Len(got))'
    <3>1. SUFFICES ASSUME reply'.kind = "data"
                   PROVE  Len(reply'.data) = PacketLength /\ Right(reply.data, Len(got))'
      OBVIOUS
    <3>. DEFINE bytes == reply'.data
    <3>2. bytes = [i \in 1 .. PacketLength |-> InData(byte_cnt_q + i - 1)]
      BY <1>4, <3>1
    <3>3. Len(bytes) = PacketLength
      BY <2>5, <3>2
    <3>4. ASSUME Known, NEW i \in 1 .. PacketLength
          PROVE  bytes[i] = FullAnswer(request.name)[Len(got) + i]
      <4>1. Len(got) + i \in 1 .. FullLength(request.name)
        BY <1>5, <2>3, <2>5
      <4>2. InData((Len(got) + i) - 1) = FullAnswer(request.name)[Len(got) + i]
        BY <1>5, <1>11, <2>1, <2>2, <3>4, <4>1, DataRight
      <4>3. bytes[i] = InData(byte_cnt_q + i - 1)
        BY <3>2
      <4>. QED BY <2>1, <4>2, <4>3
    <3>. HIDE DEF bytes
    <3>5. FullAnswer(request.name)' = FullAnswer(request.name) /\ (Known' <=> Known)
      BY <1>1 DEF FullAnswer, Known
    <3>6. Right(reply.data, Len(got))'
      BY <1>1, <3>3, <3>4, <3>5 DEF Right, bytes
    <3>. QED BY <3>3, <3>6 DEF bytes
  <2>8. Right(got, 0)'
    BY <1>1, <1>11 DEF Punctual, Answering, Right, Known, FullAnswer
  <2>9. Answering'
    <3>1. /\ state_q' = "data" /\ in_dir_q' /\ req_q' = request'.name
          /\ max_length_q' = Saturate(request'.length)
          /\ ctrlToggle' = Toggle(inToggles, "ctrl")'
          /\ Len(got') < Due(request') /\ Len(got') % CTRL_MAXPACKETSIZE = 0
      BY <1>1, <1>2, <1>11 DEF Punctual, Answering, Toggle
    <3>2. reply'.kind = "data" =>
            /\ byte_cnt_q' = Len(got') + Len(reply'.data)
            /\ Len(reply'.data) = IF Due(request') - Len(got') < CTRL_MAXPACKETSIZE
                                  THEN Due(request') - Len(got') ELSE CTRL_MAXPACKETSIZE
      BY <1>1, <1>2, <2>1, <2>5, <2>7
    <3>. QED BY <1>3, <2>7, <2>8, <3>1, <3>2 DEF Answering
  <2>10. NoNak'
    BY <2>6 DEF NoNak
  <2>. QED BY <1>1, <1>6, <1>7, <2>9, <2>10 DEF Punctual, EndsRight
<1>. QED BY <1>1, <1>8, <1>9, <1>10, <1>11

LEMMA HostRefusedPunctual ==
  ASSUME CtrlTypeOK, Punctual, HostRefused
  PROVE  Punctual' /\ EndsRight
<1>1. /\ reply' = NoReply /\ DeviceKept /\ UNCHANGED hostView
      /\ stage \in {"in", "status"}
      /\ reply.kind = "stall" => state_q = "stall"
  BY Stored DEF HostRefused, CtrlTypeOK, StageFits
<1>2. CASE reply.kind = "stall" /\ Ends("stall")
  <2>1. stage' = "none" /\ outcome' = "stall"
    BY <1>2 DEF Ends
  <2>2. clean => ~Accepted(request.name, hostState)
    BY <1>1, <1>2 DEF Punctual, Refuses
  <2>. QED BY <1>1, <2>1, <2>2, Idle DEF EndsRight
<1>3. CASE reply.kind = "nak" /\ UNCHANGED <<stage, request, got, clean, ctrlToggle>>
  <2>1. ~clean
    BY <1>3 DEF Punctual, NoNak
  <2>. QED BY <1>3, <2>1 DEF Punctual, Refuses, Answering, AnswerGiven, Confirming,
                             NoNak, EndsRight
<1>. QED BY <1>2, <1>3 DEF HostRefused

LEMMA HostTakesReplyPunctual ==
  ASSUME CtrlTypeOK, Faithful, Punctual, HostTakesReply
  PROVE  Punctual' /\ EndsRight
<1>1. /\ reply.kind = "data" /\ reply' = NoReply /\ reply.data \in Seq(Nat)
      /\ reply.toggle = Toggle(inToggles, "ctrl") /\ state_q # "stall"
      /\ stage = "in" \/ (stage = "status" /\ ~request.in)
      /\ got \in Seq(Nat) /\ request \in HostRequests /\ DeviceTypes
      /\ reply # NoReply
  BY Stored DEF HostTakesReply, CtrlTypeOK, StageFits, TransferTypes
<1>2. stage = "status" => reply.toggle = ctrlToggle
  BY <1>1 DEF Faithful, Served, Toggle
<1>3. stage = "status" /\ clean => Accepted(request.name, hostState)
  BY <1>1 DEF Punctual, Refuses
<1>4. CASE stage = "status" /\ Ends("ok")
  BY <1>1, <1>3, <1>4, Idle DEF Ends, EndsRight
<1>5. CASE ~clean' /\ outcome' = outcome
  BY <1>5 DEF Punctual, Refuses, Answering, AnswerGiven, Confirming, NoNak, EndsRight
<1>6. CASE /\ stage = "status" /\ DeviceKept /\ Dirty
           /\ UNCHANGED <<stage, request, got, ctrlToggle, outcome, hostView>>
  <2>1. UNCHANGED <<state_q, in_dir_q>> /\ (clean' => clean)
    BY <1>1, <1>6, DeviceKeptTypes DEF Dirty
  <2>2. Refuses' /\ Confirming'
    BY <1>6, <2>1 DEF Punctual, Refuses, Confirming, HasZlp, hostView
  <2>3. Answering' /\ AnswerGiven' /\ NoNak'
    BY <1>1, <1>6, Stored DEF Answering, AnswerGiven, NoNak
  <2>. QED BY <1>6, <2>2, <2>3 DEF Punctual, EndsRight
<1>7. CASE stage = "in" /\ HostKeeps(UNCHANGED clean) /\ CtrlAcked
  <2>1. CASE ~clean
    <3>1. clean' = clean /\ outcome' = outcome
      BY <1>7 DEF HostKeeps
    <3>. QED BY <1>5, <2>1, <3>1
  <2>2. CASE clean
    <3>. DEFINE n == Len(got)
                k == Len(reply.data)
                due == Due(request)
                last == k < CTRL_MAXPACKETSIZE \/ Len(got \o reply.data) >= request.length
    <3>1. /\ state_q = "data" /\ in_dir_q /\ req_q = request.name
          /\ max_length_q = Saturate(request.length)
          /\ ctrlToggle = Toggle(inToggles, "ctrl")
          /\ n < due /\ n % CTRL_MAXPACKETSIZE = 0 /\ Right(got, 0)
          /\ byte_cnt_q = n + k
          /\ k = IF due - n < CTRL_MAXPACKETSIZE THEN due - n ELSE CTRL_MAXPACKETSIZE
          /\ Right(reply.data, n)
      BY <1>1, <1>7, <2>2 DEF Punctual, Answering
    <3>2. /\ request.in /\ request.name # "UNSUPPORTED"
          /\ Accepted(request.name, hostState)
      BY <1>1, <1>7, <2>2 DEF Punctual, Refuses, CtrlTypeOK, StageFits, Accepted, Descriptors
    <3>3. /\ due \in Nat /\ due <= request.length /\ request.length \in Nat
          /\ due % CTRL_MAXPACKETSIZE = 0 => due = request.length
          /\ End = due /\ max_length_q \in Nat /\ Size \in Nat
      BY <1>1, <3>1, <3>2, DueFacts, EndIsDue, RequestFacts, Lengths DEF DeviceTypes, Size
    <3>4. /\ stage' = (IF last THEN "status" ELSE "in")
          /\ ctrlToggle' = (IF last THEN 1 ELSE 1 - ctrlToggle)
          /\ got' = got \o reply.data
          /\ UNCHANGED <<clean, request, outcome>>
          /\ UNCHANGED <<hostState, hostLine>>
      BY <1>1, <1>7, <3>1 DEF HostKeeps
    <3>5. /\ UNCHANGED <<in_dir_q, req_q, max_length_q>>
          /\ state_q' = StateAfterAck
          /\ "ctrl" \in inToggles' <=> "ctrl" \notin inToggles
      BY <1>1, <1>7, AckStep
    <3>6. /\ n \in Nat /\ k \in Nat /\ got' \in Seq(Nat)
          /\ Len(got') = n + k /\ Len(got \o reply.data) = n + k
      BY <1>1, <3>4
    <3>7. (n + k) % CTRL_MAXPACKETSIZE = 0 \/ k < CTRL_MAXPACKETSIZE
      BY <3>1, <3>3, <3>6, Lengths, Packets
    <3>8. last <=> n + k = due
      <4>1. ASSUME last PROVE n + k = due
        BY <3>1, <3>3, <3>6, <4>1, Lengths
      <4>2. ASSUME n + k = due, k = CTRL_MAXPACKETSIZE PROVE last
        <5>1. due = request.length
          BY <3>3, <3>7, <4>2, Lengths
        <5>. QED BY <3>3, <3>6, <4>2, <5>1
      <4>3. k <= CTRL_MAXPACKETSIZE
        BY <3>1, <3>3, <3>6, Lengths
      <4>4. k < CTRL_MAXPACKETSIZE => last
        OBVIOUS
      <4>. QED BY <3>6, <4>1, <4>2, <4>3, <4>4, Lengths
    <3>9. n + k <= due
      BY <3>1, <3>3, <3>6, Lengths
    <3>10. AtEnd(byte_cnt_q) <=> last
      <4>1. AtEnd(byte_cnt_q) <=> byte_cnt_q = max_length_q \/ byte_cnt_q = Size
        BY <3>1 DEF AtEnd, Size
      <4>2. (byte_cnt_q = max_length_q \/ byte_cnt_q = Size) <=> byte_cnt_q = due
        <5>1. due = (IF max_length_q < Size THEN max_length_q ELSE Size)
          BY <3>3 DEF End
        <5>. QED BY <3>1, <3>3, <3>6, <3>9, <5>1
      <4>. QED BY <3>1, <3>8, <4>1, <4>2
    <3>11. Right(got, 0)'
      <4>1. ASSUME Known, NEW i \in 1 .. n + k
            PROVE  (got \o reply.data)[i] = FullAnswer(request.name)[i]
        <5>1. CASE i <= n
          BY <1>1, <3>1, <3>6, <4>1, <5>1 DEF Right
        <5>2. CASE i > n
          <6>1. i - n \in 1 .. k /\ (got \o reply.data)[i] = reply.data[i - n]
            BY <1>1, <3>6, <5>2
          <6>2. reply.data[i - n] = FullAnswer(request.name)[n + (i - n)]
            BY <3>1, <4>1, <6>1 DEF Right
          <6>. QED BY <3>6, <6>1, <6>2
        <5>. QED BY <3>6, <5>1, <5>2
      <4>2. FullAnswer(request.name)' = FullAnswer(request.name) /\ (Known' <=> Known)
        BY <3>4 DEF FullAnswer, Known
      <4>3. \A i \in 1 .. Len(got') : i = 0 + i
        OBVIOUS
      <4>. QED BY <3>4, <3>6, <4>1, <4>2, <4>3 DEF Right
    <3>. HIDE DEF n, k, due, last
    <3>12. state_q' = IF last THEN "status" ELSE "data"
      BY <3>1, <3>5, <3>10 DEF StateAfterAck, HasZlp
    <3>13. Refuses'
      BY <3>2, <3>4, <3>12 DEF Refuses
    <3>14. Answering'
      <4>1. SUFFICES ASSUME ~last PROVE Answering'
        BY <3>4 DEF Answering
      <4>2. ctrlToggle' = Toggle(inToggles, "ctrl")'
        BY <3>1, <3>4, <3>5, <4>1 DEF Toggle
      <4>3. Len(got') < Due(request') /\ Len(got') % CTRL_MAXPACKETSIZE = 0
        <5>1. n + k < due /\ Due(request') = due
          BY <3>3, <3>4, <3>6, <3>8, <3>9, <4>1 DEF due
        <5>2. k = CTRL_MAXPACKETSIZE
          BY <3>1, <3>3, <3>6, <5>1
        <5>. QED BY <3>6, <3>7, <5>1, <5>2, Lengths
      <4>4. byte_cnt_q' = Len(got')
        BY <1>7, <3>1, <3>6 DEF CtrlAcked
      <4>. QED BY <1>1, <3>1, <3>4, <3>5, <3>11, <3>12, <4>1, <4>2, <4>3, <4>4, Stored
               DEF Answering
    <3>15. AnswerGiven'
      BY <3>1, <3>4, <3>5, <3>6, <3>8, <3>11, <3>12 DEF AnswerGiven, due
    <3>16. Confirming' /\ NoNak'
      BY <1>1, <3>2, <3>4, Stored DEF Confirming, NoNak
    <3>. QED BY <3>4, <3>13, <3>14, <3>15, <3>16 DEF Punctual, EndsRight
  <2>. QED BY <2>1, <2>2
<1>8. CASE HostKeeps(UNCHANGED clean) /\ CtrlAcked
  BY <1>1, <1>2, <1>4, <1>7, <1>8 DEF HostKeeps
<1>9. CASE HostKeeps(Dirty) /\ DeviceKept
  <2>1. CASE stage = "status"
    BY <1>2, <1>4, <1>9, <2>1 DEF HostKeeps
  <2>2. CASE stage = "in"
    BY <1>5, <1>9, <2>2 DEF HostKeeps, Dirty
  <2>. QED BY <1>1, <2>1, <2>2
<1>10. CASE Dirty /\ DeviceKept /\ UNCHANGED <<stage, request, got, ctrlToggle, outcome, hostView>>
  <2>1. CASE stage = "in"
    BY <1>5, <1>10, <2>1 DEF Dirty
  <2>. QED BY <1>1, <1>6, <1>10, <2>1
<1>. QED BY <1>8, <1>9, <1>10 DEF HostTakesReply

LEMMA BulkPunctual ==
  ASSUME CtrlTypeOK, Punctual, BulkInPasses \/ BulkOutPasses
  PROVE  Punctual' /\ EndsRight
<1>1. /\ reply' = NoReply /\ reply = NoReply
      /\ UNCHANGED <<state_q, requestVars, transferVars, hostState, hostLine>>
      /\ inToggles' \in {inToggles, FlipOf(inToggles, "bulk")}
  BY DEF BulkInPasses, BulkOutPasses, UsesBulk
<1>2. /\ UNCHANGED <<byte_cnt_q, max_length_q, in_dir_q, req_q>>
      /\ UNCHANGED <<stage, request, got, clean, ctrlToggle, outcome>>
  BY <1>1 DEF requestVars, transferVars
<1>3. Toggle(inToggles, "ctrl")' = Toggle(inToggles, "ctrl")
  BY <1>1 DEF Toggle, FlipOf, Set
<1>4. Right(got, 0)' <=> Right(got, 0)
  BY <1>1, <1>2 DEF Right, Known, FullAnswer
<1>5. Refuses' /\ Confirming' /\ NoNak'
  BY <1>1, <1>2, Stored DEF Punctual, Refuses, Confirming, NoNak, HasZlp
<1>6. Answering'
  BY <1>1, <1>2, <1>3, <1>4, Stored DEF Punctual, Answering
<1>7. AnswerGiven'
  BY <1>1, <1>2, <1>4 DEF Punctual, AnswerGiven
<1>. QED BY <1>2, <1>5, <1>6, <1>7 DEF Punctual, EndsRight

LEMMA InitPunctual ==
  ASSUME CtrlInit
  PROVE  Punctual
BY Stored DEF CtrlInit, Punctual, Refuses, Answering, AnswerGiven, Confirming, NoNak

LEMMA PunctualStep ==
  ASSUME CtrlInv, sure => Punctual, CtrlNext
  PROVE  (sure' => Punctual') /\ (sure => EndsRight)
<1>1. CASE HostSetup \/ HostOut \/ HostIn \/ HostRefused \/ BulkInPasses \/ BulkOutPasses
  <2>1. sure' = sure
    BY <1>1 DEF HostSetup, HostOut, HostIn, HostRefused, BulkInPasses, BulkOutPasses, hostView
  <2>. QED BY <1>1, <2>1, HostSetupPunctual, HostOutPunctual, HostInPunctual,
              HostRefusedPunctual, BulkPunctual DEF CtrlInv
<1>2. CASE HostTakesReply
  <2>1. sure' => sure
    BY <1>2 DEF HostTakesReply, hostView
  <2>. QED BY <1>2, <2>1, HostTakesReplyPunctual DEF CtrlInv
<1>3. CASE HostGivesUp \/ BusReset
  <2>1. stage' = "none" /\ reply' = NoReply /\ outcome' = "none"
    BY <1>3 DEF HostGivesUp, BusReset, Ends
  <2>. QED BY <2>1, Idle DEF EndsRight
<1>. QED BY <1>1, <1>2, <1>3 DEF CtrlNext

LEMMA PunctualStutters ==
  ASSUME sure => Punctual, UNCHANGED ctrlVars
  PROVE  sure' => Punctual'
<1>1. /\ UNCHANGED <<state_q, byte_cnt_q, max_length_q, in_dir_q, req_q, inToggles>>
      /\ UNCHANGED <<reply, stage, request, got, clean, ctrlToggle>>
      /\ UNCHANGED <<hostState, hostLine, sure>>
  BY DEF ctrlVars, requestVars, toggleVars, transferVars, hostView
<1>2. SUFFICES ASSUME Punctual PROVE Punctual'
  BY <1>1
<1>3. Refuses' /\ Confirming' /\ NoNak'
  BY <1>1, <1>2 DEF Punctual, Refuses, Confirming, NoNak, HasZlp
<1>4. /\ Right(got, 0)' <=> Right(got, 0)
      /\ Right(reply.data, Len(got))' <=> Right(reply.data, Len(got))
      /\ Toggle(inToggles, "ctrl")' = Toggle(inToggles, "ctrl")
  BY <1>1 DEF Right, Known, FullAnswer, Toggle
<1>5. Answering' /\ AnswerGiven'
  BY <1>1, <1>2, <1>4 DEF Punctual, Answering, AnswerGiven
<1>. QED BY <1>3, <1>5 DEF Punctual

\* ctrl_endp.v:586-1033: unless the data stage meets a fault, a transfer is
\* accepted exactly in the device states in which chapter 9 of USB 2.0 wants
\* it, and a request returns exactly the bytes asked for.
THEOREM TransfersAsAsked == CtrlSpec => TransfersRight
<1>. DEFINE Both == CtrlInv /\ (sure => Punctual)
<1>1. CtrlInit => Both
  BY CtrlInvInit, InitPunctual
<1>2. Both /\ [CtrlNext]_ctrlVars => Both'
  BY CtrlInvStep, PunctualStep, PunctualStutters
<1>3. Both /\ [CtrlNext]_ctrlVars =>
        [(sure /\ clean /\ outcome' \notin {outcome, "none"}) =>
           /\ outcome' = IF Accepted(request.name, hostState) THEN "ok" ELSE "stall"
           /\ (outcome' = "ok" /\ request.in
                /\ ~(request.name = "GET_LINE_CODING" /\ hostLine = UnknownLine))
                 => got = Answer(request)]_ctrlVars
  BY PunctualStep DEF EndsRight, Known
<1>. QED BY <1>1, <1>2, <1>3, PTL DEF CtrlSpec, TransfersRight

=============================================================================
