--------------------------- MODULE GroupSplitter ---------------------------
(***************************************************************************)
(* How the bytes of a group travel: crypt_splitter.rs cuts them into       *)
(* waves, encrypts each wave by itself, cuts the ciphertext into packets   *)
(* and addresses each packet by a pair of ports that packet_vector.rs      *)
(* takes from a random mapping; the receiver puts the packets of a wave    *)
(* back in place, in whatever order they come, decrypts the wave when it   *)
(* has them all, and acknowledges it.                                      *)
(*                                                                         *)
(* A plaintext byte is its position.  A byte of ciphertext is the nonce    *)
(* version, the plaintext encrypted and its position in the ciphertext, so *)
(* that it decrypts only whole, in order and under the same nonce version. *)
(* Lengths are those of the symmetric ciphers, which add a tag.            *)
(***************************************************************************)
EXTENDS NonceVersion, Sequences, FiniteSets

CONSTANTS
    Waveform,   \* MAX_WAVEFORM_PACKET_SIZE (480)
    Tag,        \* SYMMETRIC_CIPHER_OVERHEAD, AES_GCM_GHASH_OVERHEAD (16)
    Lengths,    \* the plaintext lengths considered, none of them zero
    MaxRepeat   \* packets delivered a second time

VARIABLES
    wire,      \* packets on their way
    receiver,  \* the GroupReceiver
    acks,      \* WAVE_ACKs on their way, in order
    sender,    \* the GroupSenderDevice
    repeats    \* packets delivered a second time so far

splitVars == <<group, wire, receiver, acks, sender, repeats>>

Smaller(a, b) == IF a < b THEN a ELSE b

div_ceil(a, b) == (a + b - 1) \div b

\* slice.chunks(k)
chunks(s, k) == [i \in 1..div_ceil(Len(s), k) |-> SubSeq(s, (i - 1) * k + 1, Smaller(i * k, Len(s)))]

-----------------------------------------------------------------------------
(***************************************************************************)
(* The layout of a group                                                   *)
(***************************************************************************)

max_ciphertext_len(n) == n + Tag

\* The security level is limited to Standard, whose exponent is zero.
get_max_packet_size ==
    LET starting == max_ciphertext_len(Waveform) \div (2^0)
    IN  IF starting > Tag THEN starting ELSE Tag

\* max_plaintext_bytes_per_wave: the wave is encrypted at once, so that the overhead is paid once.
WaveLength == get_max_packet_size * PortRange - (get_max_packet_size - Waveform)

\* GroupReceiverConfig::new_refresh
new_refresh(len, full, partial, last_wave, ciphertext_len_last_wave) ==
    LET in_last == div_ceil(ciphertext_len_last_wave, get_max_packet_size)
        rest    == ciphertext_len_last_wave % get_max_packet_size
    IN  [packets_needed       |-> full * PortRange + in_last,
         packets_in_last_wave |-> in_last,
         plaintext_length     |-> len,
         last_payload_size    |-> IF rest = 0 THEN get_max_packet_size ELSE rest,
         last_plaintext_wave  |-> last_wave,
         wave_count           |-> full + partial]

generate_scrambler_metadata(len) ==
    LET partial == IF len % WaveLength = 0 THEN 0 ELSE 1
        last    == IF partial = 0 THEN WaveLength ELSE len % WaveLength
    IN  new_refresh(len, len \div WaveLength, partial, last, IF partial = 0 THEN 0 ELSE max_ciphertext_len(last))

\* A mutant: the last wave is taken for a full one.
EveryWaveIsFull(cfg, wave_id) == PortRange

get_packet_count_in_wave(cfg, wave_id) ==
    IF wave_id = cfg.wave_count - 1 THEN cfg.packets_in_last_wave ELSE PortRange

-----------------------------------------------------------------------------
(***************************************************************************)
(* The packets of a group                                                  *)
(***************************************************************************)

\* Two shuffled port ranges side by side.
create_port_mapping ==
    LET Shuffles == {f \in [1..PortRange -> 0..PortRange - 1] : \A i, j \in 1..PortRange : f[i] = f[j] => i = j}
    IN  {[i \in 1..PortRange |-> <<input[i], output[i]>>] : input \in Shuffles, output \in Shuffles}

generate_packet_vector(true_sequence, mapping) ==
    LET ports == mapping[(true_sequence % PortRange) + 1]
    IN  [wave_id |-> true_sequence \div PortRange, local_port |-> ports[1], remote_port |-> ports[2]]

\* The first pair of the mapping that matches; every pair does, once.
generate_packet_coordinates_inv(wave_id, src_port, local_port, mapping) ==
    wave_id * PortRange + (CHOOSE i \in 1..PortRange : mapping[i] = <<src_port, local_port>>) - 1

encrypt(nonce_version, bytes) == [i \in 1..Len(bytes) + Tag |-> <<nonce_version, bytes, i>>]

Decrypts(nonce_version, ciphertext) ==
    /\ ciphertext # <<>>
    /\ ciphertext[1] # <<>>
    /\ ciphertext = encrypt(nonce_version, ciphertext[1][2])

scramble_encrypt_wave(wave_idx, bytes, id, mapping) ==
    LET parts == chunks(encrypt(calculate_nonce_version(wave_idx, id), bytes), get_max_packet_size)
    IN  {[vector  |-> generate_packet_vector(wave_idx * PortRange + i - 1, mapping),
          payload |-> parts[i]] : i \in DOMAIN parts}

Plaintext(len) == [i \in 1..len |-> i]

par_scramble_encrypt_group(g) ==
    LET parts == chunks(Plaintext(g.len), WaveLength)
    IN  UNION {scramble_encrypt_wave(w - 1, parts[w], g.id, g.mapping) : w \in DOMAIN parts}

-----------------------------------------------------------------------------
(***************************************************************************)
(* The receiver.  A slice out of range, of a buffer or of the slab, ends   *)
(* the task that reads the stream: its state is "panic" then.              *)
(***************************************************************************)

Zeroes(n) == [i \in 1..n |-> <<>>]

TempWaveStore(cfg, wave_id) ==
    LET last    == wave_id = cfg.wave_count - 1
        packets == get_packet_count_in_wave(cfg, wave_id)
        normal  == IF packets > 0 THEN packets - 1 ELSE 0
    IN  [packets_received |-> 0,
         packets_in_wave  |-> packets,
         bytes_written    |-> 0,
         buffer           |-> Zeroes(IF last THEN normal * get_max_packet_size + cfg.last_payload_size
                                             ELSE PortRange * get_max_packet_size)]

new_receiver(cfg) ==
    [cfg                    |-> cfg,
     packets_received_order |-> {},
     temp_wave_store        |-> [w \in 0..cfg.wave_count - 1 |-> TempWaveStore(cfg, w)],
     slab                   |-> [i \in 1..cfg.plaintext_length |-> 0],
     status                 |-> "INSERT_SUCCESS"]

\* Where the packet begins in the buffer of its wave, counted from zero.
get_ciphertext_insertion_range(true_sequence, cfg, store) ==
    IF true_sequence = cfg.packets_needed - 1
    THEN Len(store.buffer) - cfg.last_payload_size
    ELSE get_max_packet_size * (true_sequence % PortRange)

\* s with bytes from the place after start on
Written(s, start, bytes) ==
    [i \in 1..Len(s) |-> IF i > start /\ i <= start + Len(bytes) THEN bytes[i - start] ELSE s[i]]

\* A mutant: a wave is taken for as many full packets as there are ports.
OffsetOfFullPackets(wave_id) == wave_id * Waveform * PortRange

get_plaintext_buffer_insertion_range_by_wave_id(wave_id) == wave_id * WaveLength

Without(f, x) == [y \in DOMAIN f \ {x} |-> f[y]]

\* The wave has all its packets.
FinishWave(r, wave_id, store, id) ==
    LET ciphertext == SubSeq(store.buffer, 1, store.bytes_written)
        start      == get_plaintext_buffer_insertion_range_by_wave_id(wave_id)
        rest       == Without(r.temp_wave_store, wave_id)
    IN  IF ~Decrypts(calculate_nonce_version(wave_id, id), ciphertext)
        THEN [r EXCEPT !.temp_wave_store[wave_id] = store, !.status = "CORRUPT_WAVE"]
        ELSE IF start + Len(ciphertext[1][2]) > Len(r.slab)
        THEN [r EXCEPT !.status = "panic"]
        ELSE [r EXCEPT !.temp_wave_store = rest,
                       !.slab = Written(r.slab, start, ciphertext[1][2]),
                       !.status = IF DOMAIN rest = {} THEN "GROUP_COMPLETE" ELSE "WAVE_COMPLETE"]

InsertPacket(r, true_sequence, wave_id, payload, id) ==
    LET old   == r.temp_wave_store[wave_id]
        start == get_ciphertext_insertion_range(true_sequence, r.cfg, old)
        store == [old EXCEPT !.packets_received = @ + 1,
                             !.bytes_written = @ + Len(payload),
                             !.buffer = Written(@, start, payload)]
    IN  IF start < 0 \/ start + Len(payload) > Len(old.buffer)
        THEN [r EXCEPT !.status = "panic"]
        ELSE IF store.packets_received = store.packets_in_wave
        THEN FinishWave(r, wave_id, store, id)
        ELSE [r EXCEPT !.temp_wave_store[wave_id] = store, !.status = "INSERT_SUCCESS"]

on_packet_received(r, true_sequence, wave_id, payload, id) ==
    IF true_sequence >= r.cfg.packets_needed
    THEN [r EXCEPT !.status = "INVALID_PACKET"]
    ELSE IF true_sequence \in r.packets_received_order
    THEN [r EXCEPT !.status = "ALREADY_RECEIVED"]
    ELSE LET marked == [r EXCEPT !.packets_received_order = @ \cup {true_sequence}]
         IN  IF wave_id \notin DOMAIN r.temp_wave_store
             THEN [marked EXCEPT !.status = "INVALID_PACKET"]
             ELSE InsertPacket(marked, true_sequence, wave_id, payload, id)

-----------------------------------------------------------------------------
(***************************************************************************)
(* The sender                                                              *)
(***************************************************************************)

new_sender(cfg) == [cfg |-> cfg, packets_received |-> 0, complete |-> FALSE, next_group |-> FALSE]

get_packets_in_wave(s, wave_id) ==
    IF wave_id = s.cfg.wave_count - 1 THEN s.cfg.packets_in_last_wave ELSE PortRange

\* packets_received * 1.5 >= packets_needed
is_atleast_fifty_percent_done(s) == 3 * s.packets_received >= 2 * s.cfg.packets_needed

on_wave_tail_ack_received(s, wave_id) ==
    LET n == s.packets_received + get_packets_in_wave(s, wave_id)
    IN  [s EXCEPT !.packets_received = n, !.complete = (n = s.cfg.packets_needed)]

-----------------------------------------------------------------------------
SplitInit ==
    /\ group \in [id : GroupIds, len : Lengths, mapping : create_port_mapping]
    /\ wire = par_scramble_encrypt_group(group)
    /\ receiver = new_receiver(generate_scrambler_metadata(group.len))
    /\ acks = <<>>
    /\ sender = new_sender(generate_scrambler_metadata(group.len))
    /\ repeats = 0

\* The group is in inbound_groups.
Open == receiver.status \notin {"GROUP_COMPLETE", "panic"}

(***************************************************************************)
(* on_group_payload_received, as far as the group goes: packets of a group *)
(* that is complete find no entry of inbound_groups.                       *)
(***************************************************************************)
Deliver(p) ==
    LET v   == p.vector
        seq == generate_packet_coordinates_inv(v.wave_id, v.local_port, v.remote_port, group.mapping)
        r   == on_packet_received(receiver, seq, v.wave_id, p.payload, group.id)
    IN  /\ receiver.status # "panic"
        /\ receiver' = IF Open THEN r ELSE receiver
        /\ acks' = IF Open /\ r.status \in {"WAVE_COMPLETE", "GROUP_COMPLETE"} THEN Append(acks, v.wave_id) ELSE acks
        /\ UNCHANGED <<group, sender>>

Arrives(p) == Deliver(p) /\ wire' = wire \ {p} /\ UNCHANGED repeats

Repeats(p) ==
    /\ repeats < MaxRepeat
    /\ repeats' = repeats + 1
    /\ Deliver(p)
    /\ UNCHANGED wire

\* on_wave_ack_received, as far as the group goes
WaveAck ==
    /\ acks # <<>>
    /\ acks' = Tail(acks)
    /\ LET s == on_wave_tail_ack_received(sender, Head(acks))
       IN  sender' = [s EXCEPT !.next_group = @ \/ s.complete \/ is_atleast_fifty_percent_done(s)]
    /\ UNCHANGED <<group, wire, receiver, repeats>>

SplitNext == WaveAck \/ \E p \in wire : Arrives(p) \/ Repeats(p)

SplitSpec == SplitInit /\ [][SplitNext]_splitVars

-----------------------------------------------------------------------------
SplitTypeOK ==
    /\ group.id \in GroupIds
    /\ group.len \in Lengths
    /\ \A p \in wire : p.vector.wave_id \in 0..receiver.cfg.wave_count - 1 /\ p.payload # <<>>
    /\ receiver.status \in {"INSERT_SUCCESS", "WAVE_COMPLETE", "GROUP_COMPLETE", "ALREADY_RECEIVED", "INVALID_PACKET",
                            "CORRUPT_WAVE", "panic"}
    /\ receiver.packets_received_order \subseteq 0..receiver.cfg.packets_needed - 1
    /\ DOMAIN receiver.temp_wave_store \subseteq 0..receiver.cfg.wave_count - 1
    /\ acks \in Seq(0..receiver.cfg.wave_count - 1)
    /\ sender.packets_received \in 0..sender.cfg.packets_needed
    /\ repeats \in 0..MaxRepeat

\* However the packets of a group are shuffled or repeated, no packet is found invalid, no wave fails to
\* decrypt and no slice is out of range (on_packet_received, crypt_splitter.rs 574-695).
EveryPacketFits == receiver.status \notin {"INVALID_PACKET", "CORRUPT_WAVE", "panic"}

\* No packet and no acknowledgement is left and yet the group is not finished: that never happens, as nobody
\* would ever ask for what is missing (get_missing_waves, crypt_splitter.rs 698, has no caller).
GroupIsConfirmed == wire = {} /\ acks = <<>> => receiver.status = "GROUP_COMPLETE" /\ sender.complete

WavesDone == (0..receiver.cfg.wave_count - 1) \ DOMAIN receiver.temp_wave_store

Abstract == INSTANCE WaveTransfer WITH
    waves <- 0..receiver.cfg.wave_count - 1,
    done <- WavesDone,
    rendered <- receiver.status = "GROUP_COMPLETE" /\ receiver.slab = Plaintext(group.len),
    confirmed <- sender.complete

=============================================================================
