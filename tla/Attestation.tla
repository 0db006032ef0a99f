---------------------------- MODULE Attestation -----------------------------
(***************************************************************************)
(* The chain from the boot ROM to a remote verifier.  The ROM measures and *)
(* certifies the monitor (bootrom/bootloader.c); the monitor measures      *)
(* enclaves (module Loader) and signs what they ask it to                  *)
(* (sm/src/enclave.c, attest_enclave); reports travel as JSON              *)
(* (sdk/src/verifier/Report.cpp) to a verifier that knows the device and   *)
(* the files and chose a nonce (examples/attestation/host/verifier.cpp).   *)
(* Sealing keys come from the same measurements.                           *)
(*                                                                         *)
(* The machine may be reset at any time, with any of the monitors.         *)
(* Reports may be lost, repeated, delayed and put together from parts of   *)
(* each other.                                                             *)
(***************************************************************************)
EXTENDS Loader

CONSTANTS
    Machines,           \* pairs of a device, by its key, and an image of the monitor, its bytes
    Apps,               \* enclaves that are started: records of files
    Data,               \* what applications attest, sequences of bytes
    Nonces,             \* what a verifier asks for
    Idents,             \* identifiers of sealing keys
    Eids,
    FirstByte(_),       \* first byte of a secret key or of a hash
    SM_SIZE,            \* sanctum_sm_size
    ATTEST_DATA_MAXLEN,
    IDENT_MAX,          \* size of rt_copy_buffer_2
    SEALING_KEY_SIZE,
    None,
    MaxHistory          \* requests and sealing keys that are made (a bound)

Devices == {m.dev : m \in Machines}
Monitors == {m.mon : m \in Machines}

VARIABLES
    machine,    \* the device that runs and the monitor it runs
    sm,         \* the hashes, keys and signatures the monitor was booted with
    enclaves,   \* state, files and hash of each enclave
    call,       \* where an enclave is in attest_enclave, and the report so far
    buffer,     \* the runtimes' rt_copy_buffer_1
    reports,    \* the reports the host has seen
    requests,   \* who asked the monitor to attest what (history)
    keys        \* who got which sealing key (history)

vars == <<machine, sm, enclaves, call, buffer, reports, requests, keys>>

(***************************************************************************)
(* The boot ROM.                                                           *)
(***************************************************************************)
\* Memory from DRAM_BASE on, which the monitor's image does not fill.
SmMemory(image) == [i \in 1 .. SM_SIZE |-> IF i <= Len(image) THEN image[i] ELSE 0]
DeviceKeys(dev) == ed25519_create_keypair(dev)

\* Of the device key and of the hash, one byte each goes into the seed.
bootloader(dev, image) ==
    LET hash == Hash(SmMemory(image))
        seed == Hash(<<FirstByte(DeviceKeys(dev).secret), FirstByte(hash)>>)
        pair == ed25519_create_keypair(seed)
    IN  [hash |-> hash, public |-> pair.public, secret |-> pair.secret,
         signature |-> ed25519_sign([hash |-> hash, public_key |-> pair.public],
                                    DeviceKeys(dev).secret),
         dev_public |-> DeviceKeys(dev).public]

\* Memory that is all zero reads as no enclave, no report.
NoEnclave == [state |-> "invalid", app |-> None, hash |-> None]
NoCall == [at |-> "app", data |-> None, report |-> None]
NoSignature == [by |-> [sk |-> None], message |-> None]
NoKey == [pk |-> None]
NoReport ==
    [dev_public_key |-> NoKey,
     sm |-> [hash |-> None, public_key |-> NoKey, signature |-> NoSignature],
     enclave |-> [hash |-> None, data_len |-> 0, data |-> Zero(ATTEST_DATA_MAXLEN),
                  signature |-> NoSignature]]

Init ==
    /\ machine \in Machines
    /\ sm = bootloader(machine.dev, machine.mon)
    /\ enclaves = [e \in Eids |-> NoEnclave]
    /\ call = [e \in Eids |-> NoCall]
    /\ buffer = [e \in Eids |-> NoReport]
    /\ reports = {} /\ requests = {} /\ keys = {}

Reset(m) ==
    /\ machine' = m
    /\ sm' = bootloader(m.dev, m.mon)
    /\ enclaves' = [e \in Eids |-> NoEnclave]
    /\ call' = [e \in Eids |-> NoCall]
    /\ buffer' = [e \in Eids |-> NoReport]
    /\ UNCHANGED <<reports, requests, keys>>

(***************************************************************************)
(* Enclaves come and go as module Enclave says; here their measurement     *)
(* matters, and that an enclave that runs is not destroyed.                *)
(***************************************************************************)
MonitorHash == [app \in Apps |-> validate_and_hash_enclave(LaidOut(app, 0))]

Create(e, app) ==
    /\ enclaves[e].state = "invalid"
    /\ enclaves' = [enclaves EXCEPT ![e] = [state |-> "fresh", app |-> app, hash |-> MonitorHash[app]]]
    /\ buffer' = [buffer EXCEPT ![e] = NoReport]
    /\ UNCHANGED <<machine, sm, call, reports, requests, keys>>

Run(e) ==
    /\ enclaves[e].state \in {"fresh", "stopped"}
    /\ enclaves' = [enclaves EXCEPT ![e].state = "running"]
    /\ UNCHANGED <<machine, sm, call, buffer, reports, requests, keys>>

Stop(e) ==
    /\ enclaves[e].state = "running" /\ call[e].at = "app"
    /\ enclaves' = [enclaves EXCEPT ![e].state = "stopped"]
    /\ UNCHANGED <<machine, sm, call, buffer, reports, requests, keys>>

\* Mutant: an enclave that runs is destroyed as well.
Destroy_running(e) ==
    /\ enclaves[e].state # "invalid"
    /\ enclaves' = [enclaves EXCEPT ![e] = NoEnclave]
    /\ UNCHANGED <<machine, sm, call, buffer, reports, requests, keys>>

Destroy(e) ==
    /\ enclaves[e].state \in {"fresh", "stopped"}
    /\ enclaves' = [enclaves EXCEPT ![e] = NoEnclave]
    /\ UNCHANGED <<machine, sm, call, buffer, reports, requests, keys>>

(***************************************************************************)
(* attest_enclave: the lock is held while the data is copied in and while  *)
(* the report is copied out, and not while it is signed.                   *)
(***************************************************************************)
Room == Cardinality(requests) + Cardinality(keys) < MaxHistory
Calls(e) == enclaves[e].state = "running" /\ call[e].at = "app"

Fits(data) == Len(data) <= ATTEST_DATA_MAXLEN

\* The application hands on what the runtime copies to it, whatever the call returned.
Handed(report) == reports' = reports \cup {report}

\* More data than a report holds: the runtime copies out what the buffer holds.
AttestRefused(e, data) ==
    /\ Calls(e) /\ ~Fits(data)
    /\ Handed(buffer[e])
    /\ UNCHANGED <<machine, sm, enclaves, call, buffer, requests, keys>>

AttestData(e, data) ==
    /\ Calls(e) /\ Fits(data) /\ Room
    /\ call' = [call EXCEPT ![e] = [at |-> "sign", data |-> data, report |-> None]]
    /\ requests' = requests \cup {[dev |-> machine.dev, mon |-> machine.mon,
                                   app |-> enclaves[e].app, data |-> data]}
    /\ UNCHANGED <<machine, sm, enclaves, buffer, reports, keys>>

\* What is on the stack behind the data.
Unset(n) == [i \in 1 .. n |-> STALE]

sm_sign(data) == ed25519_sign(data, sm.secret)

Signed(hash, data_len, data) ==
    [hash |-> hash, data_len |-> data_len, data |-> SubSeq(data, 1, data_len)]

Report(hash, data) ==
    [dev_public_key |-> sm.dev_public,
     sm |-> [hash |-> sm.hash, public_key |-> sm.public, signature |-> sm.signature],
     enclave |-> [hash |-> hash, data_len |-> Len(data),
                  data |-> data \o Unset(ATTEST_DATA_MAXLEN - Len(data)),
                  signature |-> sm_sign(Signed(hash, Len(data), data))]]

AttestSign(e) ==
    /\ call[e].at = "sign"
    /\ call' = [call EXCEPT ![e].at = "report",
                            ![e].report = Report(enclaves[e].hash, call[e].data)]
    /\ UNCHANGED <<machine, sm, enclaves, buffer, reports, requests, keys>>

AttestReport(e) ==
    /\ call[e].at = "report"
    /\ buffer' = [buffer EXCEPT ![e] = call[e].report]
    /\ Handed(call[e].report)
    /\ call' = [call EXCEPT ![e] = NoCall]
    /\ UNCHANGED <<machine, sm, enclaves, requests, keys>>

(***************************************************************************)
(* Sealing keys.  The runtime refuses an identifier longer than its        *)
(* buffer, and clears the buffer that the key came in; the monitor reads   *)
(* the hash without taking the lock.                                       *)
(***************************************************************************)

Info(hash, ident) == <<hash>> \o ident

sm_derive_sealing_key(ident, hash) ==
    hkdf_sha3_512(<<>>, <<sm.secret>>, Info(hash, ident), SEALING_KEY_SIZE)

\* The sealing_key structure: the key, and the monitor's signature of it.
get_sealing_key(ident, hash) ==
    LET key == sm_derive_sealing_key(ident, hash) IN [key |-> key, signature |-> sm_sign(key)]

GetSealingKey(e, ident) ==
    /\ Calls(e) /\ Len(ident) <= IDENT_MAX /\ Room
    /\ keys' = keys \cup {[dev |-> machine.dev, mon |-> machine.mon, app |-> enclaves[e].app,
                           ident |-> ident] @@ get_sealing_key(ident, enclaves[e].hash)}
    /\ buffer' = [buffer EXCEPT ![e] = NoReport]
    /\ UNCHANGED <<machine, sm, enclaves, call, reports, requests>>

Next ==
    \/ \E m \in Machines : Reset(m)
    \/ \E e \in Eids :
          \/ \E app \in Apps : Create(e, app)
          \/ Run(e) \/ Stop(e) \/ Destroy(e)
          \/ \E data \in Data : AttestRefused(e, data) \/ AttestData(e, data)
          \/ AttestSign(e) \/ AttestReport(e)
          \/ \E ident \in Idents : GetSealingKey(e, ident)

Spec == Init /\ [][Next]_vars

(***************************************************************************)
(* Reports as JSON.  Hashes, keys and signatures are of a fixed length;    *)
(* the data is as many bytes as the length next to it says.                *)
(***************************************************************************)
BytesToHex(bytes, len) ==
    FlattenSeq([i \in 1 .. len |-> <<bytes[i] \div 16, bytes[i] % 16>>])

\* substr throws when it starts behind the end of the string; at the end it is empty, and reads as 0.
Readable(hex, len) == len = 0 \/ 2 * (len - 1) <= Len(hex)
HexToBytes(hex, len) ==
    [i \in 1 .. len |-> IF 2 * i > Len(hex) THEN 0 ELSE 16 * hex[2 * i - 1] + hex[2 * i]]

\* data_len is at most ATTEST_DATA_MAXLEN (TypeOK).
stringfy(report) ==
    [dev |-> report.dev_public_key, sm |-> report.sm,
     enclave |-> [hash |-> report.enclave.hash, datalen |-> report.enclave.data_len,
                  data |-> BytesToHex(report.enclave.data, report.enclave.data_len),
                  signature |-> report.enclave.signature]]

fromJson(json) ==
    [dev_public_key |-> json.dev, sm |-> json.sm,
     enclave |-> [hash |-> json.enclave.hash, data_len |-> json.enclave.datalen,
                  data |-> HexToBytes(json.enclave.data, json.enclave.datalen),
                  signature |-> json.enclave.signature]]

(***************************************************************************)
(* The verifier.                                                           *)
(***************************************************************************)
checkSignaturesOnly(report, dev_public_key) ==
    /\ ed25519_verify(report.sm.signature,
                      [hash |-> report.sm.hash, public_key |-> report.sm.public_key],
                      dev_public_key)
    /\ ed25519_verify(report.enclave.signature,
                      Signed(report.enclave.hash, report.enclave.data_len, report.enclave.data),
                      report.sm.public_key)

verify(report, expected_enclave_hash, expected_sm_hash, dev_public_key) ==
    /\ report.enclave.hash = expected_enclave_hash
    /\ report.sm.hash = expected_sm_hash
    /\ checkSignaturesOnly(report, dev_public_key)

\* strcmp of the nonce and the data, which is as long as the nonce with its end.
verify_data(report, nonce) ==
    /\ report.enclave.data_len = Len(nonce) + 1
    /\ SubSeq(report.enclave.data, 1, Len(nonce) + 1) = nonce \o <<0>>

compute_expected_enclave_hash == [app \in Apps |-> measure(app)]
compute_expected_sm_hash == [image \in Monitors |-> Hash(SmMemory(image))]

\* All three messages of verify_report are the good ones.
verify_report(json, dev, image, app, nonce) ==
    /\ Readable(json.enclave.data, json.enclave.datalen)
    /\ LET report == fromJson(json) IN
       /\ verify(report, compute_expected_enclave_hash[app], compute_expected_sm_hash[image],
                 DeviceKeys(dev).public)
       /\ verify_data(report, nonce)

\* What may arrive with a signature of the device: parts of reports, with any length
\* of the data that can be read.
Arrivals(dev) ==
    {[dev |-> top.dev_public_key, sm |-> top.sm,
      enclave |-> [hash |-> hash, datalen |-> sized[2], data |-> sized[1], signature |-> signature]] :
        top \in {r \in reports : ed25519_verify(r.sm.signature,
                                                [hash |-> r.sm.hash, public_key |-> r.sm.public_key],
                                                DeviceKeys(dev).public)},
        hash \in {r.enclave.hash : r \in reports},
        sized \in {s \in {BytesToHex(r.enclave.data, r.enclave.data_len) : r \in reports}
                           \X (0 .. ATTEST_DATA_MAXLEN) : Readable(s[1], s[2])},
        signature \in {r.enclave.signature : r \in reports}}

\* Those of them that a verifier does not reject for their signatures alone.
Plausible(dev) ==
    {json \in Arrivals(dev) : checkSignaturesOnly(fromJson(json), DeviceKeys(dev).public)}

(***************************************************************************)
(* Properties.                                                             *)
(***************************************************************************)
\* Enclaves, calls and what is collected have their types.
TypeOK ==
    /\ machine \in Machines
    /\ \A e \in Eids :
          /\ enclaves[e].state \in {"invalid", "fresh", "stopped", "running"}
          /\ enclaves[e].app \in Apps \cup {None}
          /\ call[e].at \in {"app", "sign", "report"}
    /\ \A r \in reports : r.enclave.data_len \in 0 .. ATTEST_DATA_MAXLEN
    /\ \A k \in keys : Len(k.key) = SEALING_KEY_SIZE

\* The monitor's keys on a device: what the ROM makes them from.
Origin(dev, image) ==
    <<FirstByte(DeviceKeys(dev).secret), FirstByte(Hash(SmMemory(image)))>>

\* A verifier that finds a report good has an enclave, of the files it measured,
\* that asked for its nonce to be attested; the monitor under that enclave has the
\* expected one's keys (attest_enclave, Report::verify, verify_data).  Two monitors
\* have the same keys if the bytes that the ROM derives them from are the same.
AcceptedIsGenuine ==
    \A dev \in Devices : \A json \in Plausible(dev) :
        \A image \in Monitors, app \in Apps, nonce \in Nonces : verify_report(json, dev, image, app, nonce) =>
            \E q \in requests : /\ Origin(q.dev, q.mon) = Origin(dev, image)
                                /\ Measured(q.app) = Measured(app)
                                /\ q.data = nonce \o <<0>>

\* A report that reaches the verifier as it left the enclave is found good, while the
\* enclave that asked for it exists, by a verifier that knows the device, the monitor
\* and the files and chose the nonce: both ends measure, sign, encode and pad alike (Enclave::measure,
\* validate_and_hash_enclave, bootloader, compute_expected_sm_hash, stringfy, fromJson).
GenuineIsAccepted ==
    \A e \in Eids, nonce \in Nonces :
        call[e].at = "report" /\ call[e].data = nonce \o <<0>> =>
            /\ enclaves[e].app \in Apps
            /\ verify_report(stringfy(call[e].report), machine.dev, machine.mon,
                             enclaves[e].app, nonce)

\* Two sealing keys are the same exactly if the monitor has the same keys, the
\* enclaves measure the same and the identifiers are the same, across resets,
\* restarts of the enclave and slots (get_sealing_key, sm_derive_sealing_key).
SealingKeysMatch ==
    \A j, k \in keys :
        j.key = k.key <=> /\ Origin(j.dev, j.mon) = Origin(k.dev, k.mon)
                         /\ Measured(j.app) = Measured(k.app)
                         /\ j.ident = k.ident

\* Every sealing key is the one RFC 5869 derives from the monitor's secret key, the
\* measurement and the identifier: of its length, of the blocks in order, the last
\* one cut (hkdf_expand, sm_derive_sealing_key).
KeysDerived ==
    \A k \in keys :
        k.key = HKDF(hkdf_extract(<<>>, <<bootloader(k.dev, k.mon).secret>>),
                     <<MonitorHash[k.app]>> \o k.ident, SEALING_KEY_SIZE)

\* A sealing key comes with a signature that verifies under the public key of the
\* monitor that derived it, and under no other monitor's (get_sealing_key, sm_sign).
KeysSigned ==
    \A k \in keys, dev \in Devices, mon \in Monitors :
        ed25519_verify(k.signature, k.key, bootloader(dev, mon).public)
            <=> Origin(dev, mon) = Origin(k.dev, k.mon)

\* A report is accepted if it is genuine and only if it is (attest_enclave, Report.cpp).
AcceptedIffGenuine == TypeOK /\ AcceptedIsGenuine /\ GenuineIsAccepted

\* Sealing keys are those of RFC 5869, identify monitor, enclave and identifier, and
\* are signed by their monitor (get_sealing_key, sm_derive_sealing_key).
SealingKeysExact == SealingKeysMatch /\ KeysDerived /\ KeysSigned
=============================================================================
