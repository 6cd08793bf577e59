------------------------------ MODULE Artefact ------------------------------
(* The artefacts of the helios-plugin CLI (src/cli/src/artefact.rs): pack    *)
(* reads a wasm file and a signature file that other programs write, and     *)
(* writes a .tar.gz; inspect and verify are other processes that may read it *)
(* at any moment, also while pack is writing, after it failed half way or    *)
(* after it was killed. One pack at a time writes to the path.               *)
EXTENDS Naturals, Sequences, FiniteSets, FiniteSetsExt

CONSTANTS Wasms,      \* contents of wasm files, as far as the hash tells
          NotWasm,    \* a file without the wasm magic
          Keys,       \* Ed25519 key pairs
          Malformed,  \* a signature file that does not decode to 64 bytes
          Torn,       \* an entry body that was cut short
          Files,      \* names of the files in the trust root
          NoRoot,     \* the trust root is missing
          Foreign,    \* archives that other tools left at the path
          MaxPacks,   \* bound on the pack calls that open the output
          MaxEdits    \* bound on the changes to the input files

ASSUME BoundsAssumption == MaxPacks \in Nat /\ MaxEdits \in Nat

VARIABLES wasmFile, sigFile,  \* the input files: Absent or Some(content)
          signed,     \* every signature made so far
          trust,      \* the trust root: NoRoot or what each file holds
          edits,      \* how often the input files changed
          out,        \* the output path: Absent or Some(archive)
          ppc,        \* the packer's next step, or how the last call ended
          wasmBytes, sigBytes,  \* what the packer has read
          opened,     \* the pack calls that opened the output, in order
          vpc,        \* the verifier's next step, or its verdict
          art,        \* what the verifier unpacked: Absent or Some(...)
          left,       \* trust root files that verify has not visited yet
          label       \* the file whose key matched

inputs   == <<wasmFile, sigFile, signed, edits>>
packer   == <<ppc, wasmBytes, sigBytes, opened, out>>
verifier == <<vpc, art, left, label>>
vars     == <<inputs, trust, packer, verifier>>

-----------------------------------------------------------------------------
(* Values. *)

Absent == <<>>
Some(v) == <<v>>
Options(S) == {Absent} \cup {Some(v) : v \in S}

\* An Ed25519 signature names its key and the bytes it was made over; only
\* they verify against it.
Signatures == [key : Keys, over : Wasms]
KeyVerifies(key, wasm, sig) == sig.key = key /\ sig.over = wasm

\* Hashes are collision-free, so a field that holds a hash holds the hashed
\* value. `pack` stands for packed_at and the other fields from the command
\* line: the number of the call.
SchemaMajor == 1
Manifest(wasm, sig, n) ==
    [major |-> SchemaMajor, wasm_sha256 |-> wasm, signature_sha256 |-> sig,
     pack |-> n]
SchemaVersionCompatible(manifest) == manifest.major = SchemaMajor

Entry(kind, body) == [kind |-> kind, body |-> body]

\* What the output path holds while it exists: entries, and whether they can be
\* read up to the end of the archive.
Archive(entries, readable) == Some([entries |-> entries, readable |-> readable])

IsArchive(a) ==
    /\ a.readable \in BOOLEAN
    /\ \A i \in DOMAIN a.entries : DOMAIN a.entries[i] = {"kind", "body"}

\* A body that was cut short is told from a whole one: by the hash of the wasm,
\* by the parser of the manifest and by the length of a signature, which also
\* tells a malformed one.
ASSUME ContentsAssumption ==
    /\ Torn \notin Wasms
    /\ Torn \notin Signatures /\ Malformed \notin Signatures
    /\ Torn \notin {Manifest(w, s, n) : w \in Wasms, n \in 1 .. MaxPacks,
                                       s \in Options(Signatures \cup {Malformed})}
    /\ \A a \in Foreign : IsArchive(a)

OfKind(entries, kind) == {i \in DOMAIN entries : entries[i].kind = kind}

\* The body of the last entry of a kind: a later one replaces an earlier one.
Found(entries, kind) ==
    LET all == OfKind(entries, kind)
    IN  IF all = {} THEN Absent ELSE Some(entries[Max(all)].body)

\* The recomputed hash of the wasm is the manifest's.
Intact(manifest, wasm) == wasm = manifest.wasm_sha256

\* A manifest that does not parse or is of another major version ends unpack
\* at once, even if a good one follows.
BadManifest(entries) ==
    \E i \in DOMAIN entries :
        /\ entries[i].kind = "manifest.json"
        /\ \/ entries[i].body = Torn
           \/ ~SchemaVersionCompatible(entries[i].body)

\* unpack: Absent stands for any of its errors. A stream that was cut short
\* does not decode, entries of other names are ignored, and signature_sha256
\* is not looked at.
Unpack(file) ==
    IF file = Absent \/ ~file[1].readable \/ BadManifest(file[1].entries)
    THEN Absent
    ELSE LET m == Found(file[1].entries, "manifest.json")
             w == Found(file[1].entries, "plugin.wasm")
         IN  IF m = Absent \/ w = Absent \/ ~Intact(m[1], w[1])
             THEN Absent
             ELSE Some([manifest |-> m[1], wasm |-> w[1],
                        signature |-> Found(file[1].entries, "plugin.sig")])

-----------------------------------------------------------------------------
Ended   == {"idle", "ok", "error", "crashed"}
Writing == {"manifest", "wasm", "signature"}

\* A file of the trust root: a key; one that cannot be read; one that verify
\* skips, not named *.pub or not the base64 of a key.
Kinds == Keys \cup {"unreadable", "skipped"}

\* Signatures in the archives found at the path were made by someone.
InitialSignatures(file) ==
    {s \in Signatures : file # Absent
                        /\ Found(file[1].entries, "plugin.sig") = Some(s)}

Init ==
    /\ wasmFile \in {Absent} \cup {Some(w) : w \in Wasms}
    /\ sigFile \in {Absent, Some(Malformed)}
    /\ trust \in [Files -> Kinds] \cup {NoRoot}
    /\ edits = 0
    /\ out \in {Absent} \cup {Some(a) : a \in Foreign}
    /\ signed = InitialSignatures(out)
    /\ ppc = "idle"
    /\ wasmBytes = NotWasm /\ sigBytes = Absent
    /\ opened = <<>>
    /\ vpc = "idle" /\ art = Absent /\ left = {} /\ label = Absent

-----------------------------------------------------------------------------
(* The programs that write the input files.                                 *)

Build(w) ==
    /\ edits < MaxEdits
    /\ edits' = edits + 1
    /\ wasmFile' = Some(w)
    /\ UNCHANGED <<sigFile, signed, trust, packer, verifier>>

Sign(k) ==
    /\ edits < MaxEdits
    /\ edits' = edits + 1
    /\ wasmFile # Absent /\ wasmFile # Some(NotWasm)
    /\ LET s == [key |-> k, over |-> wasmFile[1]]
       IN  sigFile' = Some(s) /\ signed' = signed \cup {s}
    /\ UNCHANGED <<wasmFile, trust, packer, verifier>>

-----------------------------------------------------------------------------
(* pack.                                                                    *)

IsWasm(file) == file # Absent /\ file # Some(NotWasm)
PackerOnly == UNCHANGED <<inputs, trust, verifier>>

\* Bug: the output is opened before the inputs are known to be good.
ReadWasmAfterOpen(withSig) ==
    /\ ppc \in Ended
    /\ Len(opened) < MaxPacks
    /\ IsWasm(wasmFile)
    /\ wasmBytes' = wasmFile[1]
    /\ sigBytes' = Absent
    /\ ppc' = IF withSig THEN "signature_file" ELSE "create"
    /\ out' = Archive(<<>>, FALSE)
    /\ UNCHANGED opened
    /\ PackerOnly

ReadWasm(withSig) ==
    /\ ppc \in Ended
    /\ Len(opened) < MaxPacks
    /\ IsWasm(wasmFile)
    /\ wasmBytes' = wasmFile[1]
    /\ sigBytes' = Absent
    /\ ppc' = IF withSig THEN "signature_file" ELSE "create"
    /\ UNCHANGED <<opened, out>>
    /\ PackerOnly

\* The file is missing, has not the magic, or cannot be read.
ReadWasmFails ==
    /\ ppc \in Ended
    /\ ppc' = "error"
    /\ UNCHANGED <<wasmBytes, sigBytes, opened, out>>
    /\ PackerOnly

\* The signature is copied verbatim: whether it is one is not looked at.
ReadSignature ==
    /\ ppc = "signature_file"
    /\ sigFile # Absent
    /\ ppc' = "create"
    /\ sigBytes' = sigFile
    /\ UNCHANGED <<wasmBytes, opened, out>>
    /\ PackerOnly

ReadSignatureFails ==
    /\ ppc = "signature_file"
    /\ ppc' = "error"
    /\ UNCHANGED <<wasmBytes, sigBytes, opened, out>>
    /\ PackerOnly

Call(status) == [wasm |-> wasmBytes, sig |-> sigBytes, status |-> status]

\* Bug: opening the output does not truncate it.
CreateKeeping ==
    /\ ppc = "create"
    /\ ppc' = "manifest"
    /\ out' = IF out = Absent THEN Archive(<<>>, FALSE)
              ELSE out
    /\ opened' = Append(opened, Call("open"))
    /\ UNCHANGED <<wasmBytes, sigBytes>>
    /\ PackerOnly

\* File::create truncates what was there.
Create ==
    /\ ppc = "create"
    /\ ppc' = "manifest"
    /\ out' = Archive(<<>>, FALSE)
    /\ opened' = Append(opened, Call("open"))
    /\ UNCHANGED <<wasmBytes, sigBytes>>
    /\ PackerOnly

CreateFails ==
    /\ ppc = "create"
    /\ ppc' = "error"
    /\ UNCHANGED <<wasmBytes, sigBytes, opened, out>>
    /\ PackerOnly

\* The entry that the packer writes next.
Pending ==
    CASE ppc = "manifest"  -> Entry("manifest.json",
                                    Manifest(wasmBytes, sigBytes, Len(opened)))
      [] ppc = "wasm"      -> Entry("plugin.wasm", wasmBytes)
      [] ppc = "signature" -> Entry("plugin.sig", sigBytes[1])

Written(entry) == Append(out[1].entries, entry)
Partly(entry)  == [entry EXCEPT !.body = Torn]

\* Bug: an entry is written for a signature that is not there.
WriteEntryAlwaysSigned ==
    /\ ppc \in Writing
    /\ out' = Archive(Written(Pending), out[1].readable)
    /\ ppc' = IF ppc = "manifest" THEN "wasm"
              ELSE IF ppc = "wasm" THEN "signature"
              ELSE "finish"
    /\ UNCHANGED <<wasmBytes, sigBytes, opened>>
    /\ PackerOnly

\* write_tar_entry: the manifest, the wasm, and the signature if there is one.
WriteEntry ==
    /\ ppc \in Writing
    /\ out' = Archive(Written(Pending), out[1].readable)
    /\ ppc' = IF ppc = "manifest" THEN "wasm"
              ELSE IF ppc = "wasm" /\ sigBytes # Absent THEN "signature"
              ELSE "finish"
    /\ UNCHANGED <<wasmBytes, sigBytes, opened>>
    /\ PackerOnly

\* The call that has the output open ends.
EndCall(pc, status) ==
    /\ ppc' = pc
    /\ opened' = [opened EXCEPT ![Len(opened)].status = status]
    /\ UNCHANGED <<wasmBytes, sigBytes>>
    /\ PackerOnly

\* What the file can hold when an entry fails to be written: nothing, a part
\* or all of it, and dropping the tar builder and the gzip encoder on the
\* error path still ends the archive, or fails as well.
WriteEntryFails ==
    /\ ppc \in Writing
    /\ EndCall("error", "failed")
    /\ \E readable \in BOOLEAN,
         entries \in {out[1].entries, Written(Pending), Written(Partly(Pending))} :
            out' = Archive(entries, readable)

\* tar.into_inner and gz.finish.
Finish ==
    /\ ppc = "finish"
    /\ EndCall("ok", "ok")
    /\ out' = Archive(out[1].entries, TRUE)

\* All entries are there; the end of the archive may be, too.
FinishFails ==
    /\ ppc = "finish"
    /\ EndCall("error", "failed")
    /\ \E readable \in BOOLEAN : out' = Archive(out[1].entries, readable)

\* The packer is killed: nothing is dropped, the archive stays without its
\* end unless it was being written.
CrashWriting ==
    /\ ppc \in Writing \cup {"finish"}
    /\ EndCall("crashed", "failed")
    /\ \E readable \in {FALSE} \cup {ppc = "finish"} :
          out' = Archive(out[1].entries, readable)

CrashReading ==
    /\ ppc \in {"signature_file", "create"}
    /\ ppc' = "crashed"
    /\ UNCHANGED <<wasmBytes, sigBytes, opened, out>>
    /\ PackerOnly

Pack ==
    \/ \E withSig \in BOOLEAN : ReadWasm(withSig)
    \/ ReadWasmFails \/ ReadSignature \/ ReadSignatureFails
    \/ Create \/ CreateFails
    \/ WriteEntry \/ WriteEntryFails \/ Finish \/ FinishFails
    \/ CrashWriting \/ CrashReading

-----------------------------------------------------------------------------
(* verify.                                                                  *)

VerifierOnly == UNCHANGED <<inputs, trust, packer>>

\* The signature decodes to 64 bytes.
Decodes(signature) == signature # Absent /\ signature[1] \in Signatures

\* unpack, also when the file cannot be read; then the signature is decoded
\* and the trust root opened.
Unpacked ==
    /\ vpc # "keys"
    /\ art' \in {Unpack(out), Absent}
    /\ label' = Absent
    /\ IF art' # Absent /\ Decodes(art'[1].signature) /\ trust # NoRoot
       THEN vpc' = "keys" /\ left' = Files
       ELSE vpc' = "bad_artefact" /\ left' = {}
    /\ VerifierOnly

\* Bug: the key is compared, what it signed is not.
KeyMatchesAnyWasm(f) == trust[f] \in Keys /\ art[1].signature[1].key = trust[f]

KeyMatches(f) ==
    trust[f] \in Keys /\ KeyVerifies(trust[f], art[1].wasm, art[1].signature[1])

VisitUnreadable(f) ==
    /\ vpc = "keys" /\ f \in left
    /\ trust[f] = "unreadable"
    /\ vpc' = "root_error"
    /\ left' = {}
    /\ UNCHANGED <<art, label>>
    /\ VerifierOnly

VisitMatch(f) ==
    /\ vpc = "keys" /\ f \in left
    /\ KeyMatches(f)
    /\ vpc' = "ok"
    /\ left' = {}
    /\ label' = Some(f)
    /\ UNCHANGED art
    /\ VerifierOnly

\* A file to skip, or a key that does not match.
VisitOther(f) ==
    /\ vpc = "keys" /\ f \in left
    /\ trust[f] # "unreadable" /\ ~KeyMatches(f)
    /\ left' = left \ {f}
    /\ UNCHANGED <<vpc, art, label>>
    /\ VerifierOnly

NoMatch ==
    /\ vpc = "keys" /\ left = {}
    /\ vpc' = "no_match"
    /\ UNCHANGED <<art, left, label>>
    /\ VerifierOnly

\* read_dir returns the files in any order.
Verify ==
    \/ Unpacked \/ NoMatch
    \/ \E f \in Files : VisitUnreadable(f) \/ VisitMatch(f) \/ VisitOther(f)

Next ==
    \/ \E w \in Wasms \cup {NotWasm} : Build(w)
    \/ \E k \in Keys : Sign(k)
    \/ Pack
    \/ Verify

Spec == Init /\ [][Next]_vars

-----------------------------------------------------------------------------
(* Properties.                                                              *)

\* Types of the variables; the parts of a call that its step relies on.
TypeOK ==
    /\ wasmFile \in Options(Wasms \cup {NotWasm})
    /\ sigFile \in Options(Signatures \cup {Malformed})
    /\ signed \subseteq Signatures
    /\ trust \in [Files -> Kinds] \cup {NoRoot}
    /\ edits \in 0 .. MaxEdits
    /\ out # Absent => IsArchive(out[1])
    /\ ppc \in Ended \cup Writing \cup {"signature_file", "create", "finish"}
    /\ wasmBytes \in Wasms \cup {NotWasm}
    /\ ppc \in Writing \cup {"create", "finish"} => wasmBytes \in Wasms
    /\ sigBytes \in Options(Signatures \cup {Malformed})
    /\ ppc = "signature" => sigBytes # Absent
    /\ Len(opened) <= MaxPacks
    /\ \A i \in DOMAIN opened : opened[i].status \in {"open", "ok", "failed"}
    /\ vpc \in {"idle", "keys", "bad_artefact", "root_error", "ok", "no_match"}
    /\ left \subseteq Files
    /\ label \in Options(Files)

LastCall == opened[Len(opened)]

\* A pack that returned Ok left an artefact that unpacks to exactly what the
\* call had read, and it stays so whatever later calls do until one of them
\* opens the output: a call that is refused, fails to read an input or is
\* killed before that does not cost the artefact that is there.
PackedIsReadable ==
    opened # <<>> /\ LastCall.status = "ok" =>
        LET call == LastCall
        IN  Unpack(out) =
              Some([manifest |-> Manifest(call.wasm, call.sig, Len(opened)),
                    wasm |-> call.wasm, signature |-> call.sig])

\* The output path, for its readers, is a store of whole artefacts: only a
\* call that opens it takes away what is there, another tool's artefact too,
\* and only the end of that call puts its own there, all at once. No refused
\* call, no entry written so far, and no build, signer or reader changes it.
Artefacts == [manifest  : {Manifest(w, s, n) : w \in Wasms, n \in 1 .. MaxPacks,
                                               s \in Options(Signatures \cup {Malformed})},
              wasm      : Wasms,
              signature : Options(Signatures \cup {Malformed})]
Packing(call) == [manifest |-> Manifest(call.wasm, call.sig, Len(opened)),
                  wasm |-> call.wasm, signature |-> call.sig]
Store == INSTANCE ArtefactStore WITH
    Part   <- Torn,
    stored <- Unpack(out),
    last   <- IF opened = <<>> THEN Absent ELSE Some(Packing(LastCall)),
    status <- IF opened = <<>> THEN "none" ELSE LastCall.status
ImplementsArtefactStore == Store!Spec

\* Whenever it is read, also while pack writes and after pack failed or was
\* killed, the file is either refused or is one call's artefact, that of the
\* last call that opened it: never an older one, and never the manifest, the
\* wasm and the signature of different calls.
UnpackIsLastPack ==
    opened # <<>> /\ Unpack(out) # Absent =>
        LET a == Unpack(out)[1]
        IN  /\ a.manifest = Manifest(LastCall.wasm, LastCall.sig, Len(opened))
            /\ a.wasm = LastCall.wasm
            /\ a.signature \in {LastCall.sig, Absent, Some(Torn)}
            /\ LastCall.status = "ok" => a.signature = LastCall.sig

\* Whatever the order of the directory, whatever entries the archive gives
\* more than once and whatever the input files went through before pack read
\* them: the wasm and the manifest that unpack returns are the ones whose hash
\* it compared; an accepted artefact was signed, wasm and all, by the trusted
\* key it names; one is refused for want of a match only if no file of the
\* trust root holds a key that signed it; and verify gives up on the trust
\* root only over a file it cannot read.
VerdictJustified ==
    /\ art # Absent => Intact(art[1].manifest, art[1].wasm)
    /\ vpc = "ok" =>
          /\ trust[label[1]] \in Keys
          /\ [key |-> trust[label[1]], over |-> art[1].wasm] \in signed
    /\ vpc = "no_match" =>
          \A f \in Files : trust[f] # "unreadable" /\ ~KeyMatches(f)
    /\ vpc = "root_error" => \E f \in Files : trust[f] = "unreadable"

\* As src/cli/src/manifest.rs says of signature_sha256: the hash of the
\* signature in the artefact, when there is one.
SignatureMatchesManifest ==
    opened # <<>> /\ Unpack(out) # Absent =>
        LET a == Unpack(out)[1]
        IN  a.manifest.signature_sha256 = a.signature
=============================================================================
