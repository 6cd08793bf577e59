--------------------------- MODULE ArtefactProofs ---------------------------
(* Proofs about Artefact: what a reader finds at the output path, whatever  *)
(* pack was doing, that pack so implements ArtefactStore, and what verify's *)
(* verdict rests on. They hold for any wasms, keys, trust roots, foreign    *)
(* archives and numbers of calls.                                           *)
EXTENDS Artefact, FiniteSetTheorems, SequenceTheorems, TLAPS

-----------------------------------------------------------------------------
(* The inductive invariant.                                                 *)

\* The entries that the n-th call to open the output writes, in order.
ManifestOf(call, n) == Entry("manifest.json", Manifest(call.wasm, call.sig, n))
WasmOf(call)        == Entry("plugin.wasm", call.wasm)
SignatureOf(call)   == Entry("plugin.sig", call.sig[1])

Complete(call, n) ==
  IF call.sig = Absent THEN <<ManifestOf(call, n), WasmOf(call)>>
  ELSE <<ManifestOf(call, n), WasmOf(call), SignatureOf(call)>>

\* What a call that failed can have left of them.
Rests(call, n) ==
  {<<>>,
   <<ManifestOf(call, n)>>, <<Partly(ManifestOf(call, n))>>,
   <<ManifestOf(call, n), WasmOf(call)>>,
   <<ManifestOf(call, n), Partly(WasmOf(call))>>}
  \cup (IF call.sig = Absent THEN {}
        ELSE {<<ManifestOf(call, n), WasmOf(call), SignatureOf(call)>>,
              <<ManifestOf(call, n), WasmOf(call), Partly(SignatureOf(call))>>})

SignatureFiles == Options(Signatures \cup {Malformed})
CallRecords ==
  [wasm : Wasms, sig : SignatureFiles, status : {"open", "ok", "failed"}]

\* The signature that a file or an archive holds, if it is one, was made.
WasMade(file) == \A s \in Signatures : file = Some(s) => s \in signed
FoundWasMade ==
  \A s \in Signatures :
      out # Absent /\ Found(out[1].entries, "plugin.sig") = Some(s) => s \in signed

\* Where the packer is within its call.
CallInv ==
  /\ opened \in Seq(CallRecords)
  /\ sigBytes \in SignatureFiles
  /\ ppc \in Ended \cup Writing \cup {"signature_file", "create", "finish"}
  /\ ppc \in Writing \cup {"signature_file", "create", "finish"} => wasmBytes \in Wasms
  /\ ppc \in {"signature_file", "create"} => Len(opened) < MaxPacks
  /\ Len(opened) <= MaxPacks
  /\ ppc = "signature" => sigBytes # Absent
  /\ WasMade(sigFile) /\ WasMade(sigBytes)

\* While a call writes, the file is without its end and holds the entries so
\* far; afterwards it holds all of them, or what the failed call has left.
OutInv ==
  /\ opened = <<>> => FoundWasMade
  /\ ppc \in Writing \cup {"finish"} =>
        /\ opened # <<>> /\ LastCall = Call("open")
        /\ ppc = "manifest"  => out = Archive(<<>>, FALSE)
        /\ ppc = "wasm"      => out = Archive(<<ManifestOf(LastCall, Len(opened))>>, FALSE)
        /\ ppc = "signature" => out = Archive(<<ManifestOf(LastCall, Len(opened)),
                                                WasmOf(LastCall)>>, FALSE)
        /\ ppc = "finish"    => out = Archive(Complete(LastCall, Len(opened)), FALSE)
  /\ opened # <<>> /\ ppc \notin Writing \cup {"finish"} =>
        /\ LastCall.status \in {"ok", "failed"}
        /\ LastCall.status = "ok" => out = Archive(Complete(LastCall, Len(opened)), TRUE)
        /\ LastCall.status = "failed" =>
              \E es \in Rests(LastCall, Len(opened)), readable \in BOOLEAN :
                  out = Archive(es, readable)
  /\ opened # <<>> => WasMade(LastCall.sig)

\* The verifier has unpacked an artefact whose hash fits; behind its decoding
\* there is a signature that was made, and none of the files it has visited
\* settles the verdict.
VerifyInv ==
  /\ art # Absent => Intact(art[1].manifest, art[1].wasm)
  /\ vpc \in {"keys", "ok"} =>
        /\ trust # NoRoot
        /\ \E s \in Signatures : art[1].signature = Some(s) /\ s \in signed
  /\ vpc = "keys" =>
        \A f \in Files \ left : trust[f] # "unreadable" /\ ~KeyMatches(f)
  /\ vpc = "ok" => label[1] \in Files /\ KeyMatches(label[1])
  /\ vpc = "no_match" => \A f \in Files : trust[f] # "unreadable" /\ ~KeyMatches(f)
  /\ vpc = "root_error" => \E f \in Files : trust[f] = "unreadable"

ArtefactInv == TypeOK /\ CallInv /\ OutInv /\ VerifyInv

-----------------------------------------------------------------------------
(* What unpack finds in what pack writes.                                   *)

\* Of any archive, unpack returns the wasm and the manifest it compared.
LEMMA UnpackIsIntact ==
  ASSUME NEW file, Unpack(file) # Absent
  PROVE  Intact(Unpack(file)[1].manifest, Unpack(file)[1].wasm)
<1> DEFINE m == Found(file[1].entries, "manifest.json")
           w == Found(file[1].entries, "plugin.wasm")
           sig == Found(file[1].entries, "plugin.sig")
<1>1. /\ Intact(m[1], w[1])
      /\ Unpack(file) = Some([manifest |-> m[1], wasm |-> w[1], signature |-> sig])
  BY DEF Unpack
<1> HIDE DEF m, w, sig
<1> QED BY <1>1 DEF Some

LEMMA FoundIs ==
  ASSUME NEW es, DOMAIN es \subseteq Nat, NEW n \in DOMAIN es,
         \A m \in OfKind(es, es[n].kind) : m <= n
  PROVE  Found(es, es[n].kind) = Some(es[n].body)
<1> DEFINE K == OfKind(es, es[n].kind)
<1>1. n \in K /\ K \subseteq Nat
  BY DEF OfKind
<1>2. \A m \in K : m <= n
  OBVIOUS
<1> HIDE DEF K
<1>3. \A m \in K : n >= m
  BY <1>1, <1>2
<1>4. \A x \in K : (\A y \in K : x >= y) => x = n
  BY <1>1, <1>3
<1>5. Max(K) = n
  BY <1>1, <1>3, <1>4 DEF Max
<1> QED BY <1>1, <1>5 DEF Found, K

LEMMA FoundNone ==
  ASSUME NEW es, NEW kind, \A m \in DOMAIN es : es[m].kind # kind
  PROVE  Found(es, kind) = Absent
BY DEF Found, OfKind

\* A manifest of any pack parses and is of this version; a torn one does not
\* parse.
LEMMA ManifestParses ==
  ASSUME NEW call \in CallRecords, NEW n \in 1 .. MaxPacks
  PROVE  /\ ManifestOf(call, n).body # Torn
         /\ SchemaVersionCompatible(ManifestOf(call, n).body)
<1>1. ManifestOf(call, n).body = Manifest(call.wasm, call.sig, n)
  BY DEF ManifestOf, Entry
<1>2. call.wasm \in Wasms /\ call.sig \in Options(Signatures \cup {Malformed})
  BY DEF CallRecords, SignatureFiles
<1>3. Manifest(call.wasm, call.sig, n) # Torn
  BY <1>2, ContentsAssumption
<1> QED BY <1>1, <1>3 DEF Manifest, SchemaVersionCompatible, SchemaMajor

\* The kinds and bodies of the entries, whole and torn.
LEMMA EntriesAre ==
  ASSUME NEW call, NEW n
  PROVE  /\ ManifestOf(call, n).kind = "manifest.json"
         /\ ManifestOf(call, n).body = Manifest(call.wasm, call.sig, n)
         /\ WasmOf(call).kind = "plugin.wasm" /\ WasmOf(call).body = call.wasm
         /\ SignatureOf(call).kind = "plugin.sig"
         /\ SignatureOf(call).body = call.sig[1]
         /\ Partly(ManifestOf(call, n)).kind = "manifest.json"
         /\ Partly(ManifestOf(call, n)).body = Torn
         /\ Partly(WasmOf(call)).kind = "plugin.wasm"
         /\ Partly(WasmOf(call)).body = Torn
         /\ Partly(SignatureOf(call)).kind = "plugin.sig"
         /\ Partly(SignatureOf(call)).body = Torn
BY DEF ManifestOf, WasmOf, SignatureOf, Partly, Entry

\* Three entries, the first a manifest that parses and the last a signature,
\* whole or torn.
LEMMA UnpackThree ==
  ASSUME NEW call \in CallRecords, NEW n \in 1 .. MaxPacks, NEW sig,
         sig.kind = "plugin.sig"
  PROVE  LET es == <<ManifestOf(call, n), WasmOf(call), sig>>
         IN  /\ Found(es, "plugin.sig") = Some(sig.body)
             /\ Unpack(Archive(es, TRUE)) =
                  Some([manifest |-> Manifest(call.wasm, call.sig, n),
                        wasm |-> call.wasm, signature |-> Some(sig.body)])
<1> DEFINE es == <<ManifestOf(call, n), WasmOf(call), sig>>
<1>1. /\ DOMAIN es = {1, 2, 3} /\ {1, 2, 3} \subseteq Nat
      /\ es[1].kind = "manifest.json" /\ es[2].kind = "plugin.wasm"
      /\ es[3].kind = "plugin.sig"
      /\ es[1].body = Manifest(call.wasm, call.sig, n) /\ es[2].body = call.wasm
      /\ es[3].body = sig.body /\ es[1] = ManifestOf(call, n)
  BY EntriesAre
<1> HIDE DEF es
<1>2. /\ OfKind(es, "manifest.json") = {1}
      /\ OfKind(es, "plugin.wasm") = {2}
      /\ OfKind(es, "plugin.sig") = {3}
  BY <1>1 DEF OfKind
<1>3. Found(es, "manifest.json") = Some(Manifest(call.wasm, call.sig, n))
  BY <1>1, <1>2, FoundIs
<1>4. Found(es, "plugin.wasm") = Some(call.wasm)
  BY <1>1, <1>2, FoundIs
<1>5. Found(es, "plugin.sig") = Some(sig.body)
  BY <1>1, <1>2, FoundIs
<1>6. ~BadManifest(es)
  BY <1>1, ManifestParses DEF BadManifest
<1>7. Intact(Manifest(call.wasm, call.sig, n), call.wasm)
  BY DEF Intact, Manifest
<1>8. Unpack(Archive(es, TRUE)) =
        Some([manifest |-> Manifest(call.wasm, call.sig, n),
              wasm |-> call.wasm, signature |-> Some(sig.body)])
  BY <1>3, <1>4, <1>5, <1>6, <1>7 DEF Unpack, Archive, Some, Absent
<1> QED BY <1>5, <1>8 DEF es

\* The manifest and the wasm, whole.
LEMMA UnpackTwo ==
  ASSUME NEW call \in CallRecords, NEW n \in 1 .. MaxPacks
  PROVE  LET es == <<ManifestOf(call, n), WasmOf(call)>>
         IN  Unpack(Archive(es, TRUE)) =
                  Some([manifest |-> Manifest(call.wasm, call.sig, n),
                        wasm |-> call.wasm, signature |-> Absent])
<1> DEFINE es == <<ManifestOf(call, n), WasmOf(call)>>
<1>1. /\ DOMAIN es = {1, 2} /\ {1, 2} \subseteq Nat
      /\ es[1].kind = "manifest.json" /\ es[2].kind = "plugin.wasm"
      /\ es[1].body = Manifest(call.wasm, call.sig, n) /\ es[2].body = call.wasm
      /\ es[1] = ManifestOf(call, n)
  BY EntriesAre
<1> HIDE DEF es
<1>2. /\ OfKind(es, "manifest.json") = {1}
      /\ OfKind(es, "plugin.wasm") = {2}
  BY <1>1 DEF OfKind
<1>3. Found(es, "manifest.json") = Some(Manifest(call.wasm, call.sig, n))
  BY <1>1, <1>2, FoundIs
<1>4. Found(es, "plugin.wasm") = Some(call.wasm)
  BY <1>1, <1>2, FoundIs
<1>5. Found(es, "plugin.sig") = Absent
  BY <1>1, FoundNone
<1>6. ~BadManifest(es)
  BY <1>1, ManifestParses DEF BadManifest
<1>7. Intact(Manifest(call.wasm, call.sig, n), call.wasm)
  BY DEF Intact, Manifest
<1>8. Unpack(Archive(es, TRUE)) =
        Some([manifest |-> Manifest(call.wasm, call.sig, n),
              wasm |-> call.wasm, signature |-> Absent])
  BY <1>3, <1>4, <1>5, <1>6, <1>7 DEF Unpack, Archive, Some, Absent
<1> QED BY <1>8 DEF es

\* Without a whole manifest and a whole wasm nothing is unpacked.
LEMMA UnpackLess ==
  ASSUME NEW call \in CallRecords, NEW n \in 1 .. MaxPacks,
         NEW es \in {<<>>, <<ManifestOf(call, n)>>, <<Partly(ManifestOf(call, n))>>,
                     <<ManifestOf(call, n), Partly(WasmOf(call))>>},
         NEW readable
  PROVE  Unpack(Archive(es, readable)) = Absent
<1>1. CASE \A i \in DOMAIN es : es[i].kind # "plugin.wasm"
  <2>1. Found(es, "plugin.wasm") = Absent
    BY <1>1, FoundNone
  <2> QED BY <2>1 DEF Unpack, Archive, Some
<1>2. CASE es = <<ManifestOf(call, n), Partly(WasmOf(call))>>
  <2>1. /\ DOMAIN es = {1, 2} /\ {1, 2} \subseteq Nat
        /\ es[1].kind = "manifest.json" /\ es[2].kind = "plugin.wasm"
        /\ es[1].body = Manifest(call.wasm, call.sig, n) /\ es[2].body = Torn
    BY <1>2, EntriesAre
  <2>2. OfKind(es, "manifest.json") = {1} /\ OfKind(es, "plugin.wasm") = {2}
    BY <2>1 DEF OfKind
  <2>3. Found(es, "manifest.json") = Some(Manifest(call.wasm, call.sig, n))
    BY <2>1, <2>2, FoundIs
  <2>4. Found(es, "plugin.wasm") = Some(Torn)
    BY <2>1, <2>2, FoundIs
  <2>5. ~Intact(Manifest(call.wasm, call.sig, n), Torn)
    BY ContentsAssumption DEF Intact, Manifest, CallRecords
  <2> QED BY <2>3, <2>4, <2>5 DEF Unpack, Archive, Some
<1>3. \/ es = <<ManifestOf(call, n), Partly(WasmOf(call))>>
      \/ \A i \in DOMAIN es : es[i].kind # "plugin.wasm"
  <2>1. CASE es = <<>>
    BY <2>1
  <2>2. CASE es = <<ManifestOf(call, n)>>
    BY <2>2, EntriesAre
  <2>3. CASE es = <<Partly(ManifestOf(call, n))>>
    BY <2>3, EntriesAre
  <2> QED BY <2>1, <2>2, <2>3
<1> QED BY <1>1, <1>2, <1>3

LEMMA UnpackComplete ==
  ASSUME NEW call \in CallRecords, NEW n \in 1 .. MaxPacks
  PROVE  Unpack(Archive(Complete(call, n), TRUE)) =
           Some([manifest |-> Manifest(call.wasm, call.sig, n),
                 wasm |-> call.wasm, signature |-> call.sig])
<1>1. CASE call.sig = Absent
  BY <1>1, UnpackTwo DEF Complete
<1>2. CASE call.sig # Absent
  <2>1. Some(SignatureOf(call).body) = call.sig
    BY <1>2, EntriesAre DEF CallRecords, SignatureFiles, Options, Some
  <2> QED BY <1>2, <2>1, EntriesAre, UnpackThree DEF Complete
<1> QED BY <1>1, <1>2

\* What a failed call has left is refused or is that call's artefact, with its
\* signature, a torn one or none.
LEMMA UnpackRests ==
  ASSUME NEW call \in CallRecords, NEW n \in 1 .. MaxPacks,
         NEW es \in Rests(call, n), NEW readable \in BOOLEAN,
         Unpack(Archive(es, readable)) # Absent
  PROVE  \E sig \in {call.sig, Absent, Some(Torn)} :
            Unpack(Archive(es, readable)) =
              Some([manifest |-> Manifest(call.wasm, call.sig, n),
                    wasm |-> call.wasm, signature |-> sig])
<1>1. readable = TRUE
  BY DEF Unpack, Archive, Some
<1>2. es \notin {<<>>, <<ManifestOf(call, n)>>, <<Partly(ManifestOf(call, n))>>,
                 <<ManifestOf(call, n), Partly(WasmOf(call))>>}
  BY UnpackLess
<1>3. CASE es = <<ManifestOf(call, n), WasmOf(call)>>
  BY <1>1, <1>3, UnpackTwo
<1>4. CASE es = <<ManifestOf(call, n), WasmOf(call), SignatureOf(call)>>
           /\ call.sig # Absent
  <2>1. Some(SignatureOf(call).body) = call.sig
    BY <1>4, EntriesAre DEF CallRecords, SignatureFiles, Options, Some
  <2> QED BY <1>1, <1>4, <2>1, EntriesAre, UnpackThree
<1>5. CASE es = <<ManifestOf(call, n), WasmOf(call), Partly(SignatureOf(call))>>
  <2>1. Partly(SignatureOf(call)).body = Torn
    BY EntriesAre
  <2> QED BY <1>1, <1>5, <2>1, EntriesAre, UnpackThree
<1> QED BY <1>2, <1>3, <1>4, <1>5 DEF Rests

-----------------------------------------------------------------------------
(* The initial states and the steps of the programs around pack.            *)

LEMMA ArtefactInitCorrect == Init => ArtefactInv
<1> SUFFICES ASSUME Init PROVE ArtefactInv
  OBVIOUS
<1>1. out # Absent => IsArchive(out[1])
  BY ContentsAssumption DEF Init, Some
<1>2. signed \subseteq Signatures /\ FoundWasMade
  BY DEF Init, InitialSignatures, FoundWasMade
<1>3. TypeOK
  <2>1. Len(opened) <= MaxPacks /\ \A i \in DOMAIN opened : FALSE
    BY BoundsAssumption DEF Init
  <2> QED BY <1>1, <1>2, <2>1, BoundsAssumption
          DEF Init, TypeOK, Options, Ended, Writing
<1>4. CallInv
  <2>1. opened \in Seq(CallRecords) /\ Len(opened) <= MaxPacks
    BY BoundsAssumption DEF Init
  <2>2. sigFile \notin {Some(s) : s \in Signatures} /\ sigBytes = Absent
    BY ContentsAssumption DEF Init, Absent, Some
  <2> QED BY <2>1, <2>2 DEF Init, CallInv, WasMade, SignatureFiles, Options, Some,
                            Absent, Ended, Writing
<1>5. OutInv
  BY <1>2 DEF Init, OutInv, Writing
<1>6. VerifyInv
  BY DEF Init, VerifyInv
<1> QED BY <1>3, <1>4, <1>5, <1>6 DEF ArtefactInv

LEMMA MadeMore ==
  ASSUME NEW file, WasMade(file), signed \subseteq signed', file' = file
  PROVE  WasMade(file)'
BY DEF WasMade

\* Build and Sign touch neither the packer nor the verifier.
LEMMA InputsStep ==
  ASSUME ArtefactInv,
         (\E w \in Wasms \cup {NotWasm} : Build(w)) \/ (\E k \in Keys : Sign(k))
  PROVE  ArtefactInv'
<1>1. /\ UNCHANGED <<trust, packer, verifier>>
      /\ signed \subseteq signed' /\ edits < MaxEdits /\ edits' = edits + 1
  BY DEF Build, Sign
<1>2. /\ wasmFile' \in Options(Wasms \cup {NotWasm})
      /\ sigFile' \in Options(Signatures \cup {Malformed})
      /\ signed' \subseteq Signatures
      /\ WasMade(sigFile)'
  <2>1. ASSUME NEW w \in Wasms \cup {NotWasm}, Build(w) PROVE <1>2!:
    BY <2>1 DEF Build, ArtefactInv, TypeOK, CallInv, WasMade, Options
  <2>2. ASSUME NEW k \in Keys, Sign(k) PROVE <1>2!:
    <3> DEFINE s == [key |-> k, over |-> wasmFile[1]]
    <3>1. wasmFile[1] \in Wasms /\ wasmFile' = wasmFile
          /\ sigFile' = Some(s) /\ signed' = signed \cup {s}
      BY <2>2 DEF Sign, ArtefactInv, TypeOK, Options, Some
    <3>2. s \in Signatures
      BY <3>1 DEF Signatures
    <3> HIDE DEF s
    <3>3. \A t \in Signatures : sigFile' = Some(t) => t = s
      BY <3>1 DEF Some
    <3> QED BY <3>1, <3>2, <3>3 DEF ArtefactInv, TypeOK, WasMade, Options
  <2> QED BY <2>1, <2>2
<1>3. TypeOK'
  <2>1. edits' \in 0 .. MaxEdits
    BY <1>1, BoundsAssumption DEF ArtefactInv, TypeOK
  <2> QED BY <1>1, <1>2, <2>1 DEF ArtefactInv, TypeOK, packer, verifier
<1>4. CallInv'
  <2>1. WasMade(sigBytes)'
    BY <1>1, MadeMore DEF ArtefactInv, CallInv, packer
  <2> QED BY <1>1, <1>2, <2>1 DEF ArtefactInv, CallInv, packer
<1>5. OutInv'
  <2>1. LastCall' = LastCall /\ opened' = opened /\ out' = out /\ ppc' = ppc
        /\ Call("open")' = Call("open")
    BY <1>1 DEF packer, LastCall, Call
  <2>2. FoundWasMade => FoundWasMade'
    BY <1>1, <2>1 DEF FoundWasMade
  <2>3. opened # <<>> => WasMade(LastCall.sig)'
    BY <1>1, <2>1, MadeMore DEF ArtefactInv, OutInv, WasMade
  <2> QED BY <2>1, <2>2, <2>3 DEF ArtefactInv, OutInv
<1>6. VerifyInv'
  BY <1>1 DEF ArtefactInv, VerifyInv, verifier, KeyMatches
<1> QED BY <1>3, <1>4, <1>5, <1>6 DEF ArtefactInv

-----------------------------------------------------------------------------
(* The steps of pack.                                                       *)

LEMMA LastCallOf ==
  ASSUME CallInv, opened # <<>>
  PROVE  /\ Len(opened) \in 1 .. MaxPacks
         /\ LastCall \in CallRecords
<1>1. opened \in Seq(CallRecords) /\ Len(opened) <= MaxPacks /\ Len(opened) \in Nat
  BY DEF CallInv
<1>2. Len(opened) # 0
  BY <1>1
<1>3. Len(opened) \in DOMAIN opened
  BY <1>1, <1>2
<1> QED BY <1>1, <1>2, <1>3, BoundsAssumption DEF LastCall

LEMMA Appended ==
  ASSUME NEW d, NEW e, NEW g
  PROVE  /\ Append(<<>>, e) = <<e>>
         /\ Append(<<d>>, e) = <<d, e>>
         /\ Append(<<d, e>>, g) = <<d, e, g>>
<1> DEFINE S == {d, e, g}
<1>1. <<>> \in Seq(S) /\ <<d>> \in Seq(S) /\ <<d, e>> \in Seq(S)
      /\ <<e>> \in Seq(S) /\ <<d, e, g>> \in Seq(S)
      /\ d \in S /\ e \in S /\ g \in S
  OBVIOUS
<1>2. Len(<<>>) = 0 /\ Len(<<e>>) = 1 /\ Len(<<d>>) = 1 /\ Len(<<d, e>>) = 2
      /\ Len(<<d, e, g>>) = 3
      /\ <<e>>[1] = e /\ <<d>>[1] = d /\ <<d, e>>[1] = d /\ <<d, e>>[2] = e
      /\ <<d, e, g>>[1] = d /\ <<d, e, g>>[2] = e /\ <<d, e, g>>[3] = g
  OBVIOUS
<1>3. ASSUME NEW s \in Seq(S), NEW x \in S, NEW t \in Seq(S),
             Len(t) = Len(s) + 1, t[Len(t)] = x,
             \A i \in 1 .. Len(s) : t[i] = s[i]
      PROVE  Append(s, x) = t
  <2>1. /\ Append(s, x) \in Seq(S) /\ Len(Append(s, x)) = Len(s) + 1
        /\ Append(s, x)[Len(s) + 1] = x
        /\ \A i \in 1 .. Len(s) : Append(s, x)[i] = s[i]
    BY AppendProperties
  <2>2. \A i \in 1 .. Len(t) : Append(s, x)[i] = t[i]
    BY <1>3, <2>1
  <2> QED BY <1>3, <2>1, <2>2, SeqEqual
<1> HIDE DEF S
<1>4. Append(<<>>, e) = <<e>>
  BY <1>1, <1>2, <1>3
<1>5. Append(<<d>>, e) = <<d, e>>
  <2>1. PICK s \in Seq(S) : s = <<d>> /\ Len(s) = 1 /\ s[1] = d
    BY <1>1, <1>2
  <2>2. PICK t \in Seq(S) : t = <<d, e>> /\ Len(t) = 2 /\ t[1] = d /\ t[2] = e
    BY <1>1, <1>2
  <2>3. Len(t) = Len(s) + 1 /\ t[Len(t)] = e /\ \A i \in 1 .. Len(s) : t[i] = s[i]
    BY <2>1, <2>2
  <2>4. Append(s, e) = t
    BY <1>1, <1>3, <2>3
  <2> QED BY <2>1, <2>2, <2>4
<1>6. Append(<<d, e>>, g) = <<d, e, g>>
  <2>1. PICK s \in Seq(S) : s = <<d, e>> /\ Len(s) = 2 /\ s[1] = d /\ s[2] = e
    BY <1>1, <1>2
  <2>2. PICK t \in Seq(S) : /\ t = <<d, e, g>> /\ Len(t) = 3
                           /\ t[1] = d /\ t[2] = e /\ t[3] = g
    BY <1>1, <1>2
  <2>3. Len(t) = Len(s) + 1 /\ t[Len(t)] = g /\ \A i \in 1 .. Len(s) : t[i] = s[i]
    BY <2>1, <2>2
  <2>4. Append(s, g) = t
    BY <1>1, <1>3, <2>3
  <2> QED BY <2>1, <2>2, <2>4
<1> QED BY <1>4, <1>5, <1>6

\* What the packer is about to write is the next entry of the last call.
LEMMA PackerIsAt ==
  ASSUME CallInv, OutInv, ppc \in Writing \cup {"finish"}
  PROVE  LET call == LastCall
             n    == Len(opened)
         IN  /\ n \in 1 .. MaxPacks /\ call \in CallRecords /\ call = Call("open")
             /\ out = Archive(out[1].entries, FALSE)
             /\ out[1].entries \in Rests(call, n)
             /\ ppc = "finish" => out[1].entries = Complete(call, n)
             /\ ppc = "manifest" =>
                  /\ Written(Pending) = <<ManifestOf(call, n)>>
                  /\ Written(Partly(Pending)) = <<Partly(ManifestOf(call, n))>>
             /\ ppc = "wasm" =>
                  /\ Written(Pending) = <<ManifestOf(call, n), WasmOf(call)>>
                  /\ Written(Partly(Pending)) =
                       <<ManifestOf(call, n), Partly(WasmOf(call))>>
             /\ ppc = "signature" =>
                  /\ call.sig # Absent
                  /\ Written(Pending) =
                       <<ManifestOf(call, n), WasmOf(call), SignatureOf(call)>>
                  /\ Written(Partly(Pending)) =
                       <<ManifestOf(call, n), WasmOf(call), Partly(SignatureOf(call))>>
<1> DEFINE call == LastCall
           n    == Len(opened)
<1>1. opened # <<>> /\ call = Call("open")
  BY DEF OutInv
<1>2. n \in 1 .. MaxPacks /\ call \in CallRecords
  BY <1>1, LastCallOf
<1>3. call.wasm = wasmBytes /\ call.sig = sigBytes
  BY <1>1 DEF Call
<1>4. CASE ppc = "manifest"
  <2>1. Pending = ManifestOf(call, n)
    BY <1>3, <1>4 DEF Pending, ManifestOf
  <2>2. out = Archive(<<>>, FALSE)
    BY <1>4 DEF OutInv, Writing
  <2> HIDE DEF call, n
  <2>3. out[1].entries = <<>>
    BY <2>2 DEF Archive, Some
  <2>4. /\ Written(Pending) = <<ManifestOf(call, n)>>
        /\ Written(Partly(Pending)) = <<Partly(ManifestOf(call, n))>>
    BY <2>1, <2>3, Appended DEF Written
  <2>5. out[1].entries \in Rests(call, n)
    BY <2>3 DEF Rests
  <2>6. out = Archive(out[1].entries, FALSE)
    BY <2>2, <2>3
  <2> QED BY <1>1, <1>2, <1>4, <2>4, <2>5, <2>6 DEF call, n
<1>5. CASE ppc = "wasm"
  <2>1. Pending = WasmOf(call)
    BY <1>3, <1>5 DEF Pending, WasmOf
  <2>2. out = Archive(<<ManifestOf(call, n)>>, FALSE)
    BY <1>5 DEF OutInv, Writing
  <2> HIDE DEF call, n
  <2>3. out[1].entries = <<ManifestOf(call, n)>>
    BY <2>2 DEF Archive, Some
  <2>4. /\ Written(Pending) = <<ManifestOf(call, n), WasmOf(call)>>
        /\ Written(Partly(Pending)) = <<ManifestOf(call, n), Partly(WasmOf(call))>>
    BY <2>1, <2>3, Appended DEF Written
  <2>5. out[1].entries \in Rests(call, n)
    BY <2>3 DEF Rests
  <2>6. out = Archive(out[1].entries, FALSE)
    BY <2>2, <2>3
  <2> QED BY <1>1, <1>2, <1>5, <2>4, <2>5, <2>6 DEF call, n
<1>6. CASE ppc = "signature"
  <2>1. Pending = SignatureOf(call) /\ call.sig # Absent
    BY <1>3, <1>6 DEF Pending, SignatureOf, CallInv
  <2>2. out = Archive(<<ManifestOf(call, n), WasmOf(call)>>, FALSE)
    BY <1>6 DEF OutInv, Writing
  <2> HIDE DEF call, n
  <2>3. out[1].entries = <<ManifestOf(call, n), WasmOf(call)>>
    BY <2>2 DEF Archive, Some
  <2>4. /\ Written(Pending) = <<ManifestOf(call, n), WasmOf(call), SignatureOf(call)>>
        /\ Written(Partly(Pending)) =
             <<ManifestOf(call, n), WasmOf(call), Partly(SignatureOf(call))>>
    BY <2>1, <2>3, Appended DEF Written
  <2>5. out[1].entries \in Rests(call, n)
    BY <2>3 DEF Rests
  <2>6. out = Archive(out[1].entries, FALSE)
    BY <2>2, <2>3
  <2> QED BY <1>1, <1>2, <1>6, <2>1, <2>4, <2>5, <2>6 DEF call, n
<1>7. CASE ppc = "finish"
  <2>1. out = Archive(Complete(call, n), FALSE)
    BY <1>7 DEF OutInv, Writing
  <2> HIDE DEF call, n
  <2>2. out[1].entries = Complete(call, n)
    BY <2>1 DEF Archive, Some
  <2>3. Complete(call, n) \in Rests(call, n)
    BY DEF Complete, Rests
  <2> QED BY <1>1, <1>2, <1>7, <2>1, <2>2, <2>3 DEF call, n
<1> QED BY <1>4, <1>5, <1>6, <1>7 DEF Writing

\* What a call leaves consists of entries.
LEMMA RestsAreEntries ==
  ASSUME NEW call, NEW n, NEW es \in Rests(call, n), NEW readable \in BOOLEAN
  PROVE  IsArchive(Archive(es, readable)[1])
<1>1. ASSUME NEW i \in DOMAIN es PROVE DOMAIN es[i] = {"kind", "body"}
  BY DEF Rests, ManifestOf, WasmOf, SignatureOf, Partly, Entry
<1> QED BY <1>1 DEF IsArchive, Archive, Some

LEMMA StatusOf ==
  ASSUME NEW calls \in Seq(CallRecords), NEW i \in DOMAIN calls
  PROVE  calls[i].status \in {"open", "ok", "failed"}
<1>1. calls[i] \in CallRecords
  OBVIOUS
<1> QED BY <1>1 DEF CallRecords

LEMMA MadeSame ==
  ASSUME NEW file, WasMade(file), signed' = signed, file' = file
  PROVE  WasMade(file)'
BY DEF WasMade

\* The steps that only read, or fail, leave the output and the calls alone.
LEMMA ReadStep ==
  ASSUME ArtefactInv,
         \/ \E withSig \in BOOLEAN : ReadWasm(withSig)
         \/ ReadWasmFails \/ ReadSignature \/ ReadSignatureFails
         \/ CreateFails \/ CrashReading
  PROVE  ArtefactInv'
<1>1. /\ UNCHANGED <<opened, out>> /\ PackerOnly
      /\ ppc \notin Writing \cup {"finish"} /\ ppc' \notin Writing \cup {"finish"}
  BY DEF ReadWasm, ReadWasmFails, ReadSignature, ReadSignatureFails, CreateFails,
         CrashReading, Ended, Writing
<1>2. UNCHANGED <<wasmFile, sigFile, signed, edits, trust, vpc, art, left, label>>
  BY <1>1 DEF PackerOnly, inputs, verifier
<1>3. /\ ppc' \in Ended \cup {"signature_file", "create"}
      /\ ppc' \in {"signature_file", "create"} =>
            wasmBytes' \in Wasms /\ Len(opened) < MaxPacks
      /\ wasmBytes' \in Wasms \cup {NotWasm}
      /\ sigBytes' \in SignatureFiles
      /\ WasMade(sigBytes)'
  <2>1. ASSUME NEW withSig \in BOOLEAN, ReadWasm(withSig) PROVE <1>3!:
    <3>1. wasmFile[1] \in Wasms
      BY <2>1 DEF ReadWasm, IsWasm, ArtefactInv, TypeOK, Options, Some
    <3>2. WasMade(sigBytes)' /\ sigBytes' \in SignatureFiles
      BY <2>1 DEF ReadWasm, WasMade, Absent, Some, SignatureFiles, Options
    <3> QED BY <2>1, <3>1, <3>2 DEF ReadWasm, Ended
  <2>2. ASSUME ReadSignature PROVE <1>3!:
    <3>1. sigBytes' = sigFile /\ signed' = signed /\ WasMade(sigFile)
      BY <1>2, <2>2 DEF ReadSignature, ArtefactInv, CallInv
    <3>2. WasMade(sigBytes)'
      BY <3>1 DEF WasMade
    <3> QED BY <2>2, <3>1, <3>2 DEF ReadSignature, ArtefactInv, TypeOK, CallInv,
                                    SignatureFiles
  <2>3. ASSUME ReadWasmFails \/ ReadSignatureFails \/ CreateFails \/ CrashReading
        PROVE  <1>3!:
    <3>1. UNCHANGED <<wasmBytes, sigBytes>> /\ ppc' \in Ended
      BY <2>3 DEF ReadWasmFails, ReadSignatureFails, CreateFails, CrashReading, Ended
    <3>2. WasMade(sigBytes)'
      BY <1>2, <3>1, MadeSame DEF ArtefactInv, CallInv
    <3>3. ppc' \notin {"signature_file", "create"}
      BY <3>1 DEF Ended
    <3> QED BY <3>1, <3>2, <3>3 DEF ArtefactInv, TypeOK, CallInv
  <2> QED BY <2>1, <2>2, <2>3
<1>4. ppc' # "signature"
  BY <1>1 DEF Writing
<1>5. TypeOK'
  <2>1. ppc' \in Writing \cup {"create", "finish"} => wasmBytes' \in Wasms
    BY <1>3 DEF Ended, Writing
  <2> QED BY <1>1, <1>2, <1>3, <1>4, <2>1 DEF ArtefactInv, TypeOK, SignatureFiles
<1>6. CallInv'
  <2>1. WasMade(sigFile)'
    BY <1>2, MadeSame DEF ArtefactInv, CallInv
  <2>2. ppc' \in Writing \cup {"signature_file", "create", "finish"} => wasmBytes' \in Wasms
    BY <1>3 DEF Ended, Writing
  <2> QED BY <1>1, <1>2, <1>3, <1>4, <2>1, <2>2 DEF ArtefactInv, CallInv, SignatureFiles
<1>7. OutInv'
  <2>1. LastCall' = LastCall /\ (opened # <<>> => WasMade(LastCall.sig)')
    BY <1>1, <1>2 DEF ArtefactInv, OutInv, WasMade, LastCall
  <2>2. opened = <<>> => FoundWasMade'
    BY <1>1, <1>2 DEF ArtefactInv, OutInv, FoundWasMade
  <2> QED BY <1>1, <2>1, <2>2 DEF ArtefactInv, OutInv
<1>8. VerifyInv'
  BY <1>2 DEF ArtefactInv, VerifyInv, KeyMatches
<1> QED BY <1>5, <1>6, <1>7, <1>8 DEF ArtefactInv

\* A call opens the output: it is empty and the call is the last one.
LEMMA CreateStep ==
  ASSUME ArtefactInv, Create
  PROVE  ArtefactInv'
<1>1. /\ UNCHANGED <<wasmFile, sigFile, signed, edits, trust, vpc, art, left, label,
                     wasmBytes, sigBytes>>
      /\ ppc = "create" /\ ppc' = "manifest" /\ out' = Archive(<<>>, FALSE)
      /\ opened' = Append(opened, Call("open"))
  BY DEF Create, PackerOnly, inputs, verifier
<1>2. /\ opened \in Seq(CallRecords) /\ Len(opened) < MaxPacks
      /\ wasmBytes \in Wasms /\ sigBytes \in SignatureFiles /\ WasMade(sigBytes)
  BY <1>1 DEF ArtefactInv, CallInv
<1>3. Call("open") \in CallRecords /\ Call("open")' = Call("open")
      /\ Call("open").sig = sigBytes
  BY <1>1, <1>2 DEF Call, CallRecords
<1>4. /\ opened' \in Seq(CallRecords) /\ Len(opened') = Len(opened) + 1
      /\ opened'[Len(opened')] = Call("open") /\ opened' # <<>>
  BY <1>1, <1>2, <1>3
<1>5. LastCall' = Call("open") /\ Len(opened') <= MaxPacks
  BY <1>2, <1>4, BoundsAssumption DEF LastCall
<1>6. IsArchive(out'[1])
  BY <1>1, RestsAreEntries DEF Rests
<1>7. TypeOK'
  <2>1. \A i \in DOMAIN opened' : opened'[i].status \in {"open", "ok", "failed"}
    BY <1>4, StatusOf
  <2> QED BY <1>1, <1>2, <1>5, <1>6, <2>1 DEF ArtefactInv, TypeOK, Ended, Writing
<1>8. CallInv'
  <2>1. WasMade(sigFile)' /\ WasMade(sigBytes)'
    BY <1>1, MadeSame DEF ArtefactInv, CallInv
  <2> QED BY <1>1, <1>2, <1>4, <1>5, <2>1 DEF ArtefactInv, CallInv, Ended, Writing,
                                              SignatureFiles
<1>9. OutInv'
  <2>1. WasMade(LastCall.sig)'
    BY <1>1, <1>2, <1>3, <1>5 DEF WasMade
  <2> QED BY <1>1, <1>3, <1>4, <1>5, <2>1 DEF OutInv, Writing
<1>10. VerifyInv'
  BY <1>1 DEF ArtefactInv, VerifyInv, KeyMatches
<1> QED BY <1>7, <1>8, <1>9, <1>10 DEF ArtefactInv

\* An entry is written: the next prefix of the call's artefact, or all of it.
LEMMA WriteEntryStep ==
  ASSUME ArtefactInv, WriteEntry
  PROVE  ArtefactInv'
<1> DEFINE call == LastCall
           n    == Len(opened)
<1>1. /\ UNCHANGED <<wasmFile, sigFile, signed, edits, trust, vpc, art, left, label,
                     wasmBytes, sigBytes, opened>>
      /\ ppc \in Writing
      /\ out' = Archive(Written(Pending), out[1].readable)
      /\ ppc' = IF ppc = "manifest" THEN "wasm"
                ELSE IF ppc = "wasm" /\ sigBytes # Absent THEN "signature"
                ELSE "finish"
  BY DEF WriteEntry, PackerOnly, inputs, verifier
<1>2. /\ LastCall' = call /\ Len(opened') = n
      /\ call = Call("open") /\ Call("open")' = Call("open") /\ call.sig = sigBytes
      /\ out[1].readable = FALSE
  <2>1. out = Archive(out[1].entries, FALSE) /\ call = Call("open")
    BY <1>1, PackerIsAt DEF ArtefactInv
  <2>2. out[1].readable = FALSE
    BY <2>1 DEF Archive, Some
  <2> QED BY <1>1, <2>1, <2>2 DEF LastCall, Call
<1>3. /\ Written(Pending) \in Rests(call, n)
      /\ ppc' = "wasm" => Written(Pending) = <<ManifestOf(call, n)>>
      /\ ppc' = "signature" =>
            Written(Pending) = <<ManifestOf(call, n), WasmOf(call)>>
      /\ ppc' = "finish" => Written(Pending) = Complete(call, n)
  <2>1. CASE ppc = "manifest"
    <3>1. Written(Pending) = <<ManifestOf(call, n)>>
      BY <1>1, <2>1, PackerIsAt DEF ArtefactInv
    <3> QED BY <1>1, <2>1, <3>1 DEF Rests
  <2>2. CASE ppc = "wasm"
    <3>1. Written(Pending) = <<ManifestOf(call, n), WasmOf(call)>>
      BY <2>2, PackerIsAt DEF ArtefactInv, Writing
    <3>2. sigBytes = Absent => Complete(call, n) = <<ManifestOf(call, n), WasmOf(call)>>
      BY <1>2 DEF Complete
    <3> QED BY <1>1, <2>2, <3>1, <3>2 DEF Rests
  <2>3. CASE ppc = "signature"
    <3>1. Written(Pending) = <<ManifestOf(call, n), WasmOf(call), SignatureOf(call)>>
          /\ call.sig # Absent
      BY <2>3, PackerIsAt DEF ArtefactInv, Writing
    <3>2. Complete(call, n) = <<ManifestOf(call, n), WasmOf(call), SignatureOf(call)>>
      BY <3>1 DEF Complete
    <3> QED BY <1>1, <2>3, <3>1, <3>2 DEF Rests
  <2> QED BY <1>1, <2>1, <2>2, <2>3 DEF Writing
<1>4. IsArchive(out'[1])
  BY <1>1, <1>2, <1>3, RestsAreEntries
<1>5. /\ ppc' \in {"wasm", "signature", "finish"} /\ wasmBytes \in Wasms
      /\ ppc' = "signature" => sigBytes # Absent
  BY <1>1 DEF ArtefactInv, CallInv, Writing
<1>6. TypeOK'
  BY <1>1, <1>4, <1>5 DEF ArtefactInv, TypeOK, Ended, Writing
<1>7. CallInv'
  <2>1. WasMade(sigFile)' /\ WasMade(sigBytes)'
    BY <1>1, MadeSame DEF ArtefactInv, CallInv
  <2>2. ppc' \notin {"signature_file", "create"}
    BY <1>5
  <2> QED BY <1>1, <1>5, <2>1, <2>2 DEF ArtefactInv, CallInv, Writing
<1>8. OutInv'
  <2>1. opened # <<>> /\ WasMade(LastCall.sig)
    BY <1>1 DEF ArtefactInv, OutInv
  <2>2. WasMade(LastCall.sig)'
    BY <1>1, <2>1 DEF WasMade, LastCall
  <2>3. ppc' \in Writing \cup {"finish"} /\ ppc' # "manifest"
    BY <1>5 DEF Writing
  <2>4. out' = Archive(Written(Pending), FALSE)
    BY <1>1, <1>2
  <2> QED BY <1>1, <1>2, <1>3, <2>1, <2>2, <2>3, <2>4 DEF OutInv
<1>9. VerifyInv'
  BY <1>1 DEF ArtefactInv, VerifyInv, KeyMatches
<1> QED BY <1>6, <1>7, <1>8, <1>9 DEF ArtefactInv

\* The call that has the output open ends and leaves es there.
LEMMA EndStep ==
  ASSUME ArtefactInv, ppc \in Writing \cup {"finish"},
         NEW pc \in Ended, NEW status \in {"ok", "failed"}, EndCall(pc, status),
         NEW es \in Rests(LastCall, Len(opened)), NEW readable \in BOOLEAN,
         out' = Archive(es, readable),
         status = "ok" => es = Complete(LastCall, Len(opened)) /\ readable = TRUE
  PROVE  ArtefactInv'
<1> DEFINE call == LastCall
           n    == Len(opened)
<1>1. /\ UNCHANGED <<wasmFile, sigFile, signed, edits, trust, vpc, art, left, label,
                     wasmBytes, sigBytes>>
      /\ ppc' = pc
      /\ opened' = [opened EXCEPT ![n].status = status]
  BY DEF EndCall, PackerOnly, inputs, verifier
<1>2. opened # <<>> /\ n \in 1 .. MaxPacks /\ call \in CallRecords /\ call = opened[n]
  BY PackerIsAt DEF ArtefactInv, OutInv, LastCall
<1>3. opened \in Seq(CallRecords)
  BY DEF ArtefactInv, CallInv
<1>4. [call EXCEPT !.status = status] \in CallRecords
  BY <1>2 DEF CallRecords
<1>5. /\ opened' \in Seq(CallRecords) /\ Len(opened') = n /\ opened' # <<>>
      /\ opened'[n] = [call EXCEPT !.status = status]
  <2>1. n \in 1 .. Len(opened) /\ DOMAIN opened = 1 .. Len(opened)
    BY <1>2, <1>3
  <2>2. opened' = [opened EXCEPT ![n] = [call EXCEPT !.status = status]]
    BY <1>1, <1>2
  <2> HIDE DEF n, call
  <2>3. opened' \in Seq(CallRecords) /\ Len(opened') = Len(opened)
        /\ opened'[n] = [call EXCEPT !.status = status]
    BY <1>3, <1>4, <2>1, <2>2, ExceptSeq
  <2>4. opened' # <<>>
    BY <2>1, <2>3
  <2> QED BY <2>3, <2>4 DEF n
<1>6. /\ LastCall' = [call EXCEPT !.status = status]
      /\ LastCall'.status = status /\ LastCall'.sig = call.sig /\ LastCall'.wasm = call.wasm
  BY <1>2, <1>4, <1>5 DEF LastCall, CallRecords
<1>7. Rests(call, n) = Rests(LastCall', n) /\ Complete(call, n) = Complete(LastCall', n)
  BY <1>6 DEF Rests, Complete, ManifestOf, WasmOf, SignatureOf
<1>8. IsArchive(out'[1])
  BY RestsAreEntries
<1>9. ppc' \in Ended /\ ppc' \notin Writing \cup {"finish", "signature_file", "create"}
  BY <1>1 DEF Ended, Writing
<1>10. TypeOK'
  <2>1. Len(opened') <= MaxPacks
    BY <1>2, <1>5, BoundsAssumption
  <2>2. \A i \in DOMAIN opened' : opened'[i].status \in {"open", "ok", "failed"}
    BY <1>5, StatusOf
  <2>3. ppc' \notin Writing \cup {"create", "finish"} /\ ppc' # "signature"
    BY <1>9 DEF Writing
  <2> QED BY <1>1, <1>8, <1>9, <2>1, <2>2, <2>3 DEF ArtefactInv, TypeOK
<1>11. CallInv'
  <2>1. WasMade(sigFile)' /\ WasMade(sigBytes)'
    BY <1>1, MadeSame DEF ArtefactInv, CallInv
  <2>2. ppc' # "signature"
    BY <1>9 DEF Writing
  <2>3. Len(opened') <= MaxPacks
    BY <1>2, <1>5, BoundsAssumption
  <2> QED BY <1>1, <1>5, <1>9, <2>1, <2>2, <2>3 DEF ArtefactInv, CallInv
<1>12. OutInv'
  <2>1. WasMade(LastCall.sig)
    BY <1>2 DEF ArtefactInv, OutInv
  <2>2. WasMade(LastCall.sig)'
    BY <1>1, <1>6, <2>1 DEF WasMade
  <2>3. status = "ok" => out' = Archive(Complete(LastCall', Len(opened')), TRUE)
    BY <1>5, <1>7
  <2>4. \E es1 \in Rests(LastCall', Len(opened')), r1 \in BOOLEAN : out' = Archive(es1, r1)
    BY <1>5, <1>7
  <2> QED BY <1>5, <1>6, <1>9, <2>2, <2>3, <2>4 DEF OutInv
<1>13. VerifyInv'
  BY <1>1 DEF ArtefactInv, VerifyInv, KeyMatches
<1> QED BY <1>10, <1>11, <1>12, <1>13 DEF ArtefactInv

\* The ends of a call: an entry or the end of the archive fails, all is
\* written, or the packer is killed.
LEMMA EndsStep ==
  ASSUME ArtefactInv, WriteEntryFails \/ Finish \/ FinishFails \/ CrashWriting
  PROVE  ArtefactInv'
<1> DEFINE call == LastCall
           n    == Len(opened)
<1>1. ppc \in Writing \cup {"finish"}
  BY DEF WriteEntryFails, Finish, FinishFails, CrashWriting
<1>2. out[1].entries \in Rests(call, n)
  BY <1>1, PackerIsAt DEF ArtefactInv
<1>3. CASE WriteEntryFails
  <2>1. PICK readable \in BOOLEAN,
             es \in {out[1].entries, Written(Pending), Written(Partly(Pending))} :
               out' = Archive(es, readable)
    BY <1>3 DEF WriteEntryFails
  <2>2. es \in Rests(call, n)
    <3>1. CASE ppc = "manifest"
      <4>1. /\ Written(Pending) = <<ManifestOf(call, n)>>
            /\ Written(Partly(Pending)) = <<Partly(ManifestOf(call, n))>>
        BY <1>1, <3>1, PackerIsAt DEF ArtefactInv
      <4> QED BY <1>2, <2>1, <4>1 DEF Rests
    <3>2. CASE ppc = "wasm"
      <4>1. /\ Written(Pending) = <<ManifestOf(call, n), WasmOf(call)>>
            /\ Written(Partly(Pending)) = <<ManifestOf(call, n), Partly(WasmOf(call))>>
        BY <1>1, <3>2, PackerIsAt DEF ArtefactInv
      <4> QED BY <1>2, <2>1, <4>1 DEF Rests
    <3>3. CASE ppc = "signature"
      <4>1. /\ call.sig # Absent
            /\ Written(Pending) = <<ManifestOf(call, n), WasmOf(call), SignatureOf(call)>>
            /\ Written(Partly(Pending)) =
                 <<ManifestOf(call, n), WasmOf(call), Partly(SignatureOf(call))>>
        BY <1>1, <3>3, PackerIsAt DEF ArtefactInv
      <4> QED BY <1>2, <2>1, <4>1 DEF Rests
    <3> QED BY <1>3, <3>1, <3>2, <3>3 DEF WriteEntryFails, Writing
  <2>3. EndCall("error", "failed") /\ "error" \in Ended
    BY <1>3 DEF WriteEntryFails, Ended
  <2> HIDE DEF call, n
  <2> QED BY <1>1, <2>1, <2>2, <2>3, EndStep DEF call, n
<1>4. CASE Finish
  <2>1. /\ EndCall("ok", "ok") /\ "ok" \in Ended /\ ppc = "finish"
        /\ out' = Archive(out[1].entries, TRUE)
    BY <1>4 DEF Finish, Ended
  <2>2. out[1].entries = Complete(call, n)
    BY <1>1, <2>1, PackerIsAt DEF ArtefactInv
  <2> QED BY <1>1, <1>2, <2>1, <2>2, EndStep
<1>5. CASE FinishFails
  <2>1. EndCall("error", "failed") /\ "error" \in Ended
    BY <1>5 DEF FinishFails, Ended
  <2>2. PICK readable \in BOOLEAN : out' = Archive(out[1].entries, readable)
    BY <1>5 DEF FinishFails
  <2> QED BY <1>1, <1>2, <2>1, <2>2, EndStep
<1>6. CASE CrashWriting
  <2>1. EndCall("crashed", "failed") /\ "crashed" \in Ended
    BY <1>6 DEF CrashWriting, Ended
  <2>2. PICK readable \in BOOLEAN : out' = Archive(out[1].entries, readable)
    BY <1>6 DEF CrashWriting
  <2> QED BY <1>1, <1>2, <2>1, <2>2, EndStep
<1> QED BY <1>3, <1>4, <1>5, <1>6

-----------------------------------------------------------------------------
(* The steps of verify.                                                     *)

\* A signature in an artefact that unpacks is one that somebody made: of the
\* foreign archive at first, afterwards of the last call's signature file.
LEMMA UnpackedWasMade ==
  ASSUME TypeOK, CallInv, OutInv, Unpack(out) # Absent,
         NEW s \in Signatures, Unpack(out)[1].signature = Some(s)
  PROVE  s \in signed
<1> DEFINE call == LastCall
           n    == Len(opened)
<1>1. CASE opened = <<>>
  <2>1. out # Absent /\ Unpack(out)[1].signature = Found(out[1].entries, "plugin.sig")
    BY DEF Unpack, Some, Absent
  <2> QED BY <1>1, <2>1 DEF OutInv, FoundWasMade
<1>2. CASE opened # <<>> /\ ppc \in Writing \cup {"finish"}
  <2>1. out = Archive(out[1].entries, FALSE)
    BY <1>2, PackerIsAt
  <2>2. Unpack(out) = Absent
    BY <2>1 DEF Unpack, Archive, Some
  <2> QED BY <2>2
<1>3. CASE opened # <<>> /\ ppc \notin Writing \cup {"finish"}
  <2>1. n \in 1 .. MaxPacks /\ call \in CallRecords /\ WasMade(call.sig)
    BY <1>3, LastCallOf DEF OutInv
  <2> HIDE DEF call, n
  <2>2. \E sig \in {call.sig, Absent, Some(Torn)} :
           Unpack(out) = Some([manifest |-> Manifest(call.wasm, call.sig, n),
                               wasm |-> call.wasm, signature |-> sig])
    <3>1. CASE out = Archive(Complete(call, n), TRUE)
      BY <2>1, <3>1, UnpackComplete
    <3>2. CASE \E es \in Rests(call, n), readable \in BOOLEAN :
                   out = Archive(es, readable)
      <4>1. PICK es \in Rests(call, n), readable \in BOOLEAN : out = Archive(es, readable)
        BY <3>2
      <4> QED BY <2>1, <4>1, UnpackRests
    <3> QED BY <1>3, <3>1, <3>2 DEF OutInv, call, n
  <2>3. Some(s) \in {call.sig, Absent, Some(Torn)}
    <3>1. PICK sig \in {call.sig, Absent, Some(Torn)} :
             Unpack(out) = Some([manifest |-> Manifest(call.wasm, call.sig, n),
                                 wasm |-> call.wasm, signature |-> sig])
      BY <2>2
    <3>2. Unpack(out)[1].signature = sig
      BY <3>1 DEF Some
    <3> QED BY <3>1, <3>2
  <2>4. Some(s) # Absent /\ Some(s) # Some(Torn)
    BY ContentsAssumption DEF Some, Absent
  <2> QED BY <2>1, <2>3, <2>4 DEF WasMade
<1> QED BY <1>1, <1>2, <1>3

LEMMA VerifyStep ==
  ASSUME ArtefactInv, Verify
  PROVE  ArtefactInv'
<1>1. VerifierOnly
  BY DEF Verify, Unpacked, NoMatch, VisitUnreadable, VisitMatch, VisitOther
<1>2. UNCHANGED <<wasmFile, sigFile, signed, edits, trust, ppc, wasmBytes, sigBytes,
                  opened, out>>
  BY <1>1 DEF VerifierOnly, inputs, packer
<1>3. CallInv'
  <2>1. WasMade(sigFile)' /\ WasMade(sigBytes)'
    BY <1>2, MadeSame DEF ArtefactInv, CallInv
  <2> QED BY <1>2, <2>1 DEF ArtefactInv, CallInv
<1>4. OutInv'
  <2>1. LastCall' = LastCall /\ Call("open")' = Call("open")
    BY <1>2 DEF LastCall, Call
  <2>2. opened # <<>> => WasMade(LastCall.sig)'
    BY <1>2, <2>1 DEF ArtefactInv, OutInv, WasMade
  <2>3. opened = <<>> => FoundWasMade'
    BY <1>2 DEF ArtefactInv, OutInv, FoundWasMade
  <2> QED BY <1>2, <2>1, <2>2, <2>3 DEF ArtefactInv, OutInv
<1>5. /\ vpc' \in {"idle", "keys", "bad_artefact", "root_error", "ok", "no_match"}
      /\ left' \subseteq Files /\ label' \in Options(Files)
      /\ VerifyInv'
  <2>1. CASE Unpacked
    <3>1. label' \in Options(Files) /\ left' \subseteq Files
          /\ vpc' \in {"keys", "bad_artefact"}
      BY <2>1 DEF Unpacked, Options
    <3>2. art' # Absent => Intact(art'[1].manifest, art'[1].wasm)
      <4>1. art' \in {Unpack(out), Absent}
        BY <2>1 DEF Unpacked
      <4> QED BY <4>1, UnpackIsIntact
    <3>3. CASE vpc' = "keys"
      <4>1. /\ art' # Absent /\ Decodes(art'[1].signature) /\ trust # NoRoot
            /\ left' = Files
        BY <2>1, <3>3 DEF Unpacked
      <4>2. art' = Unpack(out)
        BY <2>1, <4>1 DEF Unpacked
      <4>3. /\ art'[1].signature # Absent /\ art'[1].signature[1] \in Signatures
        BY <4>1 DEF Decodes
      <4>4. art'[1].signature = Some(art'[1].signature[1])
        <5>1. art'[1].signature = Found(out[1].entries, "plugin.sig")
          BY <4>1, <4>2 DEF Unpack, Some, Absent
        <5> QED BY <4>3, <5>1 DEF Found, Some, Absent
      <4>5. art'[1].signature[1] \in signed
        BY <4>1, <4>2, <4>3, <4>4, UnpackedWasMade DEF ArtefactInv
      <4>6. Files \ left' = {}
        BY <4>1
      <4> QED BY <1>2, <3>1, <3>2, <3>3, <4>1, <4>3, <4>4, <4>5, <4>6 DEF VerifyInv
    <3>4. CASE vpc' = "bad_artefact"
      BY <3>1, <3>2, <3>4 DEF VerifyInv
    <3> QED BY <3>1, <3>3, <3>4
  <2>2. CASE NoMatch
    <3>1. /\ vpc = "keys" /\ vpc' = "no_match" /\ left = {} /\ left' = left
          /\ label' = label /\ art' = art /\ trust' = trust
      BY <1>2, <2>2 DEF NoMatch
    <3>2. \A f \in Files : trust[f] # "unreadable" /\ ~KeyMatches(f)
      BY <3>1 DEF ArtefactInv, VerifyInv
    <3>3. \A f \in Files : KeyMatches(f)' <=> KeyMatches(f)
      BY <3>1 DEF KeyMatches
    <3> QED BY <3>1, <3>2, <3>3 DEF ArtefactInv, TypeOK, VerifyInv
  <2>3. ASSUME NEW f \in Files, VisitUnreadable(f) PROVE <1>5!:
    <3>1. /\ vpc' = "root_error" /\ left' = {} /\ label' = label /\ art' = art
          /\ trust' = trust /\ trust[f] = "unreadable"
      BY <1>2, <2>3 DEF VisitUnreadable
    <3> QED BY <3>1 DEF ArtefactInv, TypeOK, VerifyInv
  <2>4. ASSUME NEW f \in Files, VisitMatch(f) PROVE <1>5!:
    <3>1. /\ vpc = "keys" /\ vpc' = "ok" /\ left' = {} /\ label' = Some(f)
          /\ art' = art /\ trust' = trust /\ signed' = signed /\ KeyMatches(f)
      BY <1>2, <2>4 DEF VisitMatch
    <3>2. label'[1] = f /\ label' \in Options(Files)
      BY <3>1 DEF Some, Options
    <3>3. KeyMatches(f)'
      BY <3>1 DEF KeyMatches
    <3>4. KeyMatches(label[1])'
      BY <3>1, <3>2 DEF KeyMatches
    <3> QED BY <3>1, <3>2, <3>4 DEF ArtefactInv, TypeOK, VerifyInv
  <2>5. ASSUME NEW f \in Files, VisitOther(f) PROVE <1>5!:
    <3>1. /\ vpc = "keys" /\ vpc' = vpc /\ left' = left \ {f} /\ label' = label
          /\ art' = art /\ trust' = trust /\ signed' = signed
          /\ trust[f] # "unreadable" /\ ~KeyMatches(f)
      BY <1>2, <2>5 DEF VisitOther
    <3>2. \A g \in Files \ left' : trust[g] # "unreadable" /\ ~KeyMatches(g)
      BY <3>1 DEF ArtefactInv, VerifyInv
    <3>3. \A g \in Files : KeyMatches(g)' <=> KeyMatches(g)
      BY <3>1 DEF KeyMatches
    <3> QED BY <3>1, <3>2, <3>3 DEF ArtefactInv, TypeOK, VerifyInv
  <2> QED BY <2>1, <2>2, <2>3, <2>4, <2>5 DEF Verify
<1>6. TypeOK'
  BY <1>2, <1>5 DEF ArtefactInv, TypeOK
<1> QED BY <1>3, <1>4, <1>5, <1>6 DEF ArtefactInv

LEMMA ArtefactUnchanged ==
  ASSUME ArtefactInv, UNCHANGED vars
  PROVE  ArtefactInv'
<1>1. UNCHANGED <<wasmFile, sigFile, signed, edits, trust, ppc, wasmBytes, sigBytes,
                  opened, out, vpc, art, left, label>>
  BY DEF vars, inputs, packer, verifier
<1>2. TypeOK'
  BY <1>1 DEF ArtefactInv, TypeOK
<1>3. CallInv'
  <2>1. WasMade(sigFile)' /\ WasMade(sigBytes)'
    BY <1>1, MadeSame DEF ArtefactInv, CallInv
  <2> QED BY <1>1, <2>1 DEF ArtefactInv, CallInv
<1>4. OutInv'
  <2>1. LastCall' = LastCall /\ Call("open")' = Call("open")
    BY <1>1 DEF LastCall, Call
  <2>2. opened # <<>> => WasMade(LastCall.sig)'
    BY <1>1, <2>1 DEF ArtefactInv, OutInv, WasMade
  <2>3. opened = <<>> => FoundWasMade'
    BY <1>1 DEF ArtefactInv, OutInv, FoundWasMade
  <2> QED BY <1>1, <2>1, <2>2, <2>3 DEF ArtefactInv, OutInv
<1>5. VerifyInv'
  BY <1>1 DEF ArtefactInv, VerifyInv, KeyMatches
<1> QED BY <1>2, <1>3, <1>4, <1>5 DEF ArtefactInv

-----------------------------------------------------------------------------
(* The theorems.                                                            *)

\* The invariant holds in every reachable state.
THEOREM ArtefactInvariant == Spec => []ArtefactInv
<1>1. Init => ArtefactInv
  BY ArtefactInitCorrect
<1>2. ArtefactInv /\ [Next]_vars => ArtefactInv'
  <2> SUFFICES ASSUME ArtefactInv, [Next]_vars PROVE ArtefactInv'
    OBVIOUS
  <2>1. CASE UNCHANGED vars
    BY <2>1, ArtefactUnchanged
  <2>2. CASE \E w \in Wasms \cup {NotWasm} : Build(w)
    BY <2>2, InputsStep
  <2>3. CASE \E k \in Keys : Sign(k)
    BY <2>3, InputsStep
  <2>4. CASE Pack
    BY <2>4, ReadStep, CreateStep, WriteEntryStep, EndsStep DEF Pack
  <2>5. CASE Verify
    BY <2>5, VerifyStep
  <2> QED BY <2>1, <2>2, <2>3, <2>4, <2>5 DEF Next
<1> QED BY <1>1, <1>2, PTL DEF Spec

\* Every variable keeps its type, and a step of a call has what it relies on.
THEOREM TypeCorrect == Spec => []TypeOK
<1>1. ArtefactInv => TypeOK
  BY DEF ArtefactInv
<1> QED BY <1>1, ArtefactInvariant, PTL

\* What unpacks is the last call's, of one piece, but for the signature.
LEMMA UnpackNow ==
  ASSUME ArtefactInv, opened # <<>>, Unpack(out) # Absent
  PROVE  \E sig \in {LastCall.sig, Absent, Some(Torn)} :
            /\ Unpack(out) =
                 Some([manifest |-> Manifest(LastCall.wasm, LastCall.sig, Len(opened)),
                       wasm |-> LastCall.wasm, signature |-> sig])
            /\ LastCall.status = "ok" => sig = LastCall.sig
<1>1. Len(opened) \in 1 .. MaxPacks /\ LastCall \in CallRecords
  BY LastCallOf DEF ArtefactInv
<1>2. ppc \notin Writing \cup {"finish"}
  <2>1. ASSUME ppc \in Writing \cup {"finish"} PROVE FALSE
    <3>1. out = Archive(out[1].entries, FALSE)
      BY <2>1, PackerIsAt DEF ArtefactInv
    <3>2. Unpack(out) = Absent
      BY <3>1 DEF Unpack, Archive, Some
    <3> QED BY <3>2
  <2> QED BY <2>1
<1>3. CASE LastCall.status = "ok"
  <2>1. out = Archive(Complete(LastCall, Len(opened)), TRUE)
    BY <1>2, <1>3 DEF ArtefactInv, OutInv
  <2> QED BY <1>1, <2>1, UnpackComplete
<1>4. CASE LastCall.status = "failed"
  <2>1. PICK es \in Rests(LastCall, Len(opened)), readable \in BOOLEAN :
           out = Archive(es, readable)
    BY <1>2, <1>4 DEF ArtefactInv, OutInv
  <2>2. PICK sig \in {LastCall.sig, Absent, Some(Torn)} :
           Unpack(out) =
             Some([manifest |-> Manifest(LastCall.wasm, LastCall.sig, Len(opened)),
                   wasm |-> LastCall.wasm, signature |-> sig])
    BY <1>1, <2>1, UnpackRests
  <2> QED BY <1>4, <2>2
<1> QED BY <1>2, <1>3, <1>4 DEF ArtefactInv, OutInv

LEMMA PackedNow ==
  ASSUME ArtefactInv, opened # <<>>, LastCall.status = "ok"
  PROVE  Unpack(out) =
           Some([manifest |-> Manifest(LastCall.wasm, LastCall.sig, Len(opened)),
                 wasm |-> LastCall.wasm, signature |-> LastCall.sig])
<1>1. ppc \notin Writing \cup {"finish"}
  <2>1. LastCall = Call("open") => LastCall.status = "open"
    BY DEF Call
  <2>2. LastCall # Call("open")
    BY <2>1
  <2> QED BY <2>2 DEF ArtefactInv, OutInv
<1>2. out = Archive(Complete(LastCall, Len(opened)), TRUE)
  BY <1>1 DEF ArtefactInv, OutInv
<1>3. Len(opened) \in 1 .. MaxPacks /\ LastCall \in CallRecords
  BY LastCallOf DEF ArtefactInv
<1> QED BY <1>2, <1>3, UnpackComplete

\* For any wasms, signatures, foreign archives and number of calls: after a
\* pack that returned Ok the path holds what the call had read, until a call
\* opens the output again.
THEOREM PackedStaysReadable == Spec => []PackedIsReadable
<1>1. ArtefactInv => PackedIsReadable
  BY PackedNow DEF PackedIsReadable
<1> QED BY <1>1, ArtefactInvariant, PTL

\* Whatever pack was doing when the file is read, or had done when it failed
\* or was killed: what unpacks is the artefact of the last call that opened
\* the output, all of one piece.
THEOREM UnpackIsOfLastPack == Spec => []UnpackIsLastPack
<1>1. ArtefactInv => UnpackIsLastPack
  <2> SUFFICES ASSUME ArtefactInv, opened # <<>>, Unpack(out) # Absent
               PROVE  LET a == Unpack(out)[1]
                      IN  /\ a.manifest = Manifest(LastCall.wasm, LastCall.sig, Len(opened))
                          /\ a.wasm = LastCall.wasm
                          /\ a.signature \in {LastCall.sig, Absent, Some(Torn)}
                          /\ LastCall.status = "ok" => a.signature = LastCall.sig
    BY DEF UnpackIsLastPack
  <2>1. PICK sig \in {LastCall.sig, Absent, Some(Torn)} :
           /\ Unpack(out) =
                Some([manifest |-> Manifest(LastCall.wasm, LastCall.sig, Len(opened)),
                      wasm |-> LastCall.wasm, signature |-> sig])
           /\ LastCall.status = "ok" => sig = LastCall.sig
    BY UnpackNow
  <2>2. /\ Unpack(out)[1].manifest = Manifest(LastCall.wasm, LastCall.sig, Len(opened))
        /\ Unpack(out)[1].wasm = LastCall.wasm /\ Unpack(out)[1].signature = sig
    BY <2>1 DEF Some
  <2> QED BY <2>1, <2>2
<1> QED BY <1>1, ArtefactInvariant, PTL

\* Whatever the trust root holds and in whatever order it is read: an accepted
\* artefact was signed over this wasm by the key it names, and a refusal for
\* want of a match has seen every file.
THEOREM VerdictsAreJustified == Spec => []VerdictJustified
<1>1. ArtefactInv => VerdictJustified
  <2> SUFFICES ASSUME ArtefactInv PROVE VerdictJustified
    OBVIOUS
  <2>1. ASSUME vpc = "ok"
        PROVE  /\ trust[label[1]] \in Keys
               /\ [key |-> trust[label[1]], over |-> art[1].wasm] \in signed
    <3>1. PICK s \in Signatures : art[1].signature = Some(s) /\ s \in signed
      BY <2>1 DEF ArtefactInv, VerifyInv
    <3>2. trust[label[1]] \in Keys /\ s.key = trust[label[1]] /\ s.over = art[1].wasm
      BY <2>1, <3>1 DEF ArtefactInv, VerifyInv, KeyMatches, KeyVerifies, Some
    <3>3. s = [key |-> s.key, over |-> s.over]
      BY DEF Signatures
    <3> QED BY <3>1, <3>2, <3>3
  <2> QED BY <2>1 DEF ArtefactInv, VerifyInv, VerdictJustified
<1> QED BY <1>1, ArtefactInvariant, PTL

-----------------------------------------------------------------------------
(* The abstract store.                                                      *)

\* While a call has the output open nothing unpacks.
LEMMA OpenIsAbsent ==
  ASSUME ArtefactInv, ppc \in Writing \cup {"finish"}
  PROVE  /\ opened # <<>> /\ LastCall.status = "open"
         /\ Unpack(out) = Absent
<1>1. opened # <<>> /\ LastCall = Call("open")
  BY DEF ArtefactInv, OutInv
<1>2. out = Archive(out[1].entries, FALSE)
  BY PackerIsAt DEF ArtefactInv
<1>3. Unpack(out) = Absent
  BY <1>2 DEF Unpack, Archive, Some
<1> QED BY <1>1, <1>3 DEF Call

\* What a reader finds, before a step and after it.
UnpackedNow ==
  opened # <<>> /\ Unpack(out) # Absent =>
     \E sig \in {LastCall.sig, Absent, Some(Torn)} :
        Unpack(out) = Some([manifest |-> Manifest(LastCall.wasm, LastCall.sig, Len(opened)),
                            wasm |-> LastCall.wasm, signature |-> sig])
AbsentNow == ppc \in Writing \cup {"finish"} => Unpack(out) = Absent

LEMMA ReaderFinds ==
  ArtefactInv => PackedIsReadable /\ UnpackedNow /\ AbsentNow
BY PackedNow, UnpackNow, OpenIsAbsent DEF PackedIsReadable, UnpackedNow, AbsentNow

LEMMA ReaderFindsNext ==
  ArtefactInv' => PackedIsReadable' /\ UnpackedNow' /\ AbsentNow'
BY ReaderFinds, PTL

\* Create opens it.
LEMMA CreateOpens ==
  ASSUME ArtefactInv, Create
  PROVE  Store!Open
<1>1. /\ ppc = "create" /\ out' = Archive(<<>>, FALSE)
      /\ opened' = Append(opened, Call("open"))
      /\ opened \in Seq(CallRecords) /\ Len(opened) < MaxPacks
      /\ wasmBytes \in Wasms /\ sigBytes \in SignatureFiles
  BY DEF Create, ArtefactInv, CallInv
<1>2. Call("open") \in CallRecords /\ Call("open").status = "open"
  BY <1>1 DEF Call, CallRecords
<1>3. /\ opened' # <<>> /\ Len(opened') = Len(opened) + 1
      /\ LastCall' = Call("open") /\ Len(opened') \in 1 .. MaxPacks
  <2>1. /\ Len(opened') = Len(opened) + 1 /\ opened'[Len(opened) + 1] = Call("open")
        /\ opened' \in Seq(CallRecords) /\ Len(opened) \in Nat
    BY <1>1, <1>2, AppendProperties
  <2>2. Len(opened') # 0 /\ Len(opened') \in 1 .. MaxPacks
    BY <1>1, <2>1, BoundsAssumption
  <2> QED BY <2>1, <2>2 DEF LastCall
<1>4. Packing(LastCall)' \in Artefacts
  BY <1>1, <1>3 DEF Packing, Artefacts, Call, SignatureFiles
<1>5. (opened # <<>>) => LastCall.status # "open"
  BY <1>1 DEF ArtefactInv, OutInv, Writing
<1>6. Unpack(out)' = Absent
  BY <1>1 DEF Unpack, Archive, Some
<1>7. /\ Some(Packing(LastCall)') \in Seq(Artefacts)
      /\ Len(Some(Packing(LastCall)')) = 1
  BY <1>4 DEF Some
<1> QED BY <1>2, <1>3, <1>5, <1>6, <1>7 DEF Store!Open, Absent

\* The end of a call commits or aborts.
LEMMA EndCloses ==
  ASSUME ArtefactInv, ArtefactInv', ppc \in Writing \cup {"finish"},
         NEW pc, NEW status \in {"ok", "failed"}, EndCall(pc, status)
  PROVE  Store!Commit \/ Store!Abort
<1> DEFINE a == Packing(LastCall)
<1>1. opened # <<>> /\ LastCall.status = "open" /\ Unpack(out) = Absent
  BY OpenIsAbsent
<1>2. /\ opened \in Seq(CallRecords) /\ Len(opened) \in DOMAIN opened
      /\ LastCall \in CallRecords /\ LastCall = opened[Len(opened)]
      /\ opened' = [opened EXCEPT ![Len(opened)].status = status]
  BY <1>1, LastCallOf DEF ArtefactInv, CallInv, EndCall, LastCall
<1>3. /\ opened' # <<>> /\ Len(opened') = Len(opened)
      /\ LastCall' = [LastCall EXCEPT !.status = status]
  <2>1. DOMAIN opened' = DOMAIN opened /\ Len(opened') = Len(opened)
    BY <1>2
  <2> QED BY <1>1, <1>2, <2>1 DEF LastCall
<1>4. LastCall'.status = status /\ LastCall'.wasm = LastCall.wasm /\ LastCall'.sig = LastCall.sig
  BY <1>2, <1>3 DEF CallRecords
<1>5. a' = a
  BY <1>3, <1>4 DEF Packing
<1>6. CASE status = "ok"
  <2>1. Unpack(out)' = Some(a)
    <3>1. (Unpack(out) = Some([manifest |-> Manifest(LastCall.wasm, LastCall.sig, Len(opened)),
                               wasm |-> LastCall.wasm, signature |-> LastCall.sig]))'
      BY <1>3, <1>4, <1>6, ReaderFindsNext DEF PackedIsReadable
    <3> QED BY <1>5, <3>1 DEF Packing
  <2> HIDE DEF a
  <2>2. Store!Commit
    BY <1>1, <1>3, <1>4, <1>5, <1>6, <2>1 DEF Store!Commit, a
  <2> QED BY <2>2
<1>7. CASE status = "failed"
  <2>1. Unpack(out)' \in Store!Left(a)
    <3>1. CASE Unpack(out)' = Absent
      BY <3>1 DEF Store!Left, Absent
    <3>2. CASE Unpack(out)' # Absent
      <4>1. (\E sig \in {LastCall.sig, Absent, Some(Torn)} :
               Unpack(out) = Some([manifest |-> Manifest(LastCall.wasm, LastCall.sig, Len(opened)),
                                   wasm |-> LastCall.wasm, signature |-> sig]))'
        BY <1>3, <3>2, ReaderFindsNext DEF UnpackedNow
      <4>2. PICK sig \in {LastCall.sig, Absent, Some(Torn)} :
               Unpack(out)' = Some([manifest |-> Manifest(LastCall.wasm, LastCall.sig, Len(opened)),
                                    wasm |-> LastCall.wasm, signature |-> sig])
        BY <1>3, <1>4, <4>1
      <4>3. [manifest |-> Manifest(LastCall.wasm, LastCall.sig, Len(opened)),
             wasm |-> LastCall.wasm, signature |-> sig] = [a EXCEPT !.signature = sig]
        BY DEF Packing
      <4>4. a.signature = LastCall.sig
        BY DEF Packing
      <4> QED BY <4>2, <4>3, <4>4 DEF Store!Left, Some, Absent
    <3> QED BY <3>1, <3>2
  <2> HIDE DEF a
  <2>2. (<<a>>)[1] = a
    OBVIOUS
  <2>3. Store!Abort
    BY <1>1, <1>3, <1>4, <1>5, <1>7, <2>1, <2>2 DEF Store!Abort, a, Some
  <2> QED BY <2>3
<1> QED BY <1>6, <1>7

\* Everything else leaves it alone.
LEMMA OthersKeep ==
  ASSUME UNCHANGED <<opened, out>> PROVE UNCHANGED Store!vars
BY DEF Store!vars, LastCall, Packing

\* The output path is a store of whole artefacts, whatever other tools left
\* there, for any contents, keys and number of calls and in any interleaving
\* with builds, signers and readers.
THEOREM Refinement == Spec => ImplementsArtefactStore
<1>1. Init => Store!Init
  BY DEF Init, Store!Init, Absent
<1>2. ArtefactInv /\ ArtefactInv' /\ [Next]_vars => [Store!Next]_(Store!vars)
  <2> SUFFICES ASSUME ArtefactInv, ArtefactInv', [Next]_vars
               PROVE  Store!Next \/ UNCHANGED Store!vars
    OBVIOUS
  <2>1. CASE Create
    BY <2>1, CreateOpens DEF Store!Next
  <2>2. CASE WriteEntry
    <3>1. /\ ppc \in Writing \cup {"finish"} /\ ppc' \in Writing \cup {"finish"}
          /\ opened' = opened
      BY <2>2 DEF WriteEntry, Writing
    <3>2. Unpack(out) = Absent /\ Unpack(out)' = Absent
      BY <3>1, ReaderFinds, ReaderFindsNext DEF AbsentNow
    <3> QED BY <3>1, <3>2 DEF Store!vars, LastCall, Packing
  <2>3. CASE WriteEntryFails \/ Finish \/ FinishFails \/ CrashWriting
    <3>1. PICK pc \in Ended, status \in {"ok", "failed"} :
             ppc \in Writing \cup {"finish"} /\ EndCall(pc, status)
      BY <2>3 DEF WriteEntryFails, Finish, FinishFails, CrashWriting, Ended
    <3> QED BY <3>1, EndCloses DEF Store!Next
  <2>4. CASE \/ \E withSig \in BOOLEAN : ReadWasm(withSig)
             \/ ReadWasmFails \/ ReadSignature \/ ReadSignatureFails
             \/ CreateFails \/ CrashReading
    <3>1. UNCHANGED <<opened, out>>
      BY <2>4 DEF ReadWasm, ReadWasmFails, ReadSignature, ReadSignatureFails,
                  CreateFails, CrashReading
    <3> QED BY <3>1, OthersKeep
  <2>5. CASE \/ \E w \in Wasms \cup {NotWasm} : Build(w)
             \/ \E k \in Keys : Sign(k)
             \/ Verify
             \/ UNCHANGED vars
    <3>1. UNCHANGED packer
      BY <2>5 DEF Build, Sign, Verify, Unpacked, NoMatch, VisitUnreadable, VisitMatch,
                  VisitOther, VerifierOnly, vars
    <3>2. UNCHANGED <<opened, out>>
      BY <3>1 DEF packer
    <3> QED BY <3>2, OthersKeep
  <2> QED BY <2>1, <2>2, <2>3, <2>4, <2>5 DEF Next, Pack
<1> QED BY <1>1, <1>2, ArtefactInvariant, PTL DEF Spec, ImplementsArtefactStore, Store!Spec

=============================================================================
