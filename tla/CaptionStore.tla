---------------------------- MODULE CaptionStore ----------------------------
(***************************************************************************)
(* Captions from the corpus file to a sample: the scripts that encode them *)
(* (precompute_t5_captions.py, convert_caption_npz_to_npy.py,              *)
(* precompute_t5_caption_tokens.py, chained by build_l5_t5_caption_cache.py)*)
(* the loader that binds strings, vectors and tokens by caption index      *)
(* (AnyTopDataset), and the evaluation manifests with their wrapper        *)
(* (build_anytop_t2m_eval_splits.py, AnyTopT2MEvalDataset).                *)
(*                                                                         *)
(* A file is known by the revision of the corpus it was made from; what an *)
(* encoder returns for a caption is named by the caption.                  *)
(***************************************************************************)
EXTENDS Integers, Sequences, FiniteSets, Functions

CONSTANTS
  Motions,     \* motion ids, compared by number
  Corpora,     \* revisions of the corpus file
  Texts,       \* their contents: Texts[c][m] = [primary, captions]
  NameOf,      \* file name of a revision
  Corrupt,     \* captions that the manifest builder's blacklist matches
  AnimalOnly,  \* captions that name no species
  MaxEdits,    \* bound: edits of the corpus file
  MaxJobs      \* bound: script runs

ASSUME CaptionAssumption ==
  /\ Motions \subseteq Nat /\ IsFiniteSet(Motions)
  /\ Texts \in [Corpora -> [Motions -> [primary : STRING, captions : Seq(STRING)]]]
  /\ MaxEdits \in Nat /\ MaxJobs \in Nat

NoFile == "no file"
ASSUME NoFileAssumption == NoFile \notin Corpora

VARIABLES
  family,    \* cache prefix: "t5" of the scripts, "sidecar" with provenance
  corpus,    \* revision in place
  npz,       \* revision the mean cache encodes
  embs,      \* revision of <prefix>.embs.npy
  keys,      \* revision of <prefix>.keys.json
  meta,      \* revision that <prefix>.meta.json names
  tokens,    \* revisions whose keys and whose captions the token cache has
  job,       \* the running script, what it has read, how far it is
  loader,    \* AnyTopDataset: pc and what it has built
  moved,     \* a file was replaced, or the corpus edited before the gate, under a reader
  item,      \* sample of the loader
  manifest,  \* eval manifest: revision it was built from, its stamp
  view,      \* sample of the wrapper
  edits, jobs

files   == <<npz, embs, keys, meta, tokens>>
readers == <<loader, moved, item, view>>
counts  == <<edits, jobs>>
vars    == <<family, corpus, files, job, readers, manifest, counts>>

-----------------------------------------------------------------------------
(* The enumeration of a motion's captions, repeated in three places: what  *)
(* is left of a list, in its order, when some texts are dropped.           *)
Kept(s, drop) ==
  LET kept[n \in 0 .. Len(s)] ==
        IF n = 0 THEN <<>>
        ELSE IF s[n] \in drop THEN kept[n - 1] ELSE Append(kept[n - 1], s[n])
  IN  kept[Len(s)]

Ordered(info) ==
  (IF info.primary = "" THEN <<>> ELSE <<info.primary>>)
  \o Kept(info.captions, {"", info.primary})

Lookup(c, key) == Ordered(Texts[c][key[1]])[key[2] + 1]

KeysOf(c) ==
  UNION {{<<m, i>> : i \in 0 .. (Len(Ordered(Texts[c][m])) - 1)} : m \in Motions}

(* A finite set in order, where below[x] are the members before x.         *)
InOrder(S, below) ==
  [i \in 1 .. Cardinality(S) |-> CHOOSE x \in S : Cardinality(below[x]) = i - 1]

KeysBelow(c) ==
  [k \in KeysOf(c) |->
     {j \in KeysOf(c) : j[1] < k[1] \/ (j[1] = k[1] /\ j[2] < k[2])}]

KeyList == [c \in Corpora |-> InOrder(KeysOf(c), KeysBelow(c))]

(* Rows of a motion, in the order of their caption index.                  *)
RowsOf(c, m) == {r \in 1 .. Len(KeyList[c]) : KeyList[c][r][1] = m}

RowsBelow(c, m) ==
  [r \in RowsOf(c, m) |-> {q \in RowsOf(c, m) : KeyList[c][q][2] < KeyList[c][r][2]}]

Groups ==
  [c \in Corpora |-> [m \in Motions |-> InOrder(RowsOf(c, m), RowsBelow(c, m))]]

(* What a row of the vectors and a row of the tokens encode.               *)
VectorText(row) ==
  Ordered(Texts[embs][KeyList[embs][row][1]])[KeyList[embs][row][2] + 1]

TokenText(row) == Lookup(tokens.texts, KeyList[tokens.keys][row])

NoTokens == [keys |-> NoFile, texts |-> NoFile]
Idle == [script |-> "none", read |-> NoTokens, part |-> 0]
Closed == [pc |-> "closed", gated |-> FALSE, texts |-> NoFile, labels |-> NoFile,
           tokenLabels |-> NoFile]
NoItem == [motion |-> 0, string |-> "", vector |-> "", token |-> "", hasText |-> FALSE]
NoView == [pc |-> "closed", labels |-> NoFile, stripped |-> FALSE, motion |-> 0,
           text |-> "", vector |-> ""]
NoManifest == [corpus |-> NoFile, stamp |-> FALSE]

Init ==
  /\ family \in {"t5", "sidecar"}
  /\ corpus \in Corpora
  /\ npz = NoFile /\ embs = NoFile /\ keys = NoFile /\ meta = NoFile /\ tokens = NoTokens
  /\ job = Idle
  /\ loader = Closed /\ moved = FALSE
  /\ item = NoItem /\ view = NoView
  /\ manifest = NoManifest
  /\ edits = 0 /\ jobs = 0

-----------------------------------------------------------------------------
(* The corpus and the scripts.  Every write is seen by running readers,    *)
(* which keep their files mapped; the corpus is parsed once, and looked at *)
(* a second time by the gate.                                              *)
Touch == moved' = TRUE /\ UNCHANGED <<loader, item, view>>

Edit ==
  /\ edits < MaxEdits
  /\ \E c \in Corpora \ {corpus} : corpus' = c
  /\ edits' = edits + 1
  /\ moved' = IF loader.pc = "gate" THEN TRUE ELSE moved
  /\ UNCHANGED <<loader, item, view>>
  /\ UNCHANGED <<family, files, job, manifest, jobs>>

Start(script, k, source) ==
  /\ job = Idle
  /\ jobs < MaxJobs
  /\ job' = [script |-> script, read |-> [keys |-> k, texts |-> source], part |-> 0]
  /\ jobs' = jobs + 1
  /\ UNCHANGED <<family, corpus, files, readers, manifest, edits>>

Running(script, part) == job.script = script /\ job.part = part

StartMeans == family = "t5" /\ Start("means", NoFile, corpus)

WriteMeans ==
  /\ Running("means", 0)
  /\ npz' = job.read.texts
  /\ job' = Idle
  /\ Touch
  /\ UNCHANGED <<family, corpus, embs, keys, meta, tokens, manifest, counts>>

StartConvert == npz # NoFile /\ Start("convert", NoFile, npz)

WriteVectors ==
  /\ Running("convert", 0)
  /\ embs' = job.read.texts
  /\ job' = [job EXCEPT !.part = 1]
  /\ Touch
  /\ UNCHANGED <<family, corpus, npz, keys, meta, tokens, manifest, counts>>

WriteKeys ==
  /\ Running("convert", 1)
  /\ keys' = job.read.texts
  /\ job' = Idle
  /\ Touch
  /\ UNCHANGED <<family, corpus, npz, embs, meta, tokens, manifest, counts>>

(* The token script reuses the keys in place; every key must be found in   *)
(* the corpus, else it stops.                                              *)
StartTokens ==
  /\ keys # NoFile
  /\ Range(KeyList[keys]) \subseteq KeysOf(corpus)
  /\ family = "t5"
  /\ Start("tokens", keys, corpus)

WriteTokens ==
  /\ Running("tokens", 0)
  /\ tokens' = job.read
  /\ job' = Idle
  /\ Touch
  /\ UNCHANGED <<family, corpus, npz, embs, keys, meta, manifest, counts>>

(* The builder of ragged sidecars (not in the repository) writes all files *)
(* of a prefix, with their provenance.  In which order is not known here:  *)
(* they are taken to change together.                                      *)
StartSidecar == family = "sidecar" /\ Start("sidecar", NoFile, corpus)

WriteSidecar ==
  /\ Running("sidecar", 0)
  /\ embs' = job.read.texts /\ keys' = embs' /\ meta' = embs'
  /\ tokens' = [keys |-> embs', texts |-> embs']
  /\ job' = Idle
  /\ Touch
  /\ UNCHANGED <<family, corpus, npz, manifest, counts>>

(* A script is killed; what it wrote stays.                                *)
Kill ==
  /\ job # Idle
  /\ job' = Idle
  /\ UNCHANGED <<family, corpus, files, readers, manifest, counts>>

-----------------------------------------------------------------------------
(* AnyTopDataset.                                                          *)
LoaderStep == UNCHANGED <<family, corpus, files, job, view, manifest, counts>>

ReadTexts ==
  /\ loader.pc = "closed"
  /\ view = NoView
  /\ embs # NoFile /\ keys # NoFile
  /\ loader' = [Closed EXCEPT !.pc = "gate", !.texts = corpus]
  /\ moved' = FALSE
  /\ UNCHANGED item
  /\ LoaderStep

Refuse == loader' = Closed

\* Mutant: the hash is read and not compared.
Open_Gate ==
  /\ loader.pc = "gate"
  /\ loader' = [loader EXCEPT !.pc = "vectors", !.gated = meta # NoFile]
  /\ UNCHANGED <<moved, item>>
  /\ LoaderStep

(* With provenance beside the vectors, the corpus file must hash to it.    *)
Gate ==
  /\ loader.pc = "gate"
  /\ IF meta \in {NoFile, corpus}
       THEN loader' = [loader EXCEPT !.pc = "vectors", !.gated = meta # NoFile]
       ELSE Refuse
  /\ UNCHANGED <<moved, item>>
  /\ LoaderStep

LoadVectors ==
  /\ loader.pc = "vectors"
  /\ IF Len(KeyList[keys]) = Len(KeyList[embs])
       THEN \E pc \in {"tokens", "serving"} :
              loader' = [loader EXCEPT !.pc = pc, !.labels = keys]
       ELSE Refuse
  /\ UNCHANGED <<moved, item>>
  /\ LoaderStep

Counted(labels, tokenLabels) ==
  \A m \in Motions :
    Groups[labels][m] # <<>> => Len(Groups[tokenLabels][m]) = Len(Groups[labels][m])

(* The labels are read again, and only numbers of rows are compared.       *)
LoadTokens ==
  /\ loader.pc = "tokens"
  /\ IF /\ tokens # NoTokens
        /\ Len(KeyList[keys]) = Len(KeyList[tokens.keys])
        /\ Counted(loader.labels, keys)
       THEN loader' = [loader EXCEPT !.pc = "serving", !.tokenLabels = keys]
       ELSE Refuse
  /\ UNCHANGED <<moved, item>>
  /\ LoaderStep

(* String i of a motion, else the primary caption.                         *)
StringOf(m, i) ==
  LET strings == Ordered(Texts[loader.texts][m])
  IN IF i <= Len(strings) THEN strings[i] ELSE Texts[loader.texts][m].primary

(* The maps of both arrays stay open: a row is read when it is served, and *)
(* a file that became shorter ends the process.                            *)
Served(m, i) ==
  LET row == Groups[loader.labels][m][i]
  IN [motion  |-> m,
      string  |-> StringOf(m, i),
      vector  |-> VectorText(row),
      token   |-> IF loader.tokenLabels = NoFile THEN ""
                  ELSE TokenText(Groups[loader.tokenLabels][m][i]),
      hasText |-> TRUE]

Mapped ==
  /\ Len(KeyList[embs]) >= Len(KeyList[loader.labels])
  /\ loader.tokenLabels # NoFile
       => Len(KeyList[tokens.keys]) >= Len(KeyList[loader.tokenLabels])

ServeCaption ==
  /\ loader.pc = "serving"
  /\ Mapped
  /\ \E m \in Motions : \E i \in 1 .. Len(Groups[loader.labels][m]) : item' = Served(m, i)
  /\ UNCHANGED <<loader, moved>>
  /\ LoaderStep

ServeNone ==
  /\ loader.pc = "serving"
  /\ \E m \in Motions :
       /\ Groups[loader.labels][m] = <<>>
       /\ item' = [NoItem EXCEPT !.motion = m, !.string = Texts[loader.texts][m].primary]
  /\ UNCHANGED <<loader, moved>>
  /\ LoaderStep

CloseLoader ==
  /\ loader.pc = "serving"
  /\ loader' = Closed
  /\ item' = NoItem
  /\ UNCHANGED <<moved>>
  /\ LoaderStep

-----------------------------------------------------------------------------
(* Evaluation manifests.                                                   *)
Filtered(m) == Kept(Texts[manifest.corpus][m].captions, Corrupt)

(* No record without a caption: the builder stops instead.                 *)
BuildManifest ==
  /\ \A m \in Motions :
       \E i \in 1 .. Len(Texts[corpus][m].captions) :
          Texts[corpus][m].captions[i] \notin Corrupt
  /\ view = NoView
  /\ \E stamp \in BOOLEAN : manifest' = [corpus |-> corpus, stamp |-> stamp]
  /\ UNCHANGED <<family, corpus, files, job, readers, counts>>

(* First caption that names no species, counted as the key counts.         *)
Stripped(m) ==
  {i \in 1 .. Len(Filtered(m)) :
     /\ Filtered(m)[i] \in AnimalOnly
     /\ \A k \in 1 .. (i - 1) : Filtered(m)[k] \notin AnimalOnly}

ViewIndex(m, stripped) == IF stripped THEN Stripped(m) ELSE {1}

(* A stamped manifest is refused unless the vectors declare its corpus.    *)
StampHolds ==
  manifest.stamp => meta # NoFile /\ NameOf[meta] = NameOf[manifest.corpus]

Planned(stripped) == {m \in Motions : ViewIndex(m, stripped) # {}}

OpenView(stripped) ==
  /\ view.pc = "closed" /\ loader.pc = "closed"
  /\ manifest # NoManifest
  /\ embs # NoFile /\ keys # NoFile
  /\ StampHolds
  /\ Len(KeyList[keys]) = Len(KeyList[embs])
  /\ \A m \in Planned(stripped) : \A i \in ViewIndex(m, stripped) : <<m, i - 1>> \in KeysOf(keys)
  /\ view' = [NoView EXCEPT !.pc = "open", !.stripped = stripped, !.labels = keys]
  /\ moved' = FALSE
  /\ UNCHANGED <<family, corpus, files, job, loader, item, manifest, counts>>

RowOf(key) == CHOOSE r \in 1 .. Len(KeyList[view.labels]) : KeyList[view.labels][r] = key

ServeView ==
  /\ view.pc \in {"open", "served"}
  /\ Len(KeyList[embs]) >= Len(KeyList[view.labels])
  /\ \E m \in Planned(view.stripped) : \E i \in ViewIndex(m, view.stripped) :
       view' = [view EXCEPT !.pc = "served", !.motion = m,
                            !.text = Filtered(m)[i],
                            !.vector = VectorText(RowOf(<<m, i - 1>>))]
  /\ UNCHANGED <<family, corpus, files, job, loader, moved, item, manifest, counts>>

CloseView ==
  /\ view.pc # "closed"
  /\ view' = NoView
  /\ UNCHANGED <<family, corpus, files, job, loader, moved, item, manifest, counts>>

Next ==
  \/ Edit
  \/ StartMeans \/ WriteMeans
  \/ StartConvert \/ WriteVectors \/ WriteKeys
  \/ StartTokens \/ WriteTokens
  \/ StartSidecar \/ WriteSidecar
  \/ Kill
  \/ ReadTexts \/ Gate \/ LoadVectors \/ LoadTokens
  \/ ServeCaption \/ ServeNone \/ CloseLoader
  \/ BuildManifest \/ \E stripped \in BOOLEAN : OpenView(stripped)
  \/ ServeView \/ CloseView

Spec == Init /\ [][Next]_vars

-----------------------------------------------------------------------------
(* Properties.                                                             *)

(* Types of the files and of the readers; no row is served that the count  *)
(* checks let through without being there.                                 *)
TypeOK ==
  LET Revision == Corpora \cup {NoFile}
  IN /\ corpus \in Corpora /\ {npz, embs, keys, meta} \subseteq Revision
     /\ tokens \in [keys : Revision, texts : Revision]
     /\ loader.pc \in {"closed", "gate", "vectors", "tokens", "serving"}
     /\ loader.tokenLabels # NoFile
          => \A m \in Motions : Len(Groups[loader.tokenLabels][m])
                                  >= Len(Groups[loader.labels][m])
     /\ manifest.corpus \in Revision

(* With provenance, whatever edits and builds came before and whatever     *)
(* edits of the corpus come after the gate: string, vector and tokens of a *)
(* sample are of one caption while no array is replaced under the reader.  *)
(* An edit between the parsing of the corpus and its hashing is excepted:  *)
(* the gate does not see it, and lets old strings through.                 *)
GateBinds ==
  item.hasText /\ loader.gated /\ ~ moved =>
    item.string = item.vector /\ item.token \in {"", item.vector}

(* Without provenance, the chain of scripts on the corpus that the loader  *)
(* has parsed gives the same: the three enumerations of captions agree.    *)
PipelineBinds ==
  /\ item.hasText /\ ~ moved
  /\ embs = loader.texts /\ keys = embs
  /\ loader.tokenLabels # NoFile => tokens = [keys |-> keys, texts |-> keys]
  => item.string = item.vector /\ item.token \in {"", item.vector}

(* Nothing dropped by the blacklist, and the primary caption first.        *)
Regular(m) ==
  /\ Filtered(m) = Texts[manifest.corpus][m].captions
  /\ Filtered(m) = Ordered(Texts[manifest.corpus][m])

(* The wrapper serves no blacklisted caption and names no species in the   *)
(* stripped view; on a regular record and one corpus, the vector is of the *)
(* text beside it.                                                         *)
EvalViews ==
  view.pc = "served" =>
    /\ view.text \notin Corrupt
    /\ view.stripped => view.text \in AnimalOnly
    /\ ~ moved /\ keys = embs /\ embs = manifest.corpus /\ Regular(view.motion)
         => view.vector = view.text

(* String, vector and tokens that are served together are of one caption,  *)
(* in the training loader by either route and in the view for evaluation,  *)
(* within the conditions of the parts.                                     *)
CaptionsBound == TypeOK /\ GateBinds /\ PipelineBinds /\ EvalViews
=============================================================================
