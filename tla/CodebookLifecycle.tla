-------------------------- MODULE CodebookLifecycle --------------------------
(***************************************************************************)
(* The codebook that turns a media file into a vector: trained by the      *)
(* first call that needs it on the files uploaded so far, saved page by    *)
(* page, and loaded when the process starts (multimedia/resolver.py and    *)
(* multimedia/codebook/kmeans_codebook.py).  Calls are inserts into a KNN  *)
(* index and searches of it, on threads that share one resolver; the       *)
(* process may die at any step.                                            *)
(*                                                                         *)
(* A descriptor is a number, a look, and a file the set of its looks.  Of  *)
(* a vector only the words with a weight are kept, and the codebook that   *)
(* made it: vectors of two codebooks cannot be compared.  A file keeps its *)
(* content once uploaded, and all files are of one modality, so of one     *)
(* resolver.  k-means is scikit-learn's: what it is asked and what it      *)
(* gives back.                                                             *)
(*                                                                         *)
(* The grain is one access of a training to what the threads share; only   *)
(* the vector of a file is made in one step.  It could be of a codebook    *)
(* half replaced only after two threads trained, when nothing is claimed   *)
(* of vectors; nor does it then matter that numpy stretches a length of    *)
(* one, where other lengths that differ raise.                             *)
(***************************************************************************)
EXTENDS Integers, FiniteSets, FiniteSetsExt

CONSTANTS
    Threads, Files,
    LooksOf,        \* the looks in each file; none if the extractor finds none
    MaxK,           \* words of a codebook that has enough descriptors
    KMeans(_, _),   \* the centroids k-means finds for the looks and a number k:
                    \* the same for the same ones, random_state is fixed
    None,
    MaxRestarts     \* bound: times the process dies

ASSUME FilesAssumption ==
    /\ IsFiniteSet(Files)
    /\ \A file \in Files : LooksOf[file] \subseteq Int /\ IsFiniteSet(LooksOf[file])
    /\ MaxK \in Nat \ {0} /\ MaxRestarts \in Nat

Looks == UNION {LooksOf[file] : file \in Files}

ASSUME KMeansAssumption ==
    \A looks \in (SUBSET Looks) \ {{}}, k \in 1 .. MaxK :
        KMeans(looks, k) \subseteq Int /\ Cardinality(KMeans(looks, k)) \in 1 .. k

VARIABLES
    uploaded,   \* files in the media directory
    codebook,   \* the KMeansCodebook, in memory
    fitted,     \* resolver._fitted
    disk,       \* the file of the codebook: its pages
    vectors,    \* the KNN index, in memory and saved by every insert
    call,       \* where each thread is in its call
    up,         \* the process has started
    restarts,   \* history: how often it died
    mishaps     \* history: what happened to the codebook, see below

vars == <<uploaded, codebook, fitted, disk, vectors, call, up, restarts, mishaps>>

-----------------------------------------------------------------------------
(* The codebook *)

\* Weights: the log of (n + 1) / (df + 1), so none for a word of all n files.
\* np.ones weighs all words alike.
Ones(k)        == [n |-> 1, df |-> [w \in 1 .. k |-> 0]]
Weighs(idf, w) == idf.df[w] < idf.n

\* A model for n centroids, none until it is trained; a codebook of k words.
Model(n) == [n |-> n, centroids |-> {}]
New(k)   == [k |-> k, model |-> Model(k), idf |-> Ones(k), fitted |-> FALSE]

\* Other lengths only while, or after, a training changes them.
OneLength(book) == book.model.n = book.k /\ DOMAIN book.idf.df = 1 .. book.k

Apart(look, other) == IF look < other THEN other - look ELSE look - other

\* The label of a look: the place of the nearest centroid.
WordOf(centroids, look) ==
    LET near == {c \in centroids : \A d \in centroids : Apart(look, c) <= Apart(look, d)}
    IN  Cardinality({c \in centroids : c <= Min(near)})

\* np.histogram counts the label after the last word as that word, and no later one.
Words(book, file) ==
    LET labels == {WordOf(book.model.centroids, x) : x \in LooksOf[file]}
    IN  {Min({w, book.k}) : w \in labels \cap 1 .. book.k + 1}

Unquantizable(book, file) ==
    LooksOf[file] # {} /\ (book.model.centroids = {} \/ DOMAIN book.idf.df # 1 .. book.k)

\* The vector of a file.
Quantize(book, file) ==
    [k |-> book.k, model |-> book.model, idf |-> book.idf,
     active |-> {w \in Words(book, file) : Weighs(book.idf, w)}]

\* The weights of k words.
Idf(k, histograms) ==
    [n  |-> Cardinality(DOMAIN histograms),
     df |-> [w \in 1 .. k |->
                Cardinality({file \in DOMAIN histograms : w \in histograms[file].active})]]

-----------------------------------------------------------------------------
(* Its file: page 0 says how many follow; the model is in page 1 and the   *)
(* weights are in page 2.  A page is None or the codebook it is part of.   *)

NoPages == [p \in 0 .. 2 |-> None]

\* What a codebook can be, its parts of whatever lengths
Lengths == 1 .. MaxK
Weights == UNION {[n : Nat, df : [1 .. k -> Nat]] : k \in Lengths}
Models  == {m \in [n : Lengths, centroids : SUBSET Int] : Cardinality(m.centroids) <= m.n}
Books   == [k : Lengths, model : Models, idf : Weights, fitted : BOOLEAN]

ASSUME NoneAssumption == None \notin Books

\* No page, or none after the first: a new codebook.
Empty(pages) == pages[0] = None \/ (pages[1] = None /\ pages[2] = None)

\* pickle.loads raises, unless the pages are of one codebook; of two as long as
\* each other, it may or may not.
Whole(pages)   == Empty(pages) \/ (pages[1] # None /\ pages[1] = pages[2])
Blended(pages) == None \notin {pages[1], pages[2]} /\ pages[1].k = pages[2].k

BadLoad(pages) ==  \* the weights are not restored
    IF Empty(pages) THEN New(MaxK) ELSE [pages[1] EXCEPT !.idf = Ones(pages[1].k)]
Load(pages) ==
    IF Empty(pages) THEN New(MaxK) ELSE [pages[1] EXCEPT !.idf = pages[2].idf]

-----------------------------------------------------------------------------
(* Calls *)

Idle == [at |-> "idle"]

Init ==
    /\ uploaded = {}
    /\ codebook = New(MaxK)
    /\ fitted = FALSE
    /\ disk = NoPages
    /\ vectors = <<>>
    /\ call = [t \in Threads |-> Idle]
    /\ up = TRUE
    /\ restarts = 0
    /\ mishaps = {}

\* The mishaps: a training that starts while another goes on or is over
\* ("together"); a save that raises; and a codebook that is lost, as the process
\* dies between its training and the end of its save, or after a save that raised.
InTraining == {t \in Threads : call[t].at \in {"shrink", "model", "ones", "train", "training",
                                               "histograms", "idf", "weigh", "flag"}}
InSave     == {t \in Threads : call[t].at \in {"flag", "save"}}

\* A call goes on, or back to the index with a failure, which inserts nothing
Go(t, new)     == call' = [call EXCEPT ![t] = new]
Proceed(t, at) == Go(t, [at |-> at, file |-> call[t].file])
Step(t, at)    == Go(t, [call[t] EXCEPT !.at = at])
Fail(t)        == Go(t, Idle)

Upload(file) ==
    /\ up
    /\ uploaded' = uploaded \cup {file}
    /\ UNCHANGED <<codebook, fitted, disk, vectors, call, up, restarts, mishaps>>

\* The index asks for the vector of a file.  Whether it is to insert it or to
\* search for it makes no difference before the vector is there.
Resolve(t, file) ==
    /\ up /\ call[t] = Idle
    /\ file \in uploaded
    /\ Go(t, [at |-> "check", file |-> file])
    /\ UNCHANGED <<uploaded, codebook, fitted, disk, vectors, up, restarts, mishaps>>

BadCheck(t) ==  \* the codebook is asked: its weights may still be missing
    /\ call[t].at = "check"
    /\ Proceed(t, IF codebook.fitted THEN "quantize" ELSE "corpus")
    /\ UNCHANGED <<uploaded, codebook, fitted, disk, vectors, up, restarts, mishaps>>
Check(t) ==
    /\ call[t].at = "check"
    /\ Proceed(t, IF fitted THEN "quantize" ELSE "corpus")
    /\ UNCHANGED <<uploaded, codebook, fitted, disk, vectors, up, restarts, mishaps>>

Corpus(t) ==
    /\ call[t].at = "corpus"
    /\ LET corpus == {file \in uploaded : LooksOf[file] # {}}
       IN  IF corpus = {} THEN Fail(t)
           ELSE Go(t, [at |-> "fit", file |-> call[t].file, corpus |-> corpus])
    /\ UNCHANGED <<uploaded, codebook, fitted, disk, vectors, up, restarts, mishaps>>

-----------------------------------------------------------------------------
(* A training: fit, the histograms of the corpus, compute_idf, and the save *)

Descriptors(corpus) == Cardinality(UNION {{file} \X LooksOf[file] : file \in corpus})

\* fit reads the number of words,
FitStart(t) ==
    /\ call[t].at = "fit"
    /\ Go(t, [at |-> "shrink", file |-> call[t].file, corpus |-> call[t].corpus,
              k |-> Min({codebook.k, Descriptors(call[t].corpus)})])
    /\ mishaps' = IF fitted \/ InTraining # {} THEN mishaps \cup {"together"} ELSE mishaps
    /\ UNCHANGED <<uploaded, codebook, fitted, disk, vectors, up, restarts>>

\* and if it is to change, replaces it, then the model, then the weights.
FitShrink(t) ==
    /\ call[t].at = "shrink"
    /\ codebook' = [codebook EXCEPT !.k = call[t].k]
    /\ Step(t, IF codebook.k = call[t].k THEN "train" ELSE "model")
    /\ UNCHANGED <<uploaded, fitted, disk, vectors, up, restarts, mishaps>>

\* A thread that is training the old model goes on, to no effect.
FitModel(t) ==
    /\ call[t].at = "model"
    /\ codebook' = [codebook EXCEPT !.model = Model(call[t].k)]
    /\ call' = [u \in Threads |-> IF u = t THEN [call[t] EXCEPT !.at = "ones"]
                                  ELSE IF call[u].at = "training" THEN [call[u] EXCEPT !.mine = FALSE]
                                  ELSE call[u]]
    /\ UNCHANGED <<uploaded, fitted, disk, vectors, up, restarts, mishaps>>

BadFitOnes(t) ==  \* the old weights stay
    /\ call[t].at = "ones"
    /\ Step(t, "train")
    /\ UNCHANGED <<uploaded, codebook, fitted, disk, vectors, up, restarts, mishaps>>
FitOnes(t) ==
    /\ call[t].at = "ones"
    /\ codebook' = [codebook EXCEPT !.idf = Ones(call[t].k)]
    /\ Step(t, "train")
    /\ UNCHANGED <<uploaded, fitted, disk, vectors, up, restarts, mishaps>>

\* k-means refuses to find more centroids than there are descriptors.
FitTrain(t) ==
    /\ call[t].at = "train"
    /\ IF codebook.model.n > Descriptors(call[t].corpus) THEN Fail(t)
       ELSE Go(t, [at |-> "training", file |-> call[t].file, corpus |-> call[t].corpus, mine |-> TRUE])
    /\ UNCHANGED <<uploaded, codebook, fitted, disk, vectors, up, restarts, mishaps>>

\* Nobody who reads the codebook's own flag can find it unset here: no step of its own.
FitEnd(t) ==
    /\ call[t].at = "training"
    /\ LET looks == UNION {LooksOf[file] : file \in call[t].corpus}
       IN  codebook' = [codebook EXCEPT
                          !.fitted = TRUE,
                          !.model.centroids = IF call[t].mine THEN KMeans(looks, codebook.model.n) ELSE @]
    /\ Go(t, [at |-> "histograms", file |-> call[t].file, corpus |-> call[t].corpus])
    /\ UNCHANGED <<uploaded, fitted, disk, vectors, up, restarts, mishaps>>

\* Vectors of the corpus with the weights there are.
Histograms(t) ==
    /\ call[t].at = "histograms"
    /\ IF \E file \in call[t].corpus : Unquantizable(codebook, file) THEN Fail(t)
       ELSE Go(t, [at |-> "idf", file |-> call[t].file,
                   histograms |-> [file \in call[t].corpus |-> Quantize(codebook, file)]])
    /\ UNCHANGED <<uploaded, codebook, fitted, disk, vectors, up, restarts, mishaps>>

\* compute_idf reads the number of words; vectors of another length cannot be
\* added up,
ComputeIdf(t) ==
    /\ call[t].at = "idf"
    /\ LET histograms == call[t].histograms
       IN  IF \E file \in DOMAIN histograms : histograms[file].k # codebook.k THEN Fail(t)
           ELSE Go(t, [at |-> "weigh", file |-> call[t].file, idf |-> Idf(codebook.k, histograms)])
    /\ UNCHANGED <<uploaded, codebook, fitted, disk, vectors, up, restarts, mishaps>>

\* and then replaces the weights, by now perhaps of a codebook of other words.
SetIdf(t) ==
    /\ call[t].at = "weigh"
    /\ codebook' = [codebook EXCEPT !.idf = call[t].idf]
    /\ Proceed(t, "flag")
    /\ UNCHANGED <<uploaded, fitted, disk, vectors, up, restarts, mishaps>>

\* Trained, for every thread from here on; and the state as it is now, to save.
Flag(t) ==
    /\ call[t].at = "flag"
    /\ fitted' = TRUE
    /\ Go(t, [at |-> "save", file |-> call[t].file, state |-> codebook, page |-> 0])
    /\ UNCHANGED <<uploaded, codebook, disk, vectors, up, restarts, mishaps>>

SavePage(t) ==
    /\ call[t].at = "save"
    /\ LET p == call[t].page
       IN  /\ disk' = [disk EXCEPT ![p] = call[t].state]
           /\ IF p = 2 THEN Proceed(t, "quantize") ELSE Go(t, [call[t] EXCEPT !.page = p + 1])
    /\ UNCHANGED <<uploaded, codebook, fitted, vectors, up, restarts, mishaps>>

\* The storage raises; the codebook stays in use.
SaveRaises(t) ==
    /\ call[t].at = "save"
    /\ Fail(t)
    /\ mishaps' = mishaps \cup {"raised"}
    /\ UNCHANGED <<uploaded, codebook, fitted, disk, vectors, up, restarts>>

-----------------------------------------------------------------------------

MakeVector(t) ==
    /\ call[t].at = "quantize"
    /\ IF Unquantizable(codebook, call[t].file) THEN Fail(t)
       ELSE Go(t, [at |-> "use", file |-> call[t].file,
                   vector |-> Quantize(codebook, call[t].file)])
    /\ UNCHANGED <<uploaded, codebook, fitted, disk, vectors, up, restarts, mishaps>>

InsertVector(t) ==
    /\ call[t].at = "use"
    /\ vectors' = [file \in DOMAIN vectors \cup {call[t].file} |->
                     IF file = call[t].file THEN call[t].vector ELSE vectors[file]]
    /\ Go(t, Idle)
    /\ UNCHANGED <<uploaded, codebook, fitted, disk, up, restarts, mishaps>>

SearchVector(t) ==
    /\ call[t].at = "use"
    /\ Go(t, Idle)
    /\ UNCHANGED <<uploaded, codebook, fitted, disk, vectors, up, restarts, mishaps>>

\* The process dies and is started again.  It does not start with a codebook
\* it cannot read, however often it is tried.
Restart ==
    /\ restarts' = IF up THEN restarts + 1 ELSE restarts
    /\ restarts' <= MaxRestarts
    /\ up' \in BOOLEAN /\ (Whole(disk) => up') /\ (up' => Whole(disk) \/ Blended(disk))
    /\ codebook' = IF up' THEN Load(disk) ELSE New(MaxK)
    /\ fitted' = codebook'.fitted
    /\ call' = [t \in Threads |-> Idle]
    /\ mishaps' = IF InSave # {} \/ "raised" \in mishaps THEN mishaps \cup {"lost"} ELSE mishaps
    /\ UNCHANGED <<uploaded, disk, vectors>>

Next ==
    \/ \E file \in Files : Upload(file)
    \/ \E t \in Threads :
         \/ \E file \in Files : Resolve(t, file)
         \/ Check(t) \/ Corpus(t)
         \/ FitStart(t) \/ FitShrink(t) \/ FitModel(t) \/ FitOnes(t) \/ FitTrain(t) \/ FitEnd(t)
         \/ Histograms(t) \/ ComputeIdf(t) \/ SetIdf(t) \/ Flag(t) \/ SavePage(t) \/ SaveRaises(t)
         \/ MakeVector(t) \/ InsertVector(t) \/ SearchVector(t)
    \/ Restart

Spec == Init /\ [][Next]_vars

-----------------------------------------------------------------------------
(* Properties *)

\* Every variable keeps its type; and there are as many centroids to find and
\* weights as words, except between the three assignments that change them, or
\* once two threads trained.
TypeOK ==
    /\ uploaded \subseteq Files
    /\ codebook.k \in Lengths /\ codebook.model.n \in Lengths
    /\ \/ OneLength(codebook) \/ "together" \in mishaps
       \/ \E t \in Threads : call[t].at \in {"model", "ones"}
    /\ Cardinality(codebook.model.centroids) <= codebook.model.n
    /\ {fitted, up, codebook.fitted} \subseteq BOOLEAN
    /\ DOMAIN disk = 0 .. 2
    /\ DOMAIN vectors \subseteq uploaded
    /\ \A t \in Threads : call[t].at \in {"idle", "check", "corpus", "fit", "shrink", "model", "ones",
                                          "train", "training", "histograms", "idf", "weigh", "flag",
                                          "save", "quantize", "use"}
    /\ restarts \in 0 .. MaxRestarts
    /\ mishaps \subseteq {"together", "raised", "lost"}

\* Whatever is uploaded, asked and restarted, all the vectors of the index are
\* those the codebook in use makes of their files (README.md, section of the
\* codebooks: one that has a state is not trained again), as long as no two
\* threads trained it and it was not lost; that a save raised is no matter until
\* then.  After either they may be of codebooks that differ, in length even,
\* which makes every search of the index raise.
OneCodebook ==
    up /\ mishaps \subseteq {"raised"} =>
        \A file \in DOMAIN vectors :
            ~Unquantizable(codebook, file) /\ vectors[file] = Quantize(codebook, file)

\* If no save raised either, the process can start, and what a restart would
\* load, except in the middle of a save, is the codebook in use.
SavedCodebook ==
    mishaps = {} =>
        /\ up
        /\ InSave = {} => Whole(disk) /\ (fitted => Load(disk) = codebook)
        /\ ~fitted /\ InSave = {} => disk = NoPages
=============================================================================
