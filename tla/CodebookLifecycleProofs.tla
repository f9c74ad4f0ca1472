---------------------- MODULE CodebookLifecycleProofs ----------------------
(***************************************************************************)
(* What holds of CodebookLifecycle for any threads, files, looks and       *)
(* centroids: the invariant IInv, its preservation, and the properties the *)
(* run checks on a small instance.                                         *)
(***************************************************************************)
EXTENDS CodebookLifecycle, DataLemmas, TLAPS

Ats      == {"idle", "check", "corpus", "fit", "shrink", "model", "ones", "train", "training",
             "histograms", "idf", "weigh", "flag", "save", "quantize", "use"}
Training == {"shrink", "model", "ones", "train", "training", "histograms", "idf", "weigh", "flag"}
Resizing == {"model", "ones"}
Mishaps  == {"together", "raised", "lost"}

\* What a training may be of
Corpora == {corpus \in (SUBSET Files) \ {{}} : \A file \in corpus : LooksOf[file] # {}}

\* The fields a call has where it is; files are those uploaded
CallTyped(c, files) ==
    /\ c.at \in Ats
    /\ c.at # "idle" => c.file \in files
    /\ c.at \in {"fit", "histograms"} => c.corpus \in Corpora
    /\ c.at \in {"shrink", "model", "ones", "train"} =>
         c \in [at : Ats, file : files, corpus : Corpora, k : Lengths]
    /\ c.at = "training" => c \in [at : Ats, file : files, corpus : Corpora, mine : BOOLEAN]
    /\ c.at = "idf" => DOMAIN c.histograms \subseteq Files
    /\ c.at = "weigh" => c.idf \in Weights
    /\ c.at = "save" => c \in [at : Ats, file : files, state : Books, page : 0 .. 2]

\* The types of the variables, whatever happens
Typed ==
    /\ uploaded \subseteq Files
    /\ codebook \in Books
    /\ fitted \in BOOLEAN /\ up \in BOOLEAN
    /\ disk \in [0 .. 2 -> Books \cup {None}]
    /\ DOMAIN vectors \subseteq uploaded
    /\ call = [t \in Threads |-> call[t]]
    /\ \A t \in Threads : CallTyped(call[t], uploaded)
    /\ restarts \in 0 .. MaxRestarts
    /\ mishaps \subseteq Mishaps

\* The resolver says so only of a codebook that says so itself
Trained ==
    /\ fitted => codebook.fitted
    /\ \A t \in Threads : call[t].at \in {"histograms", "idf", "weigh", "flag"} => codebook.fitted

\* What two trainings put an end to: training is exclusive, so that the lengths
\* of a codebook differ only between its three assignments
Lone ==
    /\ \A t, u \in InTraining : t = u
    /\ InTraining # {} => ~fitted
    /\ \A t \in Threads :
         /\ call[t].at \in Resizing => codebook.k = call[t].k
         /\ call[t].at = "ones" => codebook.model.n = call[t].k
         /\ call[t].at = "weigh" => DOMAIN call[t].idf.df = 1 .. codebook.k
         /\ call[t].at = "save" => OneLength(call[t].state)
    /\ (\A t \in Threads : call[t].at \notin Resizing) => OneLength(codebook)
    /\ \A p \in 0 .. 2 : disk[p] # None => OneLength(disk[p])

InSaving == {t \in Threads : call[t].at = "save"}

Fits(vector, file, book) == ~Unquantizable(book, file) /\ vector = Quantize(book, file)

\* And what losing the codebook does: training is over when a vector is made, and
\* what is being written is what is in memory
Memory ==
    /\ up
    /\ ~fitted =>
         /\ DOMAIN vectors = {}
         /\ \A t \in Threads : call[t].at \notin {"save", "quantize", "use"}
    /\ \A file \in DOMAIN vectors : Fits(vectors[file], file, codebook)
    /\ \A t \in Threads : call[t].at = "use" => Fits(call[t].vector, call[t].file, codebook)
    /\ \A t, u \in InSaving : t = u
    /\ \A t \in InSaving : call[t].state = codebook

\* And a save that raises: the file is written page by page, and afterwards
\* holds what is in memory
OnDisk ==
    /\ ~fitted => disk = NoPages
    /\ \A t \in InSaving : \A p \in 0 .. 2 : disk[p] = IF p < call[t].page THEN codebook ELSE None
    /\ fitted /\ InSaving = {} => \A p \in 0 .. 2 : disk[p] = codebook

\* The inductive invariant
IInv ==
    /\ Typed /\ Trained
    /\ "together" \notin mishaps => Lone
    /\ mishaps \subseteq {"raised"} => Memory
    /\ mishaps = {} => OnDisk

-----------------------------------------------------------------------------
(* Codebooks and their pages *)

LEMMA LengthsFacts == MaxK \in Lengths /\ Lengths \subseteq Nat
BY FilesAssumption DEF Lengths

\* Models and weights before any training
LEMMA NewParts == \A k \in Lengths : Model(k) \in Models /\ Ones(k) \in Weights
<1> SUFFICES ASSUME NEW k \in Lengths PROVE Model(k) \in Models /\ Ones(k) \in Weights
  OBVIOUS
<1>1. Cardinality({}) = 0 /\ k \in Nat
  BY FS_EmptySet, LengthsFacts
<1>2. Model(k) \in Models
  BY <1>1 DEF Model, Models
<1>3. Ones(k) \in [n : Nat, df : [1 .. k -> Nat]]
  BY DEF Ones
<1> QED
  BY <1>2, <1>3 DEF Weights

LEMMA NewBook == New(MaxK) \in Books /\ New(MaxK).fitted = FALSE /\ OneLength(New(MaxK))
<1>1. New(MaxK) \in Books /\ New(MaxK).fitted = FALSE
  BY LengthsFacts, NewParts DEF New, Books
<1>2. OneLength(New(MaxK))
  BY DEF OneLength, New, Model, Ones
<1> QED
  BY <1>1, <1>2

\* A codebook with other words, another model, or other weights
LEMMA BookExcept ==
  ASSUME NEW book \in Books
  PROVE  /\ \A k \in Lengths :
              /\ [book EXCEPT !.k = k] \in Books
              /\ [book EXCEPT !.k = k] = [k |-> k, model |-> book.model, idf |-> book.idf,
                                          fitted |-> book.fitted]
         /\ \A model \in Models :
              /\ [book EXCEPT !.model = model] \in Books
              /\ [book EXCEPT !.model = model] = [k |-> book.k, model |-> model, idf |-> book.idf,
                                                  fitted |-> book.fitted]
         /\ \A idf \in Weights :
              /\ [book EXCEPT !.idf = idf] \in Books
              /\ [book EXCEPT !.idf = idf] = [k |-> book.k, model |-> book.model, idf |-> idf,
                                              fitted |-> book.fitted]
BY DEF Books

\* The whole file of a codebook gives it back
LEMMA LoadSaved ==
  ASSUME NEW book \in Books, NEW pages, \A p \in 0 .. 2 : pages[p] = book
  PROVE  Load(pages) = book /\ Whole(pages)
<1>1. pages[0] = book /\ pages[1] = book /\ pages[2] = book
  OBVIOUS
<1>2. book # None
  BY NoneAssumption
<1>3. ~Empty(pages)
  BY <1>1, <1>2 DEF Empty
<1>4. [book EXCEPT !.idf = book.idf] = book
  BY DEF Books
<1> QED
  BY <1>1, <1>2, <1>3, <1>4 DEF Load, Whole

\* A file that can be read, complete or not, gives a codebook, of one length if
\* its pages are of such codebooks
LEMMA LoadTyped ==
  ASSUME disk \in [0 .. 2 -> Books \cup {None}], Whole(disk) \/ Blended(disk)
  PROVE  /\ Load(disk) \in Books
         /\ (\A p \in 0 .. 2 : disk[p] # None => OneLength(disk[p])) => OneLength(Load(disk))
<1>1. CASE Empty(disk)
  BY <1>1, NewBook DEF Load
<1>2. CASE ~Empty(disk)
  <2>1. 1 \in 0 .. 2 /\ 2 \in 0 .. 2
    OBVIOUS
  <2>2. disk[1] # None /\ disk[2] # None /\ disk[1].k = disk[2].k
    BY <1>2 DEF Whole, Blended
  <2>3. disk[1] \in Books /\ disk[2] \in Books
    BY <2>1, <2>2
  <2>4. Load(disk) = [disk[1] EXCEPT !.idf = disk[2].idf]
    BY <1>2 DEF Load
  <2>5. disk[2].idf \in Weights
    BY <2>3 DEF Books
  <2>6. Load(disk) \in Books /\ Load(disk).k = disk[1].k /\ Load(disk).model = disk[1].model
        /\ Load(disk).idf = disk[2].idf
    BY <2>3, <2>4, <2>5 DEF Books
  <2> QED
    BY <2>1, <2>2, <2>6 DEF OneLength
<1> QED
  BY <1>1, <1>2

\* A file without pages gives a new codebook
LEMMA NothingSaved == Whole(NoPages) /\ Load(NoPages) = New(MaxK)
BY DEF NoPages, Empty, Whole, Load
-----------------------------------------------------------------------------
(* The steps of a training *)

\* A corpus has descriptors to train with
LEMMA DescriptorsFacts ==
  ASSUME NEW corpus \in Corpora
  PROVE  Descriptors(corpus) \in Nat \ {0}
<1> DEFINE Pairs == {{file} \X LooksOf[file] : file \in corpus}
<1>0. corpus \subseteq Files /\ corpus # {} /\ \A file \in corpus : LooksOf[file] # {}
  BY DEF Corpora
<1>1. IsFiniteSet(corpus)
  BY <1>0, FilesAssumption, FS_Subset
<1>2. IsFiniteSet(Pairs)
  <2> DEFINE f == [file \in corpus |-> {file} \X LooksOf[file]]
  <2>1. f \in Surjection(corpus, Pairs)
    BY DEF Surjection
  <2> QED
    BY <1>1, <2>1, FS_Surjection
<1>3. \A x \in Pairs : IsFiniteSet(x)
  <2>1. SUFFICES ASSUME NEW file \in corpus PROVE IsFiniteSet({file} \X LooksOf[file])
    OBVIOUS
  <2>2. IsFiniteSet({file}) /\ IsFiniteSet(LooksOf[file])
    BY <1>0, FilesAssumption, FS_Singleton
  <2> QED
    BY <2>2, FS_Product
<1>4. IsFiniteSet(UNION Pairs)
  BY <1>2, <1>3, FS_UNION
<1>5. UNION Pairs # {}
  <2>1. PICK file \in corpus : TRUE
    BY <1>0
  <2>2. PICK look \in LooksOf[file] : TRUE
    BY <1>0
  <2>3. <<file, look>> \in {file} \X LooksOf[file] /\ {file} \X LooksOf[file] \in Pairs
    OBVIOUS
  <2> QED
    BY <2>3
<1> QED
  BY <1>4, <1>5, FS_CardinalityType, FS_EmptySet DEF Descriptors

\* The words fit asks for: those there are, or as many as there are descriptors
LEMMA FitStartFacts ==
  ASSUME Typed, NEW t \in Threads, call[t].at = "fit"
  PROVE  Min({codebook.k, Descriptors(call[t].corpus)}) \in Lengths
<1> DEFINE total == Descriptors(call[t].corpus)
           k     == Min({codebook.k, total})
<1>1. CallTyped(call[t], uploaded) /\ codebook \in Books
  BY DEF Typed
<1>2. total \in Nat \ {0}
  BY <1>1, DescriptorsFacts DEF CallTyped
<1>3. codebook.k \in 1 .. MaxK /\ codebook.k \in Nat
  BY <1>1, LengthsFacts DEF Books, Lengths
<1> HIDE DEF total
<1>4. k \in {codebook.k, total} /\ k <= codebook.k
  <2>1. {codebook.k, total} \in SUBSET Nat /\ {codebook.k, total} # {}
    BY <1>2, <1>3
  <2> QED
    BY <2>1, MinOfNaturals
<1>5. k \in 1 .. MaxK
  BY <1>2, <1>3, <1>4, FilesAssumption
<1> QED
  BY <1>5 DEF total, Lengths

\* The model of another thread is left as it is; one's own gets centroids
LEMMA FitEndFacts ==
  ASSUME Typed, NEW t \in Threads, FitEnd(t)
  PROVE  /\ codebook' \in Books /\ codebook'.fitted
         /\ codebook'.k = codebook.k /\ codebook'.idf = codebook.idf
         /\ codebook'.model.n = codebook.model.n
<1> DEFINE looks == UNION {LooksOf[file] : file \in call[t].corpus}
           n     == codebook.model.n
           new   == IF call[t].mine THEN KMeans(looks, n) ELSE codebook.model.centroids
<1>1. CallTyped(call[t], uploaded) /\ call[t].at = "training" /\ codebook \in Books
  BY DEF Typed, FitEnd
<1>2. codebook.model \in Models /\ codebook.model \in [n : Lengths, centroids : SUBSET Int]
      /\ Cardinality(codebook.model.centroids) <= n /\ n \in 1 .. MaxK
  BY <1>1 DEF Books, Models, Lengths
<1>3. looks \in (SUBSET Looks) \ {{}}
  <2>1. call[t].corpus \in Corpora
    BY <1>1 DEF CallTyped
  <2>2. call[t].corpus \subseteq Files /\ call[t].corpus # {}
        /\ \A file \in call[t].corpus : LooksOf[file] # {}
    BY <2>1 DEF Corpora
  <2> QED
    BY <2>2 DEF Looks
<1>4. new \in SUBSET Int /\ Cardinality(new) <= n
  <2>1. KMeans(looks, n) \subseteq Int /\ Cardinality(KMeans(looks, n)) \in 1 .. n
    BY <1>2, <1>3, KMeansAssumption
  <2> HIDE DEF looks
  <2> QED
    BY <1>2, <2>1
<1>5. codebook' = [codebook EXCEPT !.fitted = TRUE, !.model.centroids = new]
  BY DEF FitEnd
<1> HIDE DEF new
<1> DEFINE model == [codebook.model EXCEPT !.centroids = new]
<1>6. model = [n |-> n, centroids |-> new] /\ model \in Models
  BY <1>2, <1>4 DEF Models
<1>7. codebook' = [k |-> codebook.k, model |-> model, idf |-> codebook.idf, fitted |-> TRUE]
  <2>1. codebook' = [[codebook EXCEPT !.fitted = TRUE] EXCEPT !.model = model]
    BY <1>1, <1>5 DEF Books
  <2> HIDE DEF model
  <2> QED
    BY <1>1, <2>1 DEF Books
<1> HIDE DEF model
<1> QED
  BY <1>1, <1>6, <1>7 DEF Books

\* Weights are counts of files
LEMMA IdfFacts ==
  ASSUME NEW k \in Lengths, NEW histograms, DOMAIN histograms \subseteq Files
  PROVE  Idf(k, histograms) \in Weights /\ DOMAIN Idf(k, histograms).df = 1 .. k
<1>1. \A S : S \subseteq Files => Cardinality(S) \in Nat
  BY FilesAssumption, FS_Subset, FS_CardinalityType
<1>2. Cardinality(DOMAIN histograms) \in Nat
  BY <1>1
<1>3. ASSUME NEW w \in 1 .. k
      PROVE  Cardinality({file \in DOMAIN histograms : w \in histograms[file].active}) \in Nat
  BY <1>1
<1>4. Idf(k, histograms) \in [n : Nat, df : [1 .. k -> Nat]]
  BY <1>2, <1>3 DEF Idf
<1> QED
  BY <1>4 DEF Weights, Idf

-----------------------------------------------------------------------------
(* The calls *)

\* One call moves, the others stay
LEMMA GoFacts ==
  ASSUME Typed, NEW t \in Threads, NEW new, Go(t, new)
  PROVE  /\ call'[t] = new /\ \A u \in Threads : u # t => call'[u] = call[u]
         /\ call' = [u \in Threads |-> call'[u]]
<1>1. call = [u \in Threads |-> call[u]] /\ call' = [call EXCEPT ![t] = new]
  BY DEF Typed, Go
<1> QED
  BY <1>1

\* A call that goes on with the fields of its new place leaves the calls typed
LEMMA GoTyped ==
  ASSUME Typed, NEW t \in Threads, NEW new, Go(t, new), CallTyped(new, uploaded), uploaded' = uploaded
  PROVE  call' = [u \in Threads |-> call'[u]] /\ \A u \in Threads : CallTyped(call'[u], uploaded')
BY GoFacts DEF Typed

\* A call whose fields are those of its place, and where it may go with them
LEMMA Moves ==
  ASSUME Typed, NEW t \in Threads
  PROVE  /\ CallTyped(Idle, uploaded) /\ Idle.at = "idle"
         /\ \A at \in {"check", "corpus", "flag", "quantize"} : call[t].at # "idle" =>
              LET new == [at |-> at, file |-> call[t].file] IN CallTyped(new, uploaded) /\ new.at = at
         /\ \A at \in {"model", "ones", "train"} : call[t].at \in {"shrink", "model", "ones"} =>
              LET new == [call[t] EXCEPT !.at = at]
              IN  CallTyped(new, uploaded) /\ new.at = at /\ new.k = call[t].k
<1>1. CallTyped(call[t], uploaded)
  BY DEF Typed
<1>2. CallTyped(Idle, uploaded) /\ Idle.at = "idle"
  BY DEF CallTyped, Idle, Ats
<1>3. ASSUME NEW at \in {"check", "corpus", "flag", "quantize"}, call[t].at # "idle"
      PROVE  LET new == [at |-> at, file |-> call[t].file] IN CallTyped(new, uploaded) /\ new.at = at
  <2> DEFINE new == [at |-> at, file |-> call[t].file]
  <2>1. new.at = at /\ new.file = call[t].file
    OBVIOUS
  <2> HIDE DEF new
  <2>2. CallTyped(new, uploaded)
    BY <1>1, <1>3, <2>1 DEF CallTyped, Ats
  <2> QED
    BY <2>1, <2>2 DEF new
<1>4. ASSUME NEW at \in {"model", "ones", "train"}, call[t].at \in {"shrink", "model", "ones"}
      PROVE  LET new == [call[t] EXCEPT !.at = at]
             IN  CallTyped(new, uploaded) /\ new.at = at /\ new.k = call[t].k
  <2> DEFINE new == [call[t] EXCEPT !.at = at]
  <2>1. call[t] \in [at : Ats, file : uploaded, corpus : Corpora, k : Lengths]
    BY <1>1, <1>4 DEF CallTyped
  <2>2. new.at = at /\ new.k = call[t].k /\ new.file \in uploaded
        /\ new \in [at : Ats, file : uploaded, corpus : Corpora, k : Lengths]
    BY <2>1 DEF Ats
  <2> HIDE DEF new
  <2>3. CallTyped(new, uploaded)
    BY <2>2 DEF CallTyped, Ats
  <2> QED
    BY <2>2, <2>3 DEF new
<1> QED
  BY <1>2, <1>3, <1>4

\* A new model takes the place of the old one, also for those who train that
LEMMA FitModelFacts ==
  ASSUME Typed, NEW t \in Threads, FitModel(t)
  PROVE  /\ call[t].at = "model" /\ call[t].k \in Lengths
         /\ call'[t].at = "ones" /\ call'[t].k = call[t].k /\ CallTyped(call'[t], uploaded)
         /\ \A u \in Threads : u # t =>
              /\ call'[u].at = call[u].at /\ CallTyped(call'[u], uploaded)
              /\ call[u].at # "training" => call'[u] = call[u]
         /\ call' = [u \in Threads |-> call'[u]]
         /\ Model(call[t].k) \in Models /\ codebook' = [codebook EXCEPT !.model = Model(call[t].k)]
<1>1. call[t].at = "model" /\ CallTyped(call[t], uploaded)
  BY DEF FitModel, Typed
<1>2. call[t].k \in Lengths
  BY <1>1 DEF CallTyped
<1>3. Model(call[t].k) \in Models /\ codebook' = [codebook EXCEPT !.model = Model(call[t].k)]
  BY <1>2, NewParts DEF FitModel
<1>4. call' = [u \in Threads |-> IF u = t THEN [call[t] EXCEPT !.at = "ones"]
                                 ELSE IF call[u].at = "training" THEN [call[u] EXCEPT !.mine = FALSE]
                                 ELSE call[u]]
  BY DEF FitModel
<1>5. call' = [u \in Threads |-> call'[u]]
  BY <1>4
<1>6. call'[t] = [call[t] EXCEPT !.at = "ones"]
  BY <1>4
<1>7. call'[t].at = "ones" /\ call'[t].k = call[t].k /\ CallTyped(call'[t], uploaded)
  <2>1. call[t] \in [at : Ats, file : uploaded, corpus : Corpora, k : Lengths]
    BY <1>1 DEF CallTyped
  <2>2. /\ call'[t] \in [at : Ats, file : uploaded, corpus : Corpora, k : Lengths]
        /\ call'[t].at = "ones" /\ call'[t].k = call[t].k /\ call'[t].file \in uploaded
    BY <1>6, <2>1 DEF Ats
  <2> QED
    BY <2>2 DEF CallTyped, Ats
<1>8. ASSUME NEW u \in Threads, u # t
      PROVE  /\ call'[u].at = call[u].at /\ CallTyped(call'[u], uploaded)
             /\ call[u].at # "training" => call'[u] = call[u]
  <2>1. CallTyped(call[u], uploaded)
    BY DEF Typed
  <2>2. CASE call[u].at # "training"
    <3>1. call'[u] = call[u]
      BY <1>4, <1>8, <2>2
    <3> QED
      BY <2>1, <3>1
  <2>3. CASE call[u].at = "training"
    <3>1. call'[u] = [call[u] EXCEPT !.mine = FALSE]
      BY <1>4, <1>8, <2>3
    <3>2. call[u] \in [at : Ats, file : uploaded, corpus : Corpora, mine : BOOLEAN]
      BY <2>1, <2>3 DEF CallTyped
    <3>3. call'[u] \in [at : Ats, file : uploaded, corpus : Corpora, mine : BOOLEAN]
          /\ call'[u].at = call[u].at
      BY <3>1, <3>2
    <3>4. CallTyped(call'[u], uploaded)
      BY <2>3, <3>3 DEF CallTyped, Ats
    <3> QED
      BY <2>3, <3>3, <3>4
  <2> QED
    BY <2>2, <2>3
<1> QED
  BY <1>1, <1>2, <1>3, <1>5, <1>7, <1>8

-----------------------------------------------------------------------------
(* The invariant, part by part *)

\* A process that starts without a file satisfies the invariant
LEMMA InitIInv == Init => IInv
<1> SUFFICES ASSUME Init PROVE IInv
  OBVIOUS
<1>1. \A t \in Threads : call[t] = Idle /\ call[t].at = "idle"
  BY DEF Init, Idle
<1>2. Typed
  <2>1. disk \in [0 .. 2 -> Books \cup {None}]
    BY DEF Init, NoPages
  <2>2. \A t \in Threads : CallTyped(call[t], uploaded)
    BY <1>1 DEF CallTyped, Ats
  <2>3. DOMAIN vectors = {} /\ restarts \in 0 .. MaxRestarts
    BY FilesAssumption DEF Init
  <2> QED
    BY <2>1, <2>2, <2>3, NewBook DEF Init, Typed
<1>3. Trained
  BY <1>1 DEF Init, Trained
<1>4. InTraining = {} /\ InSaving = {}
  BY <1>1 DEF InTraining, InSaving
<1>5. disk = NoPages /\ \A p \in 0 .. 2 : disk[p] = None
  BY DEF Init, NoPages
<1>6. Lone
  BY <1>1, <1>4, <1>5, NewBook DEF Init, Lone, Resizing
<1>7. Memory /\ OnDisk
  BY <1>1, <1>4, <1>5 DEF Init, Memory, OnDisk
<1> QED
  BY <1>2, <1>3, <1>6, <1>7 DEF IInv

\* The types, whatever happens to the codebook: every step of a call and of its
\* save, and the restart with the file as it is
LEMMA NextTyped == Typed /\ [Next]_vars => Typed'
<1> SUFFICES ASSUME Typed, [Next]_vars PROVE Typed'
  OBVIOUS
<1> DEFINE Calls == call = [t \in Threads |-> call[t]] /\ \A t \in Threads : CallTyped(call[t], uploaded)
<1>0. codebook \in Books /\ uploaded \subseteq Files
  BY DEF Typed
<1>1. ASSUME NEW file \in Files, Upload(file) PROVE Typed'
  <2>1. ASSUME NEW t \in Threads PROVE CallTyped(call[t], uploaded')
    <3>1. CallTyped(call[t], uploaded) /\ uploaded \subseteq uploaded'
      BY <1>1 DEF Upload, Typed
    <3> QED
      BY <3>1 DEF CallTyped
  <2> QED
    BY <1>1, <2>1 DEF Upload, Typed
<1>2. ASSUME NEW t \in Threads, NEW file \in Files, Resolve(t, file) PROVE Typed'
  <2>1. Calls'
    BY <1>2, GoTyped DEF Resolve, CallTyped, Ats
  <2> QED
    BY <1>2, <2>1 DEF Resolve, Typed
<1>b. ASSUME NEW t \in Threads, call[t].at # "idle", uploaded' = uploaded,
             NEW at \in {"quantize", "corpus", "flag"}, Proceed(t, at)
      PROVE  Calls'
  BY <1>b, Moves, GoTyped DEF Proceed
<1>c. ASSUME NEW t \in Threads, uploaded' = uploaded, Fail(t) \/ Go(t, Idle) PROVE Calls'
  BY <1>c, Moves, GoTyped DEF Fail
<1>d. ASSUME NEW t \in Threads, call[t].at \in {"shrink", "model", "ones"}, uploaded' = uploaded,
             NEW at \in {"model", "ones", "train"}, Step(t, at)
      PROVE  Calls'
  BY <1>d, Moves, GoTyped DEF Step
<1>3. ASSUME NEW t \in Threads, Check(t) PROVE Typed'
  <2>1. Calls'
    <3>1. CASE fitted
      BY <1>3, <1>b, <3>1 DEF Check
    <3>2. CASE ~fitted
      BY <1>3, <1>b, <3>2 DEF Check
    <3> QED
      BY <3>1, <3>2
  <2> QED
    BY <1>3, <2>1 DEF Check, Typed
<1>4. ASSUME NEW t \in Threads, Corpus(t) PROVE Typed'
  <2> DEFINE corpus == {file \in uploaded : LooksOf[file] # {}}
             new == [at |-> "fit", file |-> call[t].file, corpus |-> corpus]
  <2>1. Calls'
    <3>1. CASE corpus = {}
      BY <1>4, <1>c, <3>1 DEF Corpus
    <3>2. CASE corpus # {}
      <4>1. new.at = "fit" /\ new.file = call[t].file /\ new.corpus = corpus
        OBVIOUS
      <4>2. Go(t, new) /\ call[t].at = "corpus"
        BY <1>4, <3>2 DEF Corpus
      <4>3. CallTyped(call[t], uploaded) /\ corpus \in Corpora
        BY <1>0, <3>2 DEF Typed, Corpora
      <4> HIDE DEF new, corpus
      <4>4. CallTyped(new, uploaded)
        BY <4>1, <4>2, <4>3 DEF CallTyped, Ats
      <4> QED
        BY <1>4, <4>2, <4>4, GoTyped DEF Corpus
    <3> QED
      BY <3>1, <3>2
  <2> QED
    BY <1>4, <2>1 DEF Corpus, Typed
<1>5. ASSUME NEW t \in Threads, FitStart(t) PROVE Typed'
  <2> DEFINE k   == Min({codebook.k, Descriptors(call[t].corpus)})
             new == [at |-> "shrink", file |-> call[t].file, corpus |-> call[t].corpus, k |-> k]
  <2>1. call[t].at = "fit" /\ CallTyped(call[t], uploaded) /\ Go(t, new)
    BY <1>5 DEF Typed, FitStart
  <2>2. k \in Lengths /\ call[t].file \in uploaded /\ call[t].corpus \in Corpora
    BY <2>1, FitStartFacts DEF CallTyped
  <2> HIDE DEF k
  <2>3. new.at = "shrink" /\ new.file \in uploaded
        /\ new \in [at : Ats, file : uploaded, corpus : Corpora, k : Lengths]
    BY <2>2 DEF Ats
  <2> HIDE DEF new
  <2>4. CallTyped(new, uploaded)
    BY <2>3 DEF CallTyped, Ats
  <2>5. Calls'
    BY <1>5, <2>1, <2>4, GoTyped DEF FitStart
  <2>6. mishaps' \subseteq Mishaps
    BY <1>5 DEF FitStart, Typed, Mishaps
  <2> QED
    BY <1>5, <2>5, <2>6 DEF FitStart, Typed
<1>6. ASSUME NEW t \in Threads, FitShrink(t) PROVE Typed'
  <2>1. call[t].at = "shrink" /\ CallTyped(call[t], uploaded)
    BY <1>6 DEF Typed, FitShrink
  <2>2. codebook' \in Books
    BY <1>0, <1>6, <2>1, BookExcept DEF FitShrink, CallTyped
  <2>3. Step(t, "train") \/ Step(t, "model")
    BY <1>6 DEF FitShrink
  <2>4. Calls'
    BY <1>6, <1>d, <2>1, <2>3 DEF FitShrink
  <2> QED
    BY <1>6, <2>2, <2>4 DEF FitShrink, Typed
<1>7. ASSUME NEW t \in Threads, FitModel(t) PROVE Typed'
  <2>1. codebook' \in Books
    <3>1. Model(call[t].k) \in Models /\ codebook' = [codebook EXCEPT !.model = Model(call[t].k)]
      BY <1>7, FitModelFacts
    <3> QED
      BY <1>0, <3>1 DEF Books
  <2>2. uploaded' = uploaded
    BY <1>7 DEF FitModel
  <2>3. Calls'
    BY <1>7, <2>2, FitModelFacts
  <2> QED
    BY <1>7, <2>1, <2>3 DEF FitModel, Typed
<1>8. ASSUME NEW t \in Threads, FitOnes(t) PROVE Typed'
  <2>1. call[t].at = "ones" /\ CallTyped(call[t], uploaded)
    BY <1>8 DEF Typed, FitOnes
  <2>2. Ones(call[t].k) \in Weights
    BY <2>1, NewParts DEF CallTyped
  <2>3. codebook' \in Books
    BY <1>0, <1>8, <2>2, BookExcept DEF FitOnes
  <2>4. Calls'
    BY <1>8, <1>d, <2>1 DEF FitOnes
  <2> QED
    BY <1>8, <2>3, <2>4 DEF FitOnes, Typed
<1>9. ASSUME NEW t \in Threads, FitTrain(t) PROVE Typed'
  <2> DEFINE new == [at |-> "training", file |-> call[t].file, corpus |-> call[t].corpus, mine |-> TRUE]
  <2>1. call[t].at = "train" /\ CallTyped(call[t], uploaded) /\ (Fail(t) \/ Go(t, new))
    BY <1>9 DEF Typed, FitTrain
  <2>2. call[t] \in [at : Ats, file : uploaded, corpus : Corpora, k : Lengths]
    BY <2>1 DEF CallTyped
  <2>3. call[t].file \in uploaded /\ call[t].corpus \in Corpora
    BY <2>2
  <2>4. new.at = "training" /\ new.file \in uploaded
        /\ new \in [at : Ats, file : uploaded, corpus : Corpora, mine : BOOLEAN]
    BY <2>3 DEF Ats
  <2> HIDE DEF new
  <2>5. CallTyped(new, uploaded)
    BY <2>4 DEF CallTyped, Ats
  <2>6. Calls'
    BY <1>9, <1>c, <2>1, <2>5, GoTyped DEF FitTrain
  <2> QED
    BY <1>9, <2>6 DEF FitTrain, Typed
<1>10. ASSUME NEW t \in Threads, FitEnd(t) PROVE Typed'
  <2> DEFINE new == [at |-> "histograms", file |-> call[t].file, corpus |-> call[t].corpus]
  <2>1. new.at = "histograms" /\ new.file = call[t].file /\ new.corpus = call[t].corpus
    OBVIOUS
  <2>2. Go(t, new) /\ CallTyped(call[t], uploaded) /\ call[t].at = "training"
    BY <1>10 DEF Typed, FitEnd
  <2>3. call[t] \in [at : Ats, file : uploaded, corpus : Corpora, mine : BOOLEAN]
    BY <2>2 DEF CallTyped
  <2>4. call[t].file \in uploaded /\ call[t].corpus \in Corpora
    BY <2>3
  <2> HIDE DEF new
  <2>5. CallTyped(new, uploaded)
    BY <2>1, <2>4 DEF CallTyped, Ats
  <2>6. Calls'
    BY <1>10, <2>2, <2>5, GoTyped DEF FitEnd
  <2>7. codebook' \in Books
    BY <1>10, FitEndFacts
  <2> QED
    BY <1>10, <2>6, <2>7 DEF FitEnd, Typed
<1>11. ASSUME NEW t \in Threads, Histograms(t) PROVE Typed'
  <2> DEFINE new == [at |-> "idf", file |-> call[t].file,
                     histograms |-> [file \in call[t].corpus |-> Quantize(codebook, file)]]
  <2>1. CallTyped(call[t], uploaded) /\ call[t].at = "histograms" /\ (Fail(t) \/ Go(t, new))
    BY <1>11 DEF Typed, Histograms
  <2>2. new.at = "idf" /\ new.file = call[t].file /\ DOMAIN new.histograms = call[t].corpus
    OBVIOUS
  <2> HIDE DEF new
  <2>3. CallTyped(new, uploaded)
    BY <2>1, <2>2 DEF CallTyped, Ats, Corpora
  <2>4. Calls'
    BY <1>11, <1>c, <2>1, <2>3, GoTyped DEF Histograms
  <2> QED
    BY <1>11, <2>4 DEF Histograms, Typed
<1>12. ASSUME NEW t \in Threads, ComputeIdf(t) PROVE Typed'
  <2> DEFINE idf == Idf(codebook.k, call[t].histograms)
             new == [at |-> "weigh", file |-> call[t].file, idf |-> idf]
  <2>1. CallTyped(call[t], uploaded) /\ call[t].at = "idf" /\ (Fail(t) \/ Go(t, new))
    BY <1>12 DEF Typed, ComputeIdf
  <2>2. idf \in Weights
    <3>1. codebook.k \in Lengths /\ DOMAIN call[t].histograms \subseteq Files
      BY <1>0, <2>1 DEF Books, CallTyped
    <3> QED
      BY <3>1, IdfFacts
  <2>3. new.at = "weigh" /\ new.file = call[t].file /\ new.idf = idf
    OBVIOUS
  <2> HIDE DEF new, idf
  <2>4. CallTyped(new, uploaded)
    BY <2>1, <2>2, <2>3 DEF CallTyped, Ats
  <2>5. Calls'
    BY <1>12, <1>c, <2>1, <2>4, GoTyped DEF ComputeIdf
  <2> QED
    BY <1>12, <2>5 DEF ComputeIdf, Typed
<1>13. ASSUME NEW t \in Threads, SetIdf(t) PROVE Typed'
  <2>1. CallTyped(call[t], uploaded) /\ call[t].at = "weigh"
    BY <1>13 DEF Typed, SetIdf
  <2>2. codebook' \in Books
    BY <1>0, <1>13, <2>1, BookExcept DEF SetIdf, CallTyped
  <2>3. Calls'
    BY <1>13, <1>b, <2>1 DEF SetIdf
  <2> QED
    BY <1>13, <2>2, <2>3 DEF SetIdf, Typed
<1>14. ASSUME NEW t \in Threads, Flag(t) PROVE Typed'
  <2> DEFINE new == [at |-> "save", file |-> call[t].file, state |-> codebook, page |-> 0]
  <2>1. Go(t, new) /\ CallTyped(call[t], uploaded) /\ call[t].at = "flag"
    BY <1>14 DEF Typed, Flag
  <2>2. call[t].file \in uploaded
    BY <2>1 DEF CallTyped
  <2>3. new.at = "save" /\ new.file \in uploaded
        /\ new \in [at : Ats, file : uploaded, state : Books, page : 0 .. 2]
    BY <1>0, <2>2 DEF Ats
  <2> HIDE DEF new
  <2>4. CallTyped(new, uploaded)
    BY <2>3 DEF CallTyped, Ats
  <2>5. Calls'
    BY <1>14, <2>1, <2>4, GoTyped DEF Flag
  <2> QED
    BY <1>14, <2>5 DEF Flag, Typed
<1>15. ASSUME NEW t \in Threads, SavePage(t) PROVE Typed'
  <2> DEFINE p == call[t].page
             new == [call[t] EXCEPT !.page = p + 1]
  <2>1. CallTyped(call[t], uploaded) /\ call[t].at = "save"
    BY <1>15 DEF Typed, SavePage
  <2>2. call[t] \in [at : Ats, file : uploaded, state : Books, page : 0 .. 2]
    BY <2>1 DEF CallTyped
  <2>3. disk' \in [0 .. 2 -> Books \cup {None}]
    <3>1. disk' = [disk EXCEPT ![p] = call[t].state]
      BY <1>15 DEF SavePage
    <3> QED
      BY <2>2, <3>1 DEF Typed
  <2>4. Calls'
    <3>1. CASE p = 2
      BY <1>15, <1>b, <2>1, <3>1 DEF SavePage
    <3>2. CASE p # 2
      <4>1. p + 1 \in 0 .. 2
        BY <2>2, <3>2
      <4>2. new.at = "save" /\ new.file \in uploaded
            /\ new \in [at : Ats, file : uploaded, state : Books, page : 0 .. 2]
        BY <2>1, <2>2, <4>1
      <4>3. Go(t, new)
        BY <1>15, <3>2 DEF SavePage
      <4> HIDE DEF new
      <4>4. CallTyped(new, uploaded)
        BY <4>2 DEF CallTyped, Ats
      <4> QED
        BY <1>15, <4>3, <4>4, GoTyped DEF SavePage
    <3> QED
      BY <3>1, <3>2
  <2> QED
    BY <1>15, <2>3, <2>4 DEF SavePage, Typed
<1>16. ASSUME NEW t \in Threads, SaveRaises(t) PROVE Typed'
  <2>1. Calls'
    BY <1>16, <1>c DEF SaveRaises
  <2>2. mishaps' \subseteq Mishaps
    BY <1>16 DEF SaveRaises, Typed, Mishaps
  <2> QED
    BY <1>16, <2>1, <2>2 DEF SaveRaises, Typed
<1>17. ASSUME NEW t \in Threads, MakeVector(t) PROVE Typed'
  <2> DEFINE new == [at |-> "use", file |-> call[t].file, vector |-> Quantize(codebook, call[t].file)]
  <2>1. Fail(t) \/ Go(t, new)
    BY <1>17 DEF MakeVector
  <2>2. new.at = "use" /\ new.file = call[t].file
    OBVIOUS
  <2>3. CallTyped(call[t], uploaded) /\ call[t].at = "quantize"
    BY <1>17 DEF Typed, MakeVector
  <2> HIDE DEF new
  <2>4. CallTyped(new, uploaded)
    BY <2>2, <2>3 DEF CallTyped, Ats
  <2>5. Calls'
    BY <1>17, <1>c, <2>1, <2>4, GoTyped DEF MakeVector
  <2> QED
    BY <1>17, <2>5 DEF MakeVector, Typed
<1>18. ASSUME NEW t \in Threads, InsertVector(t) PROVE Typed'
  <2>1. CallTyped(call[t], uploaded) /\ call[t].at = "use"
    BY <1>18 DEF Typed, InsertVector
  <2>2. DOMAIN vectors' \subseteq uploaded
    BY <1>18, <2>1 DEF InsertVector, Typed, CallTyped
  <2>3. Calls'
    BY <1>18, <1>c DEF InsertVector
  <2> QED
    BY <1>18, <2>2, <2>3 DEF InsertVector, Typed
<1>19. ASSUME NEW t \in Threads, SearchVector(t) PROVE Typed'
  <2>1. Calls'
    BY <1>19, <1>c DEF SearchVector
  <2> QED
    BY <1>19, <2>1 DEF SearchVector, Typed
<1>20. CASE Restart
  <2>1. Calls'
    BY <1>20 DEF Restart, Idle, CallTyped, Ats
  <2>2. codebook' \in Books
    BY <1>20, NewBook, LoadTyped DEF Restart, Typed
  <2>3. fitted' \in BOOLEAN /\ up' \in BOOLEAN
    BY <1>20, <2>2 DEF Restart, Books
  <2>4. restarts' \in 0 .. MaxRestarts
    BY <1>20, FilesAssumption DEF Restart, Typed
  <2>5. mishaps' \subseteq Mishaps
    BY <1>20 DEF Restart, Typed, Mishaps
  <2> QED
    BY <1>20, <2>1, <2>2, <2>3, <2>4, <2>5 DEF Restart, Typed
<1>21. CASE UNCHANGED vars
  BY <1>21 DEF vars, Typed
<1> QED
  BY <1>1, <1>2, <1>3, <1>4, <1>5, <1>6, <1>7, <1>8, <1>9, <1>10, <1>11, <1>12, <1>13, <1>14, <1>15,
     <1>16, <1>17, <1>18, <1>19, <1>20, <1>21 DEF Next

\* fitted of the resolver never runs ahead of fitted of the codebook
LEMMA NextTrained == Typed /\ Trained /\ [Next]_vars => Trained'
<1> SUFFICES ASSUME Typed, Trained, [Next]_vars PROVE Trained'
  OBVIOUS
<1> DEFINE Late == {"histograms", "idf", "weigh", "flag"}
<1>0. codebook \in Books /\ \A t \in Threads : CallTyped(call[t], uploaded)
  BY DEF Typed
\* A step of a call that leaves the codebook as trained as it was
<1>a. ASSUME NEW t \in Threads, NEW new, Go(t, new), fitted' = fitted, codebook'.fitted = codebook.fitted,
             new.at \in Late => call[t].at \in Late
      PROVE  Trained'
  BY <1>a, GoFacts DEF Trained
<1>c. ASSUME NEW t \in Threads, Fail(t) \/ Go(t, Idle), fitted' = fitted, codebook' = codebook
      PROVE  Trained'
  BY <1>a, <1>c DEF Fail, Idle
<1>1. ASSUME NEW t \in Threads, NEW file \in Files, Resolve(t, file) PROVE Trained'
  BY <1>a, <1>1 DEF Resolve
<1>2. ASSUME NEW t \in Threads, Check(t) PROVE Trained'
  <2> DEFINE new == [at |-> IF fitted THEN "quantize" ELSE "corpus", file |-> call[t].file]
  <2>1. Go(t, new) /\ new.at \in {"quantize", "corpus"}
    BY <1>2 DEF Check, Proceed
  <2> HIDE DEF new
  <2> QED
    BY <1>2, <1>a, <2>1 DEF Check
<1>3. ASSUME NEW t \in Threads, Corpus(t) PROVE Trained'
  <2> DEFINE corpus == {file \in uploaded : LooksOf[file] # {}}
             new == [at |-> "fit", file |-> call[t].file, corpus |-> corpus]
  <2>1. (Fail(t) \/ Go(t, new)) /\ new.at = "fit"
    BY <1>3 DEF Corpus
  <2> HIDE DEF new
  <2> QED
    BY <1>3, <1>a, <1>c, <2>1 DEF Corpus
<1>4. ASSUME NEW t \in Threads, FitStart(t) PROVE Trained'
  <2> DEFINE new == [at |-> "shrink", file |-> call[t].file, corpus |-> call[t].corpus,
                     k |-> Min({codebook.k, Descriptors(call[t].corpus)})]
  <2>1. Go(t, new) /\ new.at = "shrink"
    BY <1>4 DEF FitStart
  <2> HIDE DEF new
  <2> QED
    BY <1>4, <1>a, <2>1 DEF FitStart
\* A step through the assignments of fit
<1>d. ASSUME NEW t \in Threads, call[t].at \in {"shrink", "model", "ones"},
             NEW at \in {"model", "ones", "train"}, Step(t, at),
             fitted' = fitted, codebook'.fitted = codebook.fitted
      PROVE  Trained'
  <2> DEFINE new == [call[t] EXCEPT !.at = at]
  <2>1. new.at = at /\ Go(t, new)
    BY <1>d, Moves DEF Step
  <2> HIDE DEF new
  <2> QED
    BY <1>a, <1>d, <2>1
<1>5. ASSUME NEW t \in Threads, FitShrink(t) PROVE Trained'
  <2>1. call[t].at = "shrink" /\ codebook' = [codebook EXCEPT !.k = call[t].k]
        /\ (Step(t, "train") \/ Step(t, "model")) /\ fitted' = fitted
    BY <1>5 DEF FitShrink
  <2>2. codebook'.fitted = codebook.fitted
    BY <1>0, <2>1 DEF Books
  <2> QED
    BY <1>d, <2>1, <2>2
<1>6. ASSUME NEW t \in Threads, FitModel(t) PROVE Trained'
  <2>1. /\ call[t].at = "model" /\ call'[t].at = "ones"
        /\ \A u \in Threads : u # t => call'[u].at = call[u].at
        /\ codebook' = [codebook EXCEPT !.model = Model(call[t].k)]
    BY <1>6, FitModelFacts
  <2>2. codebook'.fitted = codebook.fitted /\ fitted' = fitted
    BY <1>0, <1>6, <2>1 DEF Books, FitModel
  <2> QED
    BY <2>1, <2>2 DEF Trained
<1>7. ASSUME NEW t \in Threads, FitOnes(t) PROVE Trained'
  <2>1. call[t].at = "ones" /\ codebook' = [codebook EXCEPT !.idf = Ones(call[t].k)]
        /\ Step(t, "train") /\ fitted' = fitted
    BY <1>7 DEF FitOnes
  <2>2. codebook'.fitted = codebook.fitted
    BY <1>0, <2>1 DEF Books
  <2> QED
    BY <1>d, <2>1, <2>2
<1>8. ASSUME NEW t \in Threads, FitTrain(t) PROVE Trained'
  <2> DEFINE new == [at |-> "training", file |-> call[t].file, corpus |-> call[t].corpus, mine |-> TRUE]
  <2>1. (Fail(t) \/ Go(t, new)) /\ new.at = "training"
    BY <1>8 DEF FitTrain
  <2> HIDE DEF new
  <2> QED
    BY <1>8, <1>a, <1>c, <2>1 DEF FitTrain
<1>9. ASSUME NEW t \in Threads, FitEnd(t) PROVE Trained'
  BY <1>9, FitEndFacts, Zenon DEF FitEnd, Trained
<1>10. ASSUME NEW t \in Threads, Histograms(t) PROVE Trained'
  <2> DEFINE new == [at |-> "idf", file |-> call[t].file,
                     histograms |-> [file \in call[t].corpus |-> Quantize(codebook, file)]]
  <2>1. Fail(t) \/ Go(t, new)
    BY <1>10 DEF Histograms
  <2> HIDE DEF new
  <2> QED
    BY <1>10, <1>a, <1>c, <2>1 DEF Histograms
<1>11. ASSUME NEW t \in Threads, ComputeIdf(t) PROVE Trained'
  <2> DEFINE new == [at |-> "weigh", file |-> call[t].file, idf |-> Idf(codebook.k, call[t].histograms)]
  <2>1. Fail(t) \/ Go(t, new)
    BY <1>11 DEF ComputeIdf
  <2> HIDE DEF new
  <2> QED
    BY <1>11, <1>a, <1>c, <2>1 DEF ComputeIdf
<1>12. ASSUME NEW t \in Threads, SetIdf(t) PROVE Trained'
  <2> DEFINE new == [at |-> "flag", file |-> call[t].file]
  <2>1. Go(t, new) /\ call[t].at = "weigh"
    BY <1>12 DEF SetIdf, Proceed
  <2>2. codebook'.fitted = codebook.fitted
    BY <1>0, <1>12 DEF SetIdf, Books
  <2> HIDE DEF new
  <2> QED
    BY <1>12, <1>a, <2>1, <2>2 DEF SetIdf
<1>13. ASSUME NEW t \in Threads, Flag(t) PROVE Trained'
  <2> DEFINE new == [at |-> "save", file |-> call[t].file, state |-> codebook, page |-> 0]
  <2>1. new.at = "save" /\ Go(t, new)
    BY <1>13 DEF Flag
  <2>2. codebook.fitted
    BY <1>13 DEF Flag, Trained
  <2> HIDE DEF new
  <2> QED
    BY <1>13, <2>1, <2>2, GoFacts DEF Flag, Trained
<1>14. ASSUME NEW t \in Threads, SavePage(t) PROVE Trained'
  <2> DEFINE next == [call[t] EXCEPT !.page = call[t].page + 1]
             done == [at |-> "quantize", file |-> call[t].file]
  <2>1. call[t].at = "save" /\ call[t] \in [at : Ats, file : uploaded, state : Books, page : 0 .. 2]
    BY <1>0, <1>14 DEF SavePage, CallTyped
  <2>2. next.at = "save" /\ done.at = "quantize" /\ (Go(t, next) \/ Go(t, done))
    BY <1>14, <2>1 DEF SavePage, Proceed
  <2> HIDE DEF next, done
  <2> QED
    BY <1>14, <1>a, <2>2 DEF SavePage
<1>15. ASSUME NEW t \in Threads, SaveRaises(t) \/ InsertVector(t) \/ SearchVector(t) PROVE Trained'
  BY <1>15, <1>c DEF SaveRaises, InsertVector, SearchVector
<1>16. ASSUME NEW t \in Threads, MakeVector(t) PROVE Trained'
  <2> DEFINE new == [at |-> "use", file |-> call[t].file, vector |-> Quantize(codebook, call[t].file)]
  <2>1. (Fail(t) \/ Go(t, new)) /\ new.at = "use"
    BY <1>16 DEF MakeVector
  <2> HIDE DEF new
  <2> QED
    BY <1>16, <1>a, <1>c, <2>1 DEF MakeVector
<1>17. CASE Restart
  <2>1. \A t \in Threads : call'[t].at = "idle"
    BY <1>17 DEF Restart, Idle
  <2>2. fitted' = codebook'.fitted
    BY <1>17 DEF Restart
  <2> QED
    BY <2>1, <2>2 DEF Trained
<1>18. CASE (\E file \in Files : Upload(file)) \/ UNCHANGED vars
  BY <1>18 DEF Upload, vars, Trained
<1> QED
  BY <1>1, <1>2, <1>3, <1>4, <1>5, <1>6, <1>7, <1>8, <1>9, <1>10, <1>11, <1>12, <1>13, <1>14, <1>15,
     <1>16, <1>17, <1>18 DEF Next

-----------------------------------------------------------------------------
(* Without mishaps *)

\* A mishap is not forgotten
LEMMA MishapsStay == [Next]_vars => mishaps \subseteq mishaps'
BY Zenon DEF Next, vars, Upload, Resolve, Check, Corpus, FitStart, FitShrink, FitModel, FitOnes, FitTrain,
   FitEnd, Histograms, ComputeIdf, SetIdf, Flag, SavePage, SaveRaises, MakeVector, InsertVector,
   SearchVector, Restart

\* A step of a call that neither changes the codebook nor the file
LEMMA QuietStep ==
  ASSUME Typed, NEW t \in Threads, NEW new, Go(t, new),
         UNCHANGED <<codebook, fitted, disk, vectors, up>>,
         call[t].at \notin Resizing,
         new.at \notin Resizing \cup {"weigh", "save"},
         new.at \in Training => call[t].at \in Training,
         new.at \in {"quantize", "use"} => fitted,
         new.at = "use" => Fits(new.vector, new.file, codebook)
  PROVE  /\ Lone => Lone'
         /\ Memory => Memory'
         /\ OnDisk /\ call[t].at # "save" => OnDisk'
<1>1. call'[t] = new /\ \A u \in Threads : u # t => call'[u] = call[u]
  BY GoFacts
<1>2. InTraining' \subseteq InTraining
  BY <1>1 DEF InTraining, Training
<1>3. \A u \in InSaving' : u \in InSaving /\ call'[u] = call[u]
  BY <1>1 DEF InSaving
<1>4. ASSUME Lone PROVE Lone'
  <2>1. \A u \in Threads : call'[u].at \in Resizing \cup {"weigh", "save"} => call'[u] = call[u]
    BY <1>1
  <2>2. (\A u \in Threads : call'[u].at \notin Resizing) => \A u \in Threads : call[u].at \notin Resizing
    BY <1>1
  <2> QED
    BY <1>2, <1>4, <2>1, <2>2 DEF Lone, Resizing
<1>5. ASSUME Memory PROVE Memory'
  <2>1. \A u \in Threads : call'[u].at = "use" => Fits(call'[u].vector, call'[u].file, codebook')
    BY <1>1, <1>5 DEF Memory
  <2>2. ~fitted => \A u \in Threads : call'[u].at \notin {"save", "quantize", "use"}
    BY <1>1, <1>5 DEF Memory
  <2> QED
    BY <1>3, <1>5, <2>1, <2>2 DEF Memory
<1>6. ASSUME OnDisk, call[t].at # "save" PROVE OnDisk'
  <2>1. InSaving' = InSaving
    BY <1>1, <1>6 DEF InSaving
  <2> QED
    BY <1>3, <1>6, <2>1 DEF OnDisk
<1> QED
  BY <1>4, <1>5, <1>6

\* A step of the only training there is
LEMMA TrainingStep ==
  ASSUME Typed, NEW t \in Threads, ~fitted, InTraining \subseteq {t},
         UNCHANGED <<fitted, disk, vectors, up>>,
         \A u \in Threads : u # t => call'[u] = call[u],
         call'[t].at \in {"idle"} \cup Training
  PROVE  /\ Memory => Memory'
         /\ Memory /\ OnDisk => OnDisk'
<1>1. Memory => \A u \in Threads : call'[u].at \notin {"save", "quantize", "use"}
  BY DEF Memory, Training
<1>2. Memory => InSaving' = {}
  BY <1>1 DEF InSaving
<1>3. Memory => Memory'
  BY <1>1, <1>2 DEF Memory
<1>4. Memory /\ OnDisk => OnDisk'
  BY <1>2 DEF OnDisk
<1> QED
  BY <1>3, <1>4

\* The lengths after it
LEMMA LengthsStep ==
  ASSUME Typed, Lone, NEW t \in Threads, ~fitted, InTraining \subseteq {t}, UNCHANGED <<fitted, disk>>,
         \A u \in Threads : u # t => call'[u] = call[u],
         call'[t].at \in {"idle"} \cup Training,
         call'[t].at \in Resizing => codebook'.k = call'[t].k,
         call'[t].at = "ones" => codebook'.model.n = call'[t].k,
         call'[t].at = "weigh" => DOMAIN call'[t].idf.df = 1 .. codebook'.k,
         call'[t].at \notin Resizing => OneLength(codebook')
  PROVE  Lone'
<1>1. \A u \in Threads : u # t => call[u].at \notin Training /\ call'[u] = call[u]
  BY DEF InTraining, Training
<1>2. \A u \in InTraining' : u = t
  BY <1>1 DEF InTraining, Training
<1>3. ASSUME NEW u \in Threads
      PROVE  /\ call'[u].at \in Resizing => codebook'.k = call'[u].k
             /\ call'[u].at = "ones" => codebook'.model.n = call'[u].k
             /\ call'[u].at = "weigh" => DOMAIN call'[u].idf.df = 1 .. codebook'.k
             /\ call'[u].at = "save" => OneLength(call'[u].state)
  <2>1. CASE u = t
    BY <2>1 DEF Training
  <2>2. CASE u # t
    BY <1>1, <2>2 DEF Training, Resizing, Lone
  <2> QED
    BY <2>1, <2>2
<1>4. (\A u \in Threads : call'[u].at \notin Resizing) => OneLength(codebook')
  OBVIOUS
<1>5. \A p \in 0 .. 2 : disk'[p] # None => OneLength(disk'[p])
  BY DEF Lone
<1> QED
  BY <1>2, <1>3, <1>4, <1>5 DEF Lone

\* As long as no two threads trained, the lengths agree; until the codebook is
\* lost, memory holds one codebook; and until a save raises, so does the file
Sound ==
    /\ "together" \notin mishaps => Lone
    /\ mishaps \subseteq {"raised"} => Memory
    /\ mishaps = {} => OnDisk

\* Only a call in training changes the codebook, and without mishaps no vector has
\* been made then; a restart loads what was in memory, or starts anew when
\* nothing was
LEMMA NextSound == IInv /\ [Next]_vars => Sound'
<1> SUFFICES ASSUME IInv, [Next]_vars PROVE Sound'
  OBVIOUS
<1>0. /\ Typed /\ Trained
      /\ "together" \notin mishaps' => Lone
      /\ mishaps' \subseteq {"raised"} => Lone /\ Memory
      /\ mishaps' = {} => Lone /\ Memory /\ OnDisk
  BY MishapsStay DEF IInv
<1>t. /\ codebook \in Books
      /\ \A t \in Threads : CallTyped(call[t], uploaded)
  BY <1>0 DEF Typed
<1> HIDE DEF IInv
<1>a. ASSUME NEW t \in Threads, NEW new, Go(t, new),
             UNCHANGED <<codebook, fitted, disk, vectors, up>>,
             call[t].at \notin Resizing \cup {"save"},
             new.at \notin Resizing \cup {"weigh", "save"},
             new.at \in Training => call[t].at \in Training,
             new.at \in {"quantize", "use"} => fitted,
             new.at = "use" => Fits(new.vector, new.file, codebook)
      PROVE  Sound'
  BY <1>0, <1>a, QuietStep DEF Sound
<1>b. ASSUME NEW t \in Threads, Fail(t) \/ Go(t, Idle), call[t].at \notin Resizing \cup {"save"},
             UNCHANGED <<codebook, fitted, disk, vectors, up>>
      PROVE  Sound'
  <2>1. Idle.at = "idle" /\ Go(t, Idle)
    BY <1>b DEF Fail, Idle
  <2> QED
    BY <1>a, <1>b, <2>1 DEF Training, Resizing
\* A step of a training, which is the only one if no two threads trained
<1>c. ASSUME NEW t \in Threads, UNCHANGED <<fitted, disk, vectors, up>>,
             t \in InTraining \/ ("together" \notin mishaps' => ~fitted /\ InTraining = {}),
             \A u \in Threads : u # t /\ call[u].at # "training" => call'[u] = call[u],
             call'[t].at \in {"idle"} \cup Training,
             Lone =>
               /\ call'[t].at \in Resizing => codebook'.k = call'[t].k
               /\ call'[t].at = "ones" => codebook'.model.n = call'[t].k
               /\ call'[t].at = "weigh" => DOMAIN call'[t].idf.df = 1 .. codebook'.k
               /\ (\A u \in Threads : u # t => call[u].at \notin Resizing) =>
                     (call'[t].at \notin Resizing => OneLength(codebook'))
      PROVE  Sound'
  <2>1. ASSUME "together" \notin mishaps'
        PROVE  Lone /\ ~fitted /\ InTraining \subseteq {t} /\ \A u \in Threads : u # t => call'[u] = call[u]
    <3>1. Lone /\ ~fitted /\ InTraining \subseteq {t}
      BY <1>0, <1>c, <2>1 DEF Lone
    <3>2. \A u \in Threads : u # t => call[u].at # "training"
      BY <3>1 DEF InTraining
    <3> QED
      BY <1>c, <3>1, <3>2
  <2>2. ASSUME "together" \notin mishaps' PROVE Lone'
    <3>1. \A u \in Threads : u # t => call[u].at \notin Resizing
      BY <2>1, <2>2 DEF InTraining, Resizing
    <3> QED
      BY <1>0, <1>c, <2>1, <2>2, <3>1, LengthsStep
  <2>3. ASSUME mishaps' \subseteq {"raised"} PROVE Memory' /\ (mishaps' = {} => OnDisk')
    <3>1. "together" \notin mishaps'
      BY <2>3
    <3> QED
      BY <1>0, <1>c, <2>1, <2>3, <3>1, TrainingStep
  <2> QED
    BY <2>2, <2>3 DEF Sound
<1>1. ASSUME NEW t \in Threads, NEW file \in Files, Resolve(t, file) PROVE Sound'
  <2> DEFINE new == [at |-> "check", file |-> file]
  <2>1. new.at = "check" /\ Go(t, new) /\ call[t].at = "idle"
    BY <1>1 DEF Resolve, Idle
  <2> HIDE DEF new
  <2> QED
    BY <1>1, <1>a, <2>1 DEF Resolve, Training, Resizing
<1>2. ASSUME NEW t \in Threads, Check(t) PROVE Sound'
  <2> DEFINE at == IF fitted THEN "quantize" ELSE "corpus"
             new == [at |-> at, file |-> call[t].file]
  <2>1. new.at = at /\ Go(t, new) /\ call[t].at = "check"
    BY <1>2 DEF Check, Proceed
  <2> HIDE DEF new
  <2> QED
    BY <1>2, <1>a, <2>1 DEF Check, Training, Resizing
<1>3. ASSUME NEW t \in Threads, Corpus(t) PROVE Sound'
  <2> DEFINE corpus == {file \in uploaded : LooksOf[file] # {}}
             new == [at |-> "fit", file |-> call[t].file, corpus |-> corpus]
  <2>1. (Fail(t) \/ Go(t, new)) /\ call[t].at = "corpus" /\ new.at = "fit"
    BY <1>3 DEF Corpus
  <2> HIDE DEF new
  <2> QED
    BY <1>3, <1>a, <1>b, <2>1 DEF Corpus, Training, Resizing
<1>4. ASSUME NEW t \in Threads, FitStart(t) PROVE Sound'
  <2> DEFINE new == [at |-> "shrink", file |-> call[t].file, corpus |-> call[t].corpus,
                     k |-> Min({codebook.k, Descriptors(call[t].corpus)})]
  <2>1. Go(t, new) /\ new.at = "shrink" /\ call[t].at = "fit"
    BY <1>4 DEF FitStart
  <2> HIDE DEF new
  <2>2. call'[t] = new /\ \A u \in Threads : u # t => call'[u] = call[u]
    BY <1>0, <2>1, GoFacts
  <2>3. "together" \notin mishaps' => ~fitted /\ InTraining = {}
    BY <1>4 DEF FitStart
  <2>4. Lone /\ (\A u \in Threads : u # t => call[u].at \notin Resizing) => OneLength(codebook')
    BY <1>4, <2>1 DEF Lone, Resizing, FitStart
  <2> QED
    BY <1>4, <1>c, <2>1, <2>2, <2>3, <2>4 DEF FitStart, Training, Resizing
<1>5. ASSUME NEW t \in Threads, FitShrink(t) PROVE Sound'
  <2> DEFINE at  == IF codebook.k = call[t].k THEN "train" ELSE "model"
             new == [call[t] EXCEPT !.at = at]
  <2>1. call[t].at = "shrink" /\ Go(t, new) /\ codebook' = [codebook EXCEPT !.k = call[t].k]
    BY <1>5 DEF FitShrink, Step
  <2>2. new.at = at /\ new.k = call[t].k
    BY <1>0, <2>1, Moves
  <2> HIDE DEF new
  <2>3. call'[t] = new /\ \A u \in Threads : u # t => call'[u] = call[u]
    BY <1>0, <2>1, GoFacts
  <2>4. codebook'.k = call[t].k /\ (at = "train" => codebook' = codebook)
    BY <1>t, <2>1 DEF Books
  <2>5. Lone /\ (\A u \in Threads : u # t => call[u].at \notin Resizing) => OneLength(codebook)
    BY <2>1 DEF Lone, Resizing
  <2>6. t \in InTraining
    BY <2>1 DEF InTraining
  <2> QED
    BY <1>5, <1>c, <2>2, <2>3, <2>4, <2>5, <2>6 DEF FitShrink, Training, Resizing
<1>6. ASSUME NEW t \in Threads, FitModel(t) PROVE Sound'
  <2>1. /\ call[t].at = "model" /\ call'[t].at = "ones" /\ call'[t].k = call[t].k
        /\ \A u \in Threads : u # t /\ call[u].at # "training" => call'[u] = call[u]
        /\ codebook' = [codebook EXCEPT !.model = Model(call[t].k)]
    BY <1>0, <1>6, FitModelFacts
  <2>2. codebook'.k = codebook.k /\ codebook'.model.n = call[t].k
    BY <1>t, <2>1 DEF Books, Model
  <2>3. Lone => codebook.k = call[t].k
    BY <2>1 DEF Lone, Resizing
  <2>4. t \in InTraining
    BY <2>1 DEF InTraining
  <2> QED
    BY <1>6, <1>c, <2>1, <2>2, <2>3, <2>4 DEF FitModel, Training, Resizing
<1>7. ASSUME NEW t \in Threads, FitOnes(t) PROVE Sound'
  <2> DEFINE new == [call[t] EXCEPT !.at = "train"]
  <2>1. call[t].at = "ones" /\ Go(t, new) /\ codebook' = [codebook EXCEPT !.idf = Ones(call[t].k)]
    BY <1>7 DEF FitOnes, Step
  <2>2. new.at = "train"
    BY <1>0, <2>1, Moves
  <2> HIDE DEF new
  <2>3. call'[t] = new /\ \A u \in Threads : u # t => call'[u] = call[u]
    BY <1>0, <2>1, GoFacts
  <2>4. codebook'.k = codebook.k /\ codebook'.model = codebook.model /\ codebook'.idf = Ones(call[t].k)
    BY <1>t, <2>1 DEF Books
  <2>5. Lone => OneLength(codebook')
    BY <2>1, <2>4 DEF Lone, Resizing, OneLength, Ones
  <2>6. t \in InTraining
    BY <2>1 DEF InTraining
  <2> QED
    BY <1>7, <1>c, <2>2, <2>3, <2>5, <2>6 DEF FitOnes, Training, Resizing
<1>8. ASSUME NEW t \in Threads, FitTrain(t) PROVE Sound'
  <2> DEFINE new == [at |-> "training", file |-> call[t].file, corpus |-> call[t].corpus, mine |-> TRUE]
  <2>1. call[t].at = "train" /\ (Fail(t) \/ Go(t, new)) /\ new.at = "training"
    BY <1>8 DEF FitTrain
  <2> HIDE DEF new
  <2> QED
    BY <1>8, <1>a, <1>b, <2>1 DEF FitTrain, Training, Resizing
<1>9. ASSUME NEW t \in Threads, FitEnd(t) PROVE Sound'
  <2> DEFINE new == [at |-> "histograms", file |-> call[t].file, corpus |-> call[t].corpus]
  <2>1. call[t].at = "training" /\ Go(t, new) /\ new.at = "histograms"
    BY <1>9 DEF FitEnd
  <2> HIDE DEF new
  <2>2. call'[t] = new /\ \A u \in Threads : u # t => call'[u] = call[u]
    BY <1>0, <2>1, GoFacts
  <2>3. Lone /\ (\A u \in Threads : u # t => call[u].at \notin Resizing) => OneLength(codebook)
    BY <2>1 DEF Lone, Resizing
  <2>4. OneLength(codebook) => OneLength(codebook')
    BY <1>0, <1>9, FitEndFacts DEF OneLength
  <2>5. t \in InTraining
    BY <2>1 DEF InTraining
  <2> QED
    BY <1>9, <1>c, <2>1, <2>2, <2>3, <2>4, <2>5 DEF FitEnd, Training, Resizing
<1>10. ASSUME NEW t \in Threads, Histograms(t) PROVE Sound'
  <2> DEFINE new == [at |-> "idf", file |-> call[t].file,
                     histograms |-> [file \in call[t].corpus |-> Quantize(codebook, file)]]
  <2>1. (Fail(t) \/ Go(t, new)) /\ call[t].at = "histograms" /\ new.at = "idf"
    BY <1>10 DEF Histograms
  <2> HIDE DEF new
  <2> QED
    BY <1>10, <1>a, <1>b, <2>1 DEF Histograms, Training, Resizing
<1>11. ASSUME NEW t \in Threads, ComputeIdf(t) PROVE Sound'
  <2> DEFINE idf == Idf(codebook.k, call[t].histograms)
             new == [at |-> "weigh", file |-> call[t].file, idf |-> idf]
  <2>1. (Fail(t) \/ Go(t, new)) /\ call[t].at = "idf"
    BY <1>11 DEF ComputeIdf
  <2>2. CASE Fail(t)
    BY <1>11, <1>b, <2>1, <2>2 DEF ComputeIdf, Resizing
  <2>3. CASE Go(t, new)
    <3>1. new.at = "weigh" /\ new.idf = idf
      OBVIOUS
    <3>2. DOMAIN idf.df = 1 .. codebook.k
      BY DEF Idf
    <3> HIDE DEF new, idf
    <3>3. call'[t] = new /\ \A u \in Threads : u # t => call'[u] = call[u]
      BY <1>0, <2>3, GoFacts
    <3>4. Lone /\ (\A u \in Threads : u # t => call[u].at \notin Resizing) => OneLength(codebook)
      BY <2>1 DEF Lone, Resizing
    <3>5. t \in InTraining /\ codebook' = codebook
      BY <1>11, <2>1 DEF InTraining, ComputeIdf
    <3> QED
      BY <1>11, <1>c, <3>1, <3>2, <3>3, <3>4, <3>5 DEF ComputeIdf, Training, Resizing
  <2> QED
    BY <2>1, <2>2, <2>3
<1>12. ASSUME NEW t \in Threads, SetIdf(t) PROVE Sound'
  <2> DEFINE new == [at |-> "flag", file |-> call[t].file]
  <2>1. call[t].at = "weigh" /\ Go(t, new) /\ new.at = "flag"
        /\ codebook' = [codebook EXCEPT !.idf = call[t].idf]
    BY <1>12 DEF SetIdf, Proceed
  <2> HIDE DEF new
  <2>2. call'[t] = new /\ \A u \in Threads : u # t => call'[u] = call[u]
    BY <1>0, <2>1, GoFacts
  <2>3. codebook'.k = codebook.k /\ codebook'.model = codebook.model /\ codebook'.idf = call[t].idf
    BY <1>t, <2>1 DEF Books
  <2>4. Lone /\ (\A u \in Threads : u # t => call[u].at \notin Resizing) => OneLength(codebook')
    BY <2>1, <2>3 DEF Lone, Resizing, OneLength
  <2>5. t \in InTraining
    BY <2>1 DEF InTraining
  <2> QED
    BY <1>12, <1>c, <2>1, <2>2, <2>4, <2>5 DEF SetIdf, Training, Resizing
<1>13. ASSUME NEW t \in Threads, Flag(t) PROVE Sound'
  <2> DEFINE new == [at |-> "save", file |-> call[t].file, state |-> codebook, page |-> 0]
  <2>1. new.at = "save" /\ new.state = codebook /\ new.page = 0 /\ Go(t, new) /\ call[t].at = "flag"
    BY <1>13 DEF Flag
  <2>2. t \in InTraining
    BY <2>1 DEF InTraining
  <2> HIDE DEF new
  <2>3. call'[t] = new /\ \A u \in Threads : u # t => call'[u] = call[u]
    BY <1>0, <2>1, GoFacts
  <2>4. UNCHANGED <<codebook, disk, vectors, up>> /\ fitted'
    BY <1>13 DEF Flag
  <2>5. ASSUME Lone PROVE Lone' /\ ~fitted /\ InTraining' = {} /\ InTraining = {t}
    <3>1. ~fitted /\ InTraining = {t} /\ InTraining' = {}
      BY <2>1, <2>2, <2>3, <2>5 DEF InTraining, Lone
    <3>2. \A u \in Threads : u # t => call[u].at \notin Resizing
      BY <3>1 DEF InTraining, Resizing
    <3>3. OneLength(codebook)
      BY <2>1, <2>5, <3>2 DEF Lone, Resizing
    <3>4. ASSUME NEW u \in Threads
          PROVE  /\ call'[u].at \notin Resizing \cup {"weigh"}
                 /\ call'[u].at = "save" => OneLength(call'[u].state)
      <4>1. CASE u = t
        BY <2>1, <2>3, <3>3, <4>1 DEF Resizing
      <4>2. CASE u # t
        <5>1. call'[u] = call[u] /\ u \notin InTraining
          BY <2>3, <3>1, <4>2
        <5> QED
          BY <2>5, <5>1 DEF InTraining, Resizing, Lone
      <4> QED
        BY <4>1, <4>2
    <3> QED
      BY <2>4, <2>5, <3>1, <3>3, <3>4 DEF Lone, Resizing
  <2>6. ASSUME Lone, Memory PROVE Memory' /\ (OnDisk => OnDisk')
    <3>1. ~fitted /\ \A u \in Threads : call[u].at \notin {"save", "quantize", "use"}
      BY <2>5, <2>6 DEF Memory
    <3>2. InSaving' = {t}
      BY <2>1, <2>3, <3>1 DEF InSaving
    <3>3. \A u \in Threads : call'[u].at # "use"
      BY <2>1, <2>3, <3>1
    <3>4. DOMAIN vectors = {} /\ up
      BY <2>6, <3>1 DEF Memory
    <3>5. Memory'
      BY <2>1, <2>3, <2>4, <3>2, <3>3, <3>4 DEF Memory
    <3>6. \A p \in 0 .. 2 : ~(p < 0) /\ NoPages[p] = None
      BY DEF NoPages
    <3>7. OnDisk => OnDisk'
      BY <2>1, <2>3, <2>4, <3>1, <3>2, <3>6 DEF OnDisk
    <3> QED
      BY <3>5, <3>7
  <2> QED
    BY <1>0, <2>5, <2>6 DEF Sound
<1>14. ASSUME NEW t \in Threads, SavePage(t) PROVE Sound'
  <2> DEFINE p == call[t].page
             next == [call[t] EXCEPT !.page = p + 1]
             done == [at |-> "quantize", file |-> call[t].file]
             new  == IF p = 2 THEN done ELSE next
  <2>1. t \in InSaving /\ call[t].at = "save" /\ Go(t, new)
        /\ UNCHANGED <<codebook, fitted, vectors, up>>
        /\ disk' = [disk EXCEPT ![p] = call[t].state]
    BY <1>14 DEF SavePage, InSaving, Proceed
  <2>2. call[t] \in [at : Ats, file : uploaded, state : Books, page : 0 .. 2]
    BY <1>t, <2>1 DEF CallTyped
  <2>3. /\ p \in 0 .. 2 /\ call[t].state \in Books
        /\ p = 2 => new.at = "quantize"
        /\ p # 2 => new.at = "save" /\ new.state = call[t].state /\ new.page = p + 1
    BY <2>1, <2>2
  <2>4. \A q \in 0 .. 2 : disk'[q] = IF q = p THEN call[t].state ELSE disk[q]
    BY <1>0, <2>1, <2>3 DEF Typed
  <2> HIDE DEF new, p
  <2>5. call'[t] = new /\ \A u \in Threads : u # t => call'[u] = call[u]
    BY <1>0, <2>1, GoFacts
  <2>6. new.at \in {"save", "quantize"}
    BY <2>3
  <2>7. ASSUME Lone PROVE Lone'
    <3>1. InTraining' = InTraining
      BY <2>1, <2>5, <2>6 DEF InTraining
    <3>2. OneLength(call[t].state)
      BY <2>1, <2>7 DEF Lone
    <3>3. \A q \in 0 .. 2 : disk'[q] # None => OneLength(disk'[q])
      BY <2>4, <2>7, <3>2 DEF Lone
    <3>4. ASSUME NEW u \in Threads
          PROVE  /\ call'[u].at \in Resizing \cup {"weigh"} => call'[u] = call[u]
                 /\ call'[u].at \in Resizing <=> call[u].at \in Resizing
                 /\ call'[u].at = "save" => OneLength(call'[u].state)
      <4>1. CASE u = t
        BY <2>1, <2>3, <2>5, <2>6, <3>2, <4>1 DEF Resizing
      <4>2. CASE u # t
        BY <2>5, <2>7, <4>2 DEF Lone
      <4> QED
        BY <4>1, <4>2
    <3> QED
      BY <2>1, <2>7, <3>1, <3>3, <3>4 DEF Lone, Resizing
  <2>8. ASSUME Memory PROVE Memory' /\ fitted /\ InSaving = {t} /\ call[t].state = codebook
    <3>1. fitted /\ InSaving = {t} /\ call[t].state = codebook
      BY <2>1, <2>8 DEF Memory
    <3>2. InSaving' \subseteq {t} /\ (p = 2 => InSaving' = {}) /\ (p # 2 => InSaving' = {t})
      BY <2>3, <2>5, <3>1 DEF InSaving
    <3>3. \A u \in Threads : call'[u].at = "use" => call'[u] = call[u]
      BY <2>5, <2>6
    <3>4. \A u \in InSaving' : call'[u].state = codebook
      BY <2>3, <2>5, <3>1, <3>2
    <3> QED
      BY <2>1, <2>8, <3>1, <3>2, <3>3, <3>4 DEF Memory
  <2>9. ASSUME Memory, OnDisk PROVE OnDisk'
    <3>1. \A q \in 0 .. 2 : disk'[q] = IF q < p + 1 THEN codebook ELSE None
      <4>1. \A q \in 0 .. 2 : disk[q] = IF q < p THEN codebook ELSE None
        BY <2>1, <2>9 DEF OnDisk, p
      <4>2. SUFFICES ASSUME NEW q \in 0 .. 2 PROVE disk'[q] = IF q < p + 1 THEN codebook ELSE None
        OBVIOUS
      <4>3. disk'[q] = IF q = p THEN codebook ELSE disk[q]
        BY <2>4, <2>8, <2>9
      <4> QED
        BY <2>3, <4>1, <4>3
    <3>2. CASE p = 2
      <4>1. InSaving' = {} /\ fitted'
        BY <2>1, <2>3, <2>5, <2>8, <2>9, <3>2 DEF InSaving
      <4>2. \A q \in 0 .. 2 : disk'[q] = codebook'
        BY <2>1, <3>1, <3>2
      <4> QED
        BY <4>1, <4>2 DEF OnDisk
    <3>3. CASE p # 2
      <4>1. InSaving' = {t} /\ fitted' /\ call'[t].page = p + 1
        BY <2>1, <2>3, <2>5, <2>8, <2>9, <3>3 DEF InSaving
      <4> QED
        BY <2>1, <3>1, <4>1 DEF OnDisk
    <3> QED
      BY <3>2, <3>3
  <2> QED
    BY <1>0, <2>7, <2>8, <2>9 DEF Sound
<1>15. ASSUME NEW t \in Threads, SaveRaises(t) PROVE Sound'
  <2>1. Go(t, Idle) /\ Idle.at = "idle" /\ call[t].at = "save" /\ mishaps' # {}
        /\ UNCHANGED <<codebook, fitted, disk, vectors, up>>
    BY <1>15 DEF SaveRaises, Fail, Idle
  <2> QED
    BY <1>0, <2>1, QuietStep DEF Sound, Training, Resizing
<1>16. ASSUME NEW t \in Threads, MakeVector(t) PROVE Sound'
  <2> DEFINE new == [at |-> "use", file |-> call[t].file, vector |-> Quantize(codebook, call[t].file)]
  <2>1. call[t].at = "quantize" /\ UNCHANGED <<codebook, fitted, disk, vectors, up>>
    BY <1>16 DEF MakeVector
  <2>2. CASE Unquantizable(codebook, call[t].file)
    BY <1>16, <1>b, <2>1, <2>2 DEF MakeVector, Resizing
  <2>3. CASE ~Unquantizable(codebook, call[t].file)
    <3>1. Go(t, new) /\ new.at = "use" /\ Fits(new.vector, new.file, codebook)
      BY <1>16, <2>3 DEF MakeVector, Fits
    <3> HIDE DEF new
    <3>2. Memory => fitted
      BY <2>1 DEF Memory
    <3>3. CASE fitted
      BY <1>a, <2>1, <3>1, <3>3 DEF Training, Resizing
    <3>4. CASE ~fitted
      <4>1. ~(mishaps' \subseteq {"raised"})
        BY <1>0, <3>2, <3>4
      <4>2. Lone => Lone'
        <5>1. call'[t] = new /\ \A u \in Threads : u # t => call'[u] = call[u]
          BY <1>0, <3>1, GoFacts
        <5>2. InTraining' = InTraining
          BY <2>1, <3>1, <5>1 DEF InTraining
        <5>3. \A u \in Threads : /\ call'[u].at \in Resizing \cup {"weigh", "save"} => call'[u] = call[u]
                                 /\ call'[u].at \in Resizing <=> call[u].at \in Resizing
          BY <2>1, <3>1, <5>1 DEF Resizing
        <5> QED
          BY <2>1, <5>2, <5>3 DEF Lone, Resizing
      <4> QED
        BY <1>0, <4>1, <4>2 DEF Sound
    <3> QED
      BY <3>3, <3>4
  <2> QED
    BY <2>2, <2>3
<1>17. ASSUME NEW t \in Threads, InsertVector(t) PROVE Sound'
  <2>1. /\ call[t].at = "use" /\ Go(t, Idle) /\ Idle.at = "idle"
        /\ UNCHANGED <<codebook, fitted, disk, up>>
    BY <1>17 DEF InsertVector, Idle
  <2>2. call'[t] = Idle /\ \A u \in Threads : u # t => call'[u] = call[u]
    BY <1>0, <2>1, GoFacts
  <2>3. InTraining' = InTraining /\ InSaving' = InSaving
    BY <2>1, <2>2 DEF InTraining, InSaving
  <2>4. \A u \in Threads : /\ call'[u].at \in Resizing \cup {"weigh", "save", "use"} => call'[u] = call[u]
                           /\ call'[u].at \in Resizing <=> call[u].at \in Resizing
    BY <2>1, <2>2 DEF Resizing
  <2>5. Lone => Lone'
    BY <2>1, <2>3, <2>4 DEF Lone, Resizing
  <2>6. Memory => Memory'
    <3> SUFFICES ASSUME Memory PROVE Memory'
      OBVIOUS
    <3>1. fitted /\ Fits(call[t].vector, call[t].file, codebook)
      BY <2>1 DEF Memory
    <3>2. \A file \in DOMAIN vectors' : Fits(vectors'[file], file, codebook)
      BY <1>17, <3>1 DEF InsertVector, Memory
    <3>3. \A u \in InSaving : call'[u] = call[u]
      BY <2>3, <2>4 DEF InSaving
    <3> QED
      BY <2>1, <2>3, <2>4, <3>1, <3>2, <3>3 DEF Memory
  <2>7. OnDisk => OnDisk'
    <3>1. \A u \in InSaving : call'[u] = call[u]
      BY <2>3, <2>4 DEF InSaving
    <3> QED
      BY <2>1, <2>3, <3>1 DEF OnDisk
  <2> QED
    BY <1>0, <2>5, <2>6, <2>7 DEF Sound
<1>18. ASSUME NEW t \in Threads, SearchVector(t) PROVE Sound'
  BY <1>18, <1>b DEF SearchVector, Resizing
<1>19. CASE Restart
  <2>1. /\ \A t \in Threads : call'[t] = Idle /\ call'[t].at = "idle"
        /\ UNCHANGED <<disk, vectors>>
        /\ up' \in BOOLEAN /\ (Whole(disk) => up') /\ (up' => Whole(disk) \/ Blended(disk))
        /\ codebook' = (IF up' THEN Load(disk) ELSE New(MaxK))
        /\ fitted' = codebook'.fitted
    BY <1>19 DEF Restart, Idle
  <2>2. InTraining' = {} /\ InSaving' = {}
    BY <2>1 DEF InTraining, InSaving
  <2>3. Lone => Lone'
    <3> SUFFICES ASSUME Lone PROVE Lone'
      OBVIOUS
    <3>1. OneLength(codebook')
      BY <1>0, <2>1, NewBook, LoadTyped DEF Lone, Typed
    <3> QED
      BY <2>1, <2>2, <3>1 DEF Lone, Resizing
  <2>4. ASSUME mishaps' \subseteq {"raised"} PROVE Memory' /\ OnDisk'
    <3>1. InSave = {} /\ mishaps = {} /\ mishaps' = {}
      BY <1>19, <2>4, MishapsStay DEF Restart
    <3>2. Memory /\ OnDisk /\ InSaving = {}
      BY <1>0, <3>1 DEF InSave, InSaving
    <3>3. CASE fitted
      <4>1. \A p \in 0 .. 2 : disk[p] = codebook
        BY <3>2, <3>3 DEF OnDisk
      <4>2. codebook' = codebook /\ up'
        BY <1>t, <2>1, <4>1, LoadSaved
      <4>3. fitted'
        BY <1>0, <2>1, <3>3, <4>2 DEF Trained
      <4> QED
        BY <2>1, <2>2, <3>2, <4>1, <4>2, <4>3 DEF Memory, OnDisk
    <3>4. CASE ~fitted
      <4>1. disk = NoPages /\ DOMAIN vectors = {}
        BY <3>2, <3>4 DEF Memory, OnDisk
      <4>2. codebook' = New(MaxK) /\ up'
        BY <2>1, <4>1, NothingSaved
      <4>3. ~fitted'
        BY <2>1, <4>2, NewBook
      <4> QED
        BY <2>1, <2>2, <4>1, <4>2, <4>3 DEF Memory, OnDisk
    <3> QED
      BY <3>3, <3>4
  <2> QED
    BY <1>0, <2>3, <2>4 DEF Sound
<1>20. CASE (\E file \in Files : Upload(file)) \/ UNCHANGED vars
  <2>1. UNCHANGED <<codebook, fitted, disk, vectors, call, up, mishaps>>
    BY <1>20 DEF Upload, vars
  <2>2. InTraining' = InTraining /\ InSaving' = InSaving
    BY <2>1 DEF InTraining, InSaving
  <2>3. (Lone => Lone') /\ (Memory => Memory') /\ (OnDisk => OnDisk')
    BY <2>1, <2>2 DEF Lone, Memory, OnDisk
  <2> QED
    BY <1>0, <2>3 DEF Sound
<1> QED
  BY <1>1, <1>2, <1>3, <1>4, <1>5, <1>6, <1>7, <1>8, <1>9, <1>10, <1>11, <1>12, <1>13, <1>14, <1>15,
     <1>16, <1>17, <1>18, <1>19, <1>20 DEF Next

\* Hence the invariant holds in every reachable state
LEMMA Invariant == Spec => []IInv
<1>1. IInv /\ [Next]_vars => IInv'
  BY NextTyped, NextTrained, NextSound DEF IInv, Sound
<1> QED
  BY InitIInv, <1>1, PTL DEF Spec

-----------------------------------------------------------------------------
(* What follows *)

\* The types of the variables, also after threads trained together and after a
\* codebook was lost; and a centroid and a weight for each word, in all states
\* but those between the assignments of a training, unless two threads trained
THEOREM TypeCorrect == Spec => []TypeOK
<1>1. IInv => TypeOK
  <2> SUFFICES ASSUME IInv PROVE TypeOK
    OBVIOUS
  <2>1. Typed /\ codebook \in Books
    BY DEF IInv, Typed
  <2>2. DOMAIN disk = 0 .. 2
    BY <2>1 DEF Typed
  <2>3. \A t \in Threads : call[t].at \in Ats
    BY <2>1 DEF Typed, CallTyped
  <2>4. /\ codebook.k \in Lengths /\ codebook.model.n \in Lengths
        /\ Cardinality(codebook.model.centroids) <= codebook.model.n
        /\ codebook.fitted \in BOOLEAN
    BY <2>1 DEF Books, Models
  <2>5. "together" \notin mishaps =>
          OneLength(codebook) \/ \E t \in Threads : call[t].at \in {"model", "ones"}
    BY DEF IInv, Lone, Resizing
  <2> QED
    BY <2>1, <2>2, <2>3, <2>4, <2>5 DEF TypeOK, Typed, Ats, Mishaps
<1> QED
  BY Invariant, <1>1, PTL

\* OneCodebook, of MediaResolver.resolve and the codebook it trains: all vectors
\* of the index are those the codebook in use makes of their files, also after
\* a save that raised
THEOREM VectorsOfOneCodebook == Spec => []OneCodebook
<1>1. IInv => OneCodebook
  BY DEF IInv, Memory, Fits, OneCodebook
<1> QED
  BY Invariant, <1>1, PTL

\* SavedCodebook, of the save after the training and the load at the start: the
\* process can start, and loads the codebook it had
THEOREM CodebookIsSaved == Spec => []SavedCodebook
<1>1. IInv => SavedCodebook
  <2> SUFFICES ASSUME IInv, mishaps = {}
               PROVE  /\ up
                      /\ InSave = {} => Whole(disk) /\ (fitted => Load(disk) = codebook)
                      /\ ~fitted /\ InSave = {} => disk = NoPages
    BY DEF SavedCodebook
  <2>1. Memory /\ OnDisk /\ codebook \in Books
    BY DEF IInv, Typed
  <2>2. ASSUME InSave = {}, fitted PROVE Whole(disk) /\ Load(disk) = codebook
    <3>1. InSaving = {}
      BY <2>2 DEF InSave, InSaving
    <3>2. \A p \in 0 .. 2 : disk[p] = codebook
      BY <2>1, <2>2, <3>1 DEF OnDisk
    <3> QED
      BY <2>1, <3>2, LoadSaved
  <2>3. ASSUME ~fitted PROVE disk = NoPages /\ Whole(disk)
    BY <2>1, <2>3, NothingSaved DEF OnDisk
  <2> QED
    BY <2>1, <2>2, <2>3 DEF Memory
<1> QED
  BY Invariant, <1>1, PTL
=============================================================================
