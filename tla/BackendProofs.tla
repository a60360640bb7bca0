----------------------------- MODULE BackendProofs ----------------------------
(***************************************************************************)
(* Proofs about the parts of a backend that its role does not concern.     *)
(* However many attempts, runs and log lines a function call has, an       *)
(* action starts at most once and a caller hears of one execution;         *)
(* however many replicas boot and crash, their database is initialised     *)
(* once.                                                                   *)
(***************************************************************************)
EXTENDS FunrunCall, FunrunEndpoints, FunrunPod, Boot, FiniteSetTheorems, SequenceTheorems, TLAPS

-----------------------------------------------------------------------------
(* What is on the wire. *)

LEMMA EndingsTyped ==
  ASSUME NEW e \in Endings
  PROVE  e \in Seq(Part) /\ Len(e) \in {0, 1, 2}
  <1>1. CASE \E s \in Status \union {"end"} : e = <<s>>
    BY <1>1 DEF Part
  <1>2. CASE e = <<"result", "end">>
    BY <1>2 DEF Part
  <1>3. CASE e = <<>>
    BY <1>3
  <1>4. QED  BY <1>1, <1>2, <1>3 DEF Endings

\* What is read first.
LEMMA WireHead ==
  ASSUME wire \in Seq(Part), NEW heads \in {0, 1}, NEW n \in Nat, NEW ending \in Endings,
         WireIs(heads, n, ending), wire # <<>>
  PROVE  /\ heads = 1 => Head(wire) = "head"
         /\ heads = 0 /\ n > 0 => Head(wire) = "log"
         /\ heads = 0 /\ n = 0 => ending # <<>> /\ Head(wire) = ending[1]
  <1>1. Len(wire) \in Nat /\ Len(wire) > 0 /\ Head(wire) = wire[1]
    OBVIOUS
  <1>2. Len(ending) \in Nat /\ (Len(ending) > 0 => ending # <<>>)  BY EndingsTyped
  <1>3. QED  BY <1>1, <1>2 DEF WireIs

\* What is left once it is read.
LEMMA WireTail ==
  ASSUME wire \in Seq(Part), NEW heads \in {0, 1}, NEW n \in Nat, NEW ending \in Endings,
         WireIs(heads, n, ending), wire # <<>>, wire' = Tail(wire)
  PROVE  /\ heads = 1 => WireIs(0, n, ending)'
         /\ heads = 0 /\ n > 0 => WireIs(0, n - 1, ending)'
         /\ heads = 0 /\ n = 0 => WireIs(0, 0, Tail(ending))'
  <1>1. /\ Len(wire) \in Nat /\ Len(wire) > 0 /\ Len(wire') = Len(wire) - 1
        /\ \A k \in 1..Len(wire') : wire'[k] = wire[k + 1]
    OBVIOUS
  <1>2. Len(ending) \in Nat /\ ending \in Seq(Part)  BY EndingsTyped
  <1>3. CASE heads = 1  BY <1>1, <1>2, <1>3 DEF WireIs
  <1>4. CASE heads = 0 /\ n > 0  BY <1>1, <1>2, <1>4 DEF WireIs
  <1>5. CASE heads = 0 /\ n = 0
    <2>1. /\ Len(ending) > 0 /\ Len(Tail(ending)) = Len(ending) - 1
          /\ \A k \in 1..Len(Tail(ending)) : Tail(ending)[k] = ending[k + 1]
      BY <1>1, <1>2, <1>5 DEF WireIs
    <2>2. QED  BY <1>1, <1>2, <1>5, <2>1 DEF WireIs
  <1>6. QED  BY <1>3, <1>4, <1>5

\* What is put behind lines that have not ended: more lines, and an ending.
PutIs(more, m, ending) ==
  /\ more \in Seq(Part) /\ Len(more) = m + Len(ending)
  /\ \A k \in 1..Len(more) : more[k] = IF k <= m THEN "log" ELSE ending[k - m]

LEMMA WirePut ==
  ASSUME wire \in Seq(Part), NEW heads \in {0, 1}, NEW n \in Nat, WireIs(heads, n, <<>>),
         NEW more, NEW m \in Nat, NEW ending \in Endings, PutIs(more, m, ending),
         wire' = wire \o more
  PROVE  wire' \in Seq(Part) /\ WireIs(heads, n + m, ending)'
  <1>1. ending \in Seq(Part) /\ Len(ending) \in Nat  BY EndingsTyped
  <1>2. Len(wire) = heads + n  BY DEF WireIs
  <1>3. /\ wire' \in Seq(Part) /\ Len(wire') = heads + n + m + Len(ending)
        /\ \A k \in 1..Len(wire') :
             wire'[k] = IF k <= heads + n THEN wire[k] ELSE more[k - (heads + n)]
    <2>1. /\ wire' \in Seq(Part) /\ Len(wire') = Len(wire) + Len(more)
          /\ \A k \in 1..(Len(wire) + Len(more)) :
               wire'[k] = IF k <= Len(wire) THEN wire[k] ELSE more[k - Len(wire)]
      BY ConcatProperties DEF PutIs
    <2>2. QED  BY <1>1, <1>2, <2>1 DEF PutIs
  <1>4. \A k \in 1..Len(wire') :
          wire'[k] = IF k <= heads THEN "head" ELSE IF k <= heads + (n + m) THEN "log"
                     ELSE ending[k - heads - (n + m)]
    <2> SUFFICES ASSUME NEW k \in 1..Len(wire')
                 PROVE wire'[k] = IF k <= heads THEN "head" ELSE IF k <= heads + (n + m) THEN "log"
                                  ELSE ending[k - heads - (n + m)]
      OBVIOUS
    <2>1. CASE k <= heads + n  BY <1>2, <1>3, <2>1 DEF WireIs
    <2>2. CASE k > heads + n
      <3>1. k - (heads + n) \in 1..(m + Len(ending))  BY <1>1, <1>3, <2>2
      <3>2. wire'[k] = more[k - (heads + n)]  BY <1>3, <2>2
      <3>3. k - (heads + n) - m = k - heads - (n + m)  BY <1>1, <1>3
      <3>4. QED  BY <1>1, <3>1, <3>2, <3>3, <2>2 DEF PutIs
    <2>3. QED  BY <1>1, <1>3, <2>1, <2>2
  <1>5. QED  BY <1>1, <1>3, <1>4 DEF WireIs

LEMMA PutEnding ==
  ASSUME NEW ending \in Endings
  PROVE  PutIs(ending, 0, ending)
  BY EndingsTyped DEF PutIs

LEMMA PutLine == PutIs(<<"log">>, 1, <<>>)
  BY DEF PutIs, Part

LEMMA PutLinesAndEnding ==
  ASSUME NEW m \in Nat, NEW ending \in Endings
  PROVE  PutIs([k \in 1..m |-> "log"] \o ending, m, ending)
  <1> DEFINE logs == [k \in 1..m |-> "log"]
  <1>1. ending \in Seq(Part) /\ Len(ending) \in Nat  BY EndingsTyped
  <1>2. logs \in Seq(Part) /\ Len(logs) = m /\ \A k \in 1..m : logs[k] = "log"
    BY DEF Part
  <1> HIDE DEF logs
  <1>3. /\ logs \o ending \in Seq(Part) /\ Len(logs \o ending) = m + Len(ending)
        /\ \A k \in 1..(m + Len(ending)) :
             (logs \o ending)[k] = IF k <= m THEN logs[k] ELSE ending[k - m]
    BY <1>1, <1>2, ConcatProperties
  <1>4. PutIs(logs \o ending, m, ending)  BY <1>1, <1>2, <1>3 DEF PutIs
  <1>5. QED  BY <1>4 DEF logs

-----------------------------------------------------------------------------
(* The pod's steps. *)

Stage == {"sent", "preparing", "running", "ran", "over"}

\* What every step of a pod has in common.
PodMoves(i) ==
  /\ PodOnly
  /\ server' \in Seq(Stage) /\ Len(server') = Len(server)
  /\ \A j \in Requests \ {i} : server'[j] = server[j]
  /\ server[i] \in {"sent", "preparing", "running"}
  /\ server'[i] = "preparing" => server[i] = "sent" /\ written'[i] = written[i]
  /\ server'[i] # "sent"
  /\ lines' \in [Requests -> 0..MaxLines] /\ written' \in [Requests -> 0..MaxLines]
  /\ \A j \in Requests \ {i} : lines'[j] = lines[j] /\ written'[j] = written[j]
  /\ lines'[i] <= written'[i]
  /\ ~Connected(i) => wire' = wire

LEMMA RequestTyped ==
  ASSUME CallFits, NEW i \in Requests
  PROVE  /\ server \in Seq(Stage) /\ Len(server) \in Nat /\ DOMAIN server = Requests
         /\ lines[i] \in 0..MaxLines /\ written[i] \in 0..MaxLines /\ heard[i] \in Nat
         /\ lines[i] <= written[i] /\ lines[i] \in Nat /\ written[i] \in Nat
         /\ server[i] \in {"sent", "preparing"} => written[i] = 0 /\ lines[i] = 0
  BY FunrunCallAssumption DEF CallFits, CallTypeOK, RequestsFit, Requests, Stage

LEMMA PodStepMoves ==
  ASSUME CallFits, NEW i \in Requests, PodStep(i)
  PROVE  PodMoves(i)
  <1> DEFINE server2(to) == [server EXCEPT ![i] = to]
  <1>1. ASSUME NEW to \in Stage
        PROVE  /\ server2(to) \in Seq(Stage) /\ Len(server2(to)) = Len(server)
               /\ server2(to)[i] = to /\ \A j \in Requests \ {i} : server2(to)[j] = server[j]
    BY RequestTyped, ExceptSeq DEF Requests
  <1>2. /\ lines \in [Requests -> 0..MaxLines] /\ written \in [Requests -> 0..MaxLines]
        /\ 0 \in 0..MaxLines
    BY FunrunCallAssumption DEF CallFits, CallTypeOK
  <1>3. PodOnly  BY DEF PodStep
  <1>4. PICK to \in Stage :
          \/ /\ server' = server2(to) /\ server[i] \in {"sent", "preparing", "running"}
             /\ to # "sent" /\ (to = "preparing" => server[i] = "sent")
             /\ lines' \in {lines, [lines EXCEPT ![i] = 0]} /\ written' = written
             /\ ~Connected(i) => wire' = wire
          \/ WriteLine(i) \/ Forward(i)
    <2>1. CASE Accept(i)  BY <2>1 DEF Accept, Becomes, Put, Stage
    <2>2. CASE Refuse(i)  BY <2>2 DEF Refuse, Becomes, Put, Stage
    <2>3. CASE Reject(i)  BY <2>3 DEF Reject, Becomes, Put, Stage
    <2>4. CASE Execute(i)  BY <2>4 DEF Execute, Becomes, Stage
    <2>5. CASE Complete(i)  BY <2>5 DEF Complete, Becomes, Put, Stage
    <2>6. CASE Err(i)  BY <2>6 DEF Err, Stopped, Put, Stage
    <2>7. CASE Panic(i)  BY <2>7 DEF Panic, Stopped, Put, Stage
    <2>8. CASE Cancel(i)  BY <2>8 DEF Cancel, Stopped, Stage
    <2>9. QED
      BY <2>1, <2>2, <2>3, <2>4, <2>5, <2>6, <2>7, <2>8 DEF PodStep, Stage
  <1> HIDE DEF server2
  <1>5. CASE WriteLine(i) \/ Forward(i)
    <2>1. server' = server /\ server[i] = "running" /\ (~Connected(i) => wire' = wire)
      BY <1>5 DEF WriteLine, Forward, Put
    <2>2. CASE WriteLine(i)
      <3>1. written[i] + 1 \in 0..MaxLines /\ lines[i] + 1 \in 0..MaxLines
        BY <2>2, RequestTyped, FunrunCallAssumption DEF WriteLine
      <3>2. QED  BY <1>2, <1>3, <2>1, <2>2, <3>1, RequestTyped DEF WriteLine, PodMoves
    <2>3. CASE Forward(i)
      <3>1. lines[i] - 1 \in 0..MaxLines
        BY <2>3, RequestTyped, FunrunCallAssumption DEF Forward
      <3>2. QED  BY <1>2, <1>3, <2>1, <2>3, <3>1, RequestTyped DEF Forward, PodMoves
    <2>4. QED  BY <1>5, <2>2, <2>3
  <1>6. CASE ~(WriteLine(i) \/ Forward(i))
    <2>1. /\ server' \in Seq(Stage) /\ Len(server') = Len(server)
          /\ server'[i] = to /\ \A j \in Requests \ {i} : server'[j] = server[j]
      BY <1>1, <1>4, <1>6
    <2>2. /\ lines' \in [Requests -> 0..MaxLines] /\ lines'[i] \in {0, lines[i]}
          /\ \A j \in Requests \ {i} : lines'[j] = lines[j]
      BY <1>2, <1>4, <1>6
    <2>3. QED  BY <1>2, <1>3, <1>4, <1>6, <2>1, <2>2, RequestTyped DEF PodMoves
  <1>7. QED  BY <1>5, <1>6

\* The attempt, once what it consists of is known.
LEMMA AttemptGives ==
  ASSUME wire' \in Seq(Part), server' # <<>>,
         NEW heads \in {0, 1}, NEW n \in Nat, NEW ending \in Endings, AttemptIs(heads, n, ending)'
  PROVE  AttemptFits'
  <1>1. Len(ending) \in Nat  BY EndingsTyped
  <1>2. n \in 0..Len(wire')
    <2>1. Len(wire') = heads + n + Len(ending)  BY DEF AttemptIs, WireIs
    <2>2. QED  BY <1>1, <2>1
  <1>3. QED  BY <1>2 DEF AttemptFits

\* A pod sends to whoever still reads, in order, and nothing after an ending.
LEMMA PodKeepsAttempt ==
  ASSUME CallFits, NEW i \in Requests, PodStep(i)
  PROVE  wire' \in Seq(Part) /\ AttemptFits'
  <1>1. wire \in Seq(Part)  BY DEF CallFits, CallTypeOK
  <1>2. PodMoves(i)  BY PodStepMoves
  <1>3. /\ Present' = Present /\ client' = client /\ parts' = parts /\ held' = held /\ heard' = heard
        /\ server # <<>> /\ server' # <<>>
    BY <1>2, RequestTyped DEF PodMoves, PodOnly, clientVars, Present, Requests, Stage
  <1>4. CASE ~Connected(i)
    <2>1. wire' = wire  BY <1>2, <1>4 DEF PodMoves
    <2>2. SUFFICES ASSUME client \in {"asked", "streaming"}  PROVE AttemptFits'
      BY <1>1, <1>3, <2>1 DEF AttemptFits
    <2>3. PICK heads \in {0, 1}, n \in 0..Len(wire), ending \in Endings : AttemptIs(heads, n, ending)
      BY <2>2 DEF CallFits, AttemptFits
    <2>4. Present \in Requests \ {i}
      BY <1>4, <2>2, RequestTyped DEF Connected, Present, Requests
    <2>5. AttemptIs(heads, n, ending)'
      BY <1>2, <1>3, <2>1, <2>3, <2>4 DEF AttemptIs, WireIs, PodMoves
    <2>6. QED  BY <1>1, <1>3, <2>1, <2>5, AttemptGives
  <1>5. CASE Connected(i)
    <2>1. i = Present /\ client \in {"asked", "streaming"}  BY <1>5 DEF Connected
    <2>2. PICK heads \in {0, 1}, n \in 0..Len(wire), ending \in Endings : AttemptIs(heads, n, ending)
      BY <2>1 DEF CallFits, AttemptFits
    <2>3. /\ ending = <<>> /\ ~held /\ heard[i] + n + lines[i] = written[i]
          /\ heard[i] \in Nat /\ n \in Nat /\ lines[i] \in Nat /\ written[i] \in Nat
          /\ server \in Seq(Stage) /\ lines \in [Requests -> 0..MaxLines]
          /\ written \in [Requests -> 0..MaxLines]
          /\ heard[i] > 0 => parts
          /\ client = "streaming" => heads = 0 /\ server[i] # "sent"
          /\ client = "asked" => ~parts /\ (heads = 0 => n = 0 /\ server[i] = "sent")
          /\ server[i] \in {"sent", "preparing"} => ~parts /\ n = 0 /\ lines[i] = 0 /\ written[i] = 0
          /\ server[i] = "sent" => heads = 0
          /\ WireIs(heads, n, <<>>)
      <3>1. ending = <<>> /\ ~held /\ WireIs(heads, n, <<>>)
        BY <1>2, <2>1, <2>2 DEF AttemptIs, PodMoves
      <3>2. /\ heard[i] \in Nat /\ n \in Nat /\ lines[i] \in Nat /\ written[i] \in Nat
            /\ server \in Seq(Stage) /\ lines \in [Requests -> 0..MaxLines]
            /\ written \in [Requests -> 0..MaxLines]
            /\ server[i] \in {"sent", "preparing"} => lines[i] = 0 /\ written[i] = 0
        BY RequestTyped DEF CallFits, CallTypeOK
      <3>3. <<>> # <<"fatal">>  OBVIOUS
      <3>4. QED  BY <2>1, <2>2, <3>1, <3>2, <3>3 DEF AttemptIs
    <2>count. /\ heard[i] + n + lines[i] = written[i]
           /\ heard[i] \in Nat /\ n \in Nat /\ lines[i] \in Nat /\ written[i] \in Nat
      BY <2>3
    <2>4. \A s \in Status \union {"end"} : <<s>> \in Endings /\ <<s>> # <<>> /\ <<s>>[1] = s
      BY DEF Endings
    <2>5. <<>> \in Endings /\ <<"result", "end">> \in Endings /\ <<"result", "end">> # <<>>
          /\ \A s \in Status \union {"end"} : <<s>> # <<"result", "end">>
      BY DEF Endings
    <2>6. CASE Accept(i)
      <3>1. server[i] = "sent" /\ server'[i] = "preparing" /\ wire' = wire \o <<"head">>
            /\ lines' = lines /\ written' = written
        BY <1>5, <2>3, <2>6, RequestTyped DEF Becomes, Accept, Put, Requests
      <3>2. wire = <<>>  BY <1>1, <2>3, <3>1 DEF WireIs
      <3>3. wire' = <<"head">>  BY <3>1, <3>2
      <3>4. wire' \in Seq(Part) /\ WireIs(1, 0, <<>>)'  BY <3>3 DEF WireIs, Part
      <3>5. AttemptIs(1, 0, <<>>)'
        BY <1>3, <2>1, <2>3, <2>5, <3>1, <3>4 DEF AttemptIs
      <3>6. QED  BY <1>3, <2>5, <3>4, <3>5, AttemptGives
    <2>7. ASSUME NEW s \in Status \union {"end"}, wire' = wire \o <<s>>
          PROVE  wire' \in Seq(Part) /\ WireIs(heads, n, <<s>>)'
      <3>1. PutIs(<<s>>, 0, <<s>>)  BY <2>4, PutEnding
      <3>2. wire' \in Seq(Part) /\ WireIs(heads, n + 0, <<s>>)'
        BY <1>1, <2>3, <2>4, <2>7, <3>1, WirePut
      <3>3. QED  BY <2>3, <3>2
    <2>8. ASSUME NEW m \in Nat, NEW left \in Nat, left = lines[i], m = n + left,
                 NEW ending2 \in Endings,
                 wire' = wire \o ([k \in 1..lines[i] |-> "log"] \o ending2)
          PROVE  wire' \in Seq(Part) /\ WireIs(heads, m, ending2)'
      <3>1. PutIs([k \in 1..left |-> "log"] \o ending2, left, ending2)
        BY PutLinesAndEnding
      <3>2. QED  BY <1>1, <2>3, <2>8, <3>1, WirePut
    <2>9. CASE Refuse(i)
      <3>1. server[i] = "sent" /\ server'[i] = "over" /\ wire' = wire \o <<"fatal">>
            /\ lines' = lines /\ written' = written
        BY <1>5, <2>3, <2>9, RequestTyped DEF Becomes, Refuse, Put, Requests
      <3>2. wire' \in Seq(Part) /\ WireIs(heads, n, <<"fatal">>)'  BY <2>7, <3>1 DEF Status
      <3>3. AttemptIs(heads, n, <<"fatal">>)'
        BY <1>3, <2>1, <2>3, <2>4, <2>5, <3>1, <3>2 DEF AttemptIs
      <3>4. QED  BY <1>3, <2>3, <2>4, <3>2, <3>3, AttemptGives DEF Status
    <2>10. CASE Reject(i)
      <3>1. server[i] = "preparing" /\ server'[i] = "over" /\ wire' = wire \o <<"rejected">>
            /\ lines' = lines /\ written' = written
        BY <1>5, <2>3, <2>10, RequestTyped DEF Becomes, Reject, Put, Requests
      <3>2. wire' \in Seq(Part) /\ WireIs(heads, n, <<"rejected">>)'  BY <2>7, <3>1 DEF Status
      <3>3. AttemptIs(heads, n, <<"rejected">>)'
        BY <1>3, <2>1, <2>3, <2>4, <2>5, <3>1, <3>2 DEF AttemptIs
      <3>4. QED  BY <1>3, <2>3, <2>4, <3>2, <3>3, AttemptGives DEF Status
    <2>11. CASE Execute(i)
      <3>1. server[i] = "preparing" /\ server'[i] = "running" /\ wire' = wire
            /\ lines' = lines /\ written' = written
        BY <2>3, <2>11, RequestTyped DEF Becomes, Execute, Requests
      <3>2. wire' \in Seq(Part) /\ WireIs(heads, n, <<>>)'  BY <1>1, <2>3, <3>1 DEF WireIs
      <3>3. AttemptIs(heads, n, <<>>)'
        BY <1>3, <2>1, <2>3, <2>5, <3>1, <3>2 DEF AttemptIs
      <3>4. QED  BY <1>3, <2>3, <2>5, <3>2, <3>3, AttemptGives
    <2>12. CASE WriteLine(i)
      <3>1. server[i] = "running" /\ server' = server /\ wire' = wire
            /\ lines'[i] = lines[i] + 1 /\ written'[i] = written[i] + 1
        BY <2>3, <2>12 DEF WriteLine
      <3>2. wire' \in Seq(Part) /\ WireIs(heads, n, <<>>)'  BY <1>1, <2>3, <3>1 DEF WireIs
      <3>3. heard[i] + n + lines'[i] = written'[i]
        <4>1. PICK h \in Nat, b \in Nat, w \in Nat : heard[i] = h /\ lines[i] = b /\ written[i] = w
          BY <2>count
        <4>2. h + n + (b + 1) = w + 1  BY <2>count, <4>1
        <4>3. QED  BY <3>1, <4>1, <4>2
      <3>4. AttemptIs(heads, n, <<>>)'
        BY <1>3, <2>1, <2>3, <2>5, <3>1, <3>2, <3>3 DEF AttemptIs
      <3>5. QED  BY <1>3, <2>3, <2>5, <3>2, <3>4, AttemptGives
    <2>13. CASE Forward(i)
      <3>1. server[i] = "running" /\ server' = server /\ wire' = wire \o <<"log">>
        BY <1>5, <2>13 DEF Forward, Put
      <3>c. lines'[i] = lines[i] - 1 /\ written' = written
        BY <2>3, <2>13 DEF Forward
      <3>2. PICK m \in Nat : m = n + 1  BY <2>count
      <3>3. wire' \in Seq(Part) /\ WireIs(heads, m, <<>>)'
        BY <1>1, <2>3, <2>5, <3>1, <3>2, PutLine, WirePut
      <3>4. heard[i] + m + lines'[i] = written'[i]
        <4>1. PICK h \in Nat, b \in Nat, w \in Nat : heard[i] = h /\ lines[i] = b /\ written[i] = w
          BY <2>count
        <4>2. h + n + b = w  BY <2>count, <4>1
        <4>3. h + m + (b - 1) = w  BY <2>count, <3>2, <4>2
        <4>4. lines'[i] = b - 1 /\ written'[i] = w  BY <3>c, <4>1
        <4>5. QED  BY <4>1, <4>3, <4>4
      <3>5. AttemptIs(heads, m, <<>>)'
        BY <1>3, <2>1, <2>3, <2>5, <3>1, <3>c, <3>3, <3>4 DEF AttemptIs
      <3>6. QED  BY <1>3, <2>3, <2>5, <3>3, <3>5, AttemptGives
    <2>14. CASE Complete(i)
      <3>1. /\ server[i] = "running" /\ server'[i] = "ran" /\ lines'[i] = 0 /\ written' = written
            /\ wire' = wire \o ([k \in 1..lines[i] |-> "log"] \o <<"result", "end">>)
        BY <1>5, <2>3, <2>14, RequestTyped DEF Becomes, Complete, Put, Requests
      <3>2. PICK m \in Nat, left \in Nat : left = lines[i] /\ m = n + left
        <4>1. PICK b \in Nat : b = lines[i]  BY <2>count
        <4>2. n + b \in Nat  BY <2>count
        <4>3. QED  BY <4>1, <4>2
      <3>3. wire' \in Seq(Part) /\ WireIs(heads, m, <<"result", "end">>)'
        BY <2>5, <2>8, <3>1, <3>2
      <3>4. heard[i] + m + lines'[i] = written'[i]  BY <2>count, <3>1, <3>2
      <3>5. AttemptIs(heads, m, <<"result", "end">>)'
        BY <1>3, <2>1, <2>3, <2>4, <2>5, <3>1, <3>3, <3>4 DEF AttemptIs
      <3>6. QED  BY <1>3, <2>3, <2>5, <3>3, <3>5, AttemptGives
    <2>15. CASE Err(i)
      <3>1. PICK s \in {"transport", "fatal"} :
                 wire' = wire \o ([k \in 1..lines[i] |-> "log"] \o <<s>>)
        BY <1>5, <2>15 DEF Err, Put, Status
      <3>2. /\ server[i] \in {"preparing", "running"} /\ server'[i] \in {"over", "ran"}
            /\ lines'[i] = 0 /\ written' = written
        BY <2>3, <2>15, RequestTyped DEF Stopped, Err, Requests
      <3>3. PICK m \in Nat, left \in Nat : left = lines[i] /\ m = n + left
        <4>1. PICK b \in Nat : b = lines[i]  BY <2>count
        <4>2. n + b \in Nat  BY <2>count
        <4>3. QED  BY <4>1, <4>2
      <3>4. s \in Status \union {"end"} /\ <<s>> # <<"rejected">>  BY DEF Status
      <3>5. wire' \in Seq(Part) /\ WireIs(heads, m, <<s>>)'
        BY <2>4, <2>8, <3>1, <3>3, <3>4
      <3>6. heard[i] + m + lines'[i] = written'[i]  BY <2>count, <3>2, <3>3
      <3>c. server[i] = "preparing" => m = 0  BY <2>3, <3>3
      <3>7. AttemptIs(heads, m, <<s>>)'
        BY <1>3, <2>1, <2>3, <2>4, <2>5, <3>2, <3>4, <3>5, <3>6, <3>c DEF AttemptIs
      <3>8. QED  BY <1>3, <2>3, <2>4, <3>4, <3>5, <3>7, AttemptGives
    <2>16. CASE Panic(i)
      <3>1. /\ server[i] \in {"preparing", "running"} /\ server'[i] \in {"over", "ran"}
            /\ wire' = wire \o <<"end">> /\ lines' = lines /\ written' = written
        BY <1>5, <2>3, <2>16, RequestTyped DEF Stopped, Panic, Put, Requests
      <3>2. wire' \in Seq(Part) /\ WireIs(heads, n, <<"end">>)'  BY <2>7, <3>1 DEF Status
      <3>3. AttemptIs(heads, n, <<"end">>)'
        BY <1>3, <2>1, <2>3, <2>4, <2>5, <3>1, <3>2 DEF AttemptIs
      <3>4. QED  BY <1>3, <2>3, <2>4, <3>2, <3>3, AttemptGives DEF Status
    <2>17. CASE Cancel(i)
      <3>1. /\ server[i] \in {"preparing", "running"} /\ server'[i] \in {"over", "ran"}
            /\ wire' = wire /\ lines' = lines /\ written' = written
        BY <2>3, <2>17, RequestTyped DEF Stopped, Cancel, Requests
      <3>2. wire' \in Seq(Part) /\ WireIs(heads, n, <<>>)'  BY <1>1, <2>3, <3>1 DEF WireIs
      <3>3. AttemptIs(heads, n, <<>>)'
        BY <1>3, <2>1, <2>3, <2>5, <3>1, <3>2 DEF AttemptIs
      <3>4. QED  BY <1>3, <2>3, <2>5, <3>2, <3>3, AttemptGives
    <2>18. QED
      BY <2>6, <2>9, <2>10, <2>11, <2>12, <2>13, <2>14, <2>15, <2>16, <2>17 DEF PodStep
  <1>6. QED  BY <1>4, <1>5

LEMMA PodKeepsFits ==
  ASSUME CallFits, NEW i \in Requests, PodStep(i)
  PROVE  CallFits'
  <1>1. PodMoves(i)  BY PodStepMoves
  <1>2. wire' \in Seq(Part) /\ AttemptFits'  BY PodKeepsAttempt
  <1>3. /\ kind' = kind /\ scheduled' = scheduled /\ runs' = runs /\ client' = client
        /\ attempt' = attempt /\ parts' = parts /\ held' = held /\ outcome' = outcome
        /\ heard' = heard /\ Present' = Present /\ Requests' = Requests /\ Len(server') = Len(server)
    BY <1>1 DEF PodMoves, PodOnly, clientVars, Present, Requests
  <1>4. CallTypeOK'  BY <1>1, <1>2, <1>3 DEF CallFits, CallTypeOK, PodMoves, Stage
  <1>5. ClientFits'
    <2>1. client \in {"start", "over"} => wire' = wire
      BY <1>1 DEF PodMoves, Connected
    <2>2. outcome = "result" =>
            /\ server' # <<>> /\ server'[Present] = "ran" /\ written'[Present] = written[Present]
      <3> SUFFICES ASSUME outcome = "result"
                   PROVE /\ server' # <<>> /\ server'[Present] = "ran"
                         /\ written'[Present] = written[Present]
        OBVIOUS
      <3>1. server # <<>> /\ server[Present] = "ran"  BY DEF CallFits, ClientFits
      <3>2. Present \in Requests \ {i}  BY <1>1, <3>1, RequestTyped DEF PodMoves, Present, Requests
      <3>3. server'[Present] = "ran" /\ written'[Present] = written[Present]
        BY <1>1, <3>1, <3>2 DEF PodMoves
      <3>4. server' # <<>>  BY <1>1, <3>2, RequestTyped DEF PodMoves, Requests
      <3>5. QED  BY <3>3, <3>4
    <2>3. QED  BY <1>3, <2>1, <2>2 DEF CallFits, ClientFits
  <1>6. RequestsFit'
    <2>1. ASSUME NEW j \in Requests
          PROVE  /\ lines'[j] <= written'[j]
                 /\ server'[j] \in {"sent", "preparing"} => written'[j] = 0
                 /\ server'[j] # "over" => server[j] # "over"
      <3>1. CASE j = i  BY <1>1, <3>1, RequestTyped DEF PodMoves
      <3>2. CASE j # i
        <4>1. lines'[j] = lines[j] /\ written'[j] = written[j] /\ server'[j] = server[j]
          BY <1>1, <3>2 DEF PodMoves
        <4>2. QED  BY <4>1, RequestTyped
      <3>3. QED  BY <3>1, <3>2
    <2>2. QED  BY <1>3, <2>1 DEF CallFits, RequestsFit
  <1>7. QED  BY <1>2, <1>4, <1>5, <1>6 DEF CallFits

-----------------------------------------------------------------------------
(* The client's steps. *)

\* As long as a call lasts and nothing was received, no line was heard.
LEMMA HeardNothing ==
  ASSUME CallFits, client # "over", client = "start" \/ ~parts
  PROVE  \A i \in Requests : heard[i] = 0
  <1> SUFFICES ASSUME NEW i \in Requests, heard[i] > 0  PROVE FALSE
    BY RequestTyped
  <1>1. i = Present /\ client = "streaming"  BY DEF CallFits, RequestsFit
  <1>2. heard[Present] > 0 => parts  BY <1>1 DEF CallFits, AttemptFits, AttemptIs
  <1>3. QED  BY <1>1, <1>2

\* An attempt that failed, whether it is tried again or not.
LEMMA FailureFits ==
  ASSUME CallFits, client # "over", NEW f \in Failure, NEW received \in BOOLEAN,
         Fails(f, received), Quiet,
         received = parts \/ client = "start",
         f \in {"noEndpoints", "rejected"} =>
           (client = "start" \/ ~parts)
           /\ \A i \in Requests : kind # "query" => server[i] = "over"
  PROVE  CallFits'
  <1>1. /\ wire' = <<>> /\ parts' = FALSE /\ held' = FALSE /\ kind' = kind
        /\ scheduled' = scheduled /\ runs' = runs /\ server' = server /\ lines' = lines
        /\ written' = written /\ heard' = heard /\ Present' = Present /\ Requests' = Requests
    BY DEF Fails, Quiet, Present, Requests
  <1>2. \/ mayRetry(f, received) /\ client' = "start" /\ attempt' = attempt + 1 /\ outcome' = outcome
        \/ /\ client' = "over" /\ attempt' = attempt
           /\ outcome' = IF f \in {"noEndpoints", "rejected"} THEN "rejected" ELSE "error"
    BY DEF Fails
  <1>3. attempt \in Nat /\ MaxAttempts \in Nat /\ outcome \notin {"result", "error"}
    BY FunrunCallAssumption DEF CallFits, CallTypeOK, ClientFits
  <1>4. attempt' \in 0..(MaxAttempts - 1)
    BY <1>2, <1>3 DEF CallFits, CallTypeOK, mayRetry
  <1>5. CallTypeOK'
    <2>1. outcome' \in {"none", "result", "rejected", "error"} /\ client' \in {"start", "over"}
      BY <1>2 DEF CallFits, CallTypeOK
    <2>2. wire' \in Seq(Part)
      <3>1. wire' = <<>>  BY <1>1
      <3>2. QED  BY <3>1
    <2>3. parts' \in BOOLEAN /\ held' \in BOOLEAN  BY <1>1, Zenon
    <2>4. Len(server') <= MaxAttempts * MaxRuns
      BY <1>1 DEF CallFits, CallTypeOK
    <2>5. QED  BY <1>1, <1>4, <2>1, <2>2, <2>3, <2>4 DEF CallFits, CallTypeOK
  <1>6. AttemptFits'  BY <1>2 DEF AttemptFits
  <1>7. ClientFits'  BY <1>1, <1>2, <1>3 DEF CallFits, ClientFits
  <1>8. RequestsFit'
    <2>1. Len(server) <= (runs - 1) * MaxAttempts + attempt' + (IF client' = "start" THEN 0 ELSE 1)
      <3> DEFINE before == (runs - 1) * MaxAttempts
      <3>1. before \in Int /\ Len(server) \in Nat
        BY <1>3, RequestTyped DEF CallFits, CallTypeOK
      <3>2. Len(server) <= before + attempt + (IF client = "start" THEN 0 ELSE 1)
        BY DEF CallFits, RequestsFit
      <3> HIDE DEF before
      <3>3. Len(server) <= before + attempt' + (IF client' = "start" THEN 0 ELSE 1)
        BY <1>2, <1>3, <3>1, <3>2
      <3>4. QED  BY <3>3 DEF before
    <2>2. ASSUME NEW i \in Requests, heard[i] > 0
          PROVE  i = Present /\ client' = "over" /\ outcome' # "rejected"
      <3>1. ~(client = "start" \/ ~parts)  BY <2>2, HeardNothing
      <3>2. QED  BY <1>2, <2>2, <3>1 DEF CallFits, RequestsFit, mayRetry
    <2>3. ASSUME NEW i \in Requests, kind # "query", server[i] # "over"
          PROVE  i = Present /\ client' # "start" /\ (client' = "over" => outcome' # "rejected")
      <3>1. f \notin {"noEndpoints", "rejected"}  BY <2>3
      <3>2. ~mayRetry(f, received)
        BY <2>3, <3>1 DEF mayRetry, retryReason, is_retryable_rpc, hasDeadline, Status
      <3>3. QED  BY <1>2, <2>3, <3>1, <3>2 DEF CallFits, RequestsFit
    <2>4. \A i \in Requests :
            lines[i] <= written[i] /\ (server[i] \in {"sent", "preparing"} => written[i] = 0)
      BY DEF CallFits, RequestsFit
    <2>5. QED  BY <1>1, <2>1, <2>2, <2>3, <2>4 DEF RequestsFit
  <1>9. QED  BY <1>5, <1>6, <1>7, <1>8 DEF CallFits

\* While an attempt lasts, and something of it is left to read.
LEMMA Reading ==
  ASSUME CallFits, client \in {"asked", "streaming"}
  PROVE  \E heads \in {0, 1}, n \in Nat, ending \in Endings :
           /\ AttemptIs(heads, n, ending)
           /\ client = "streaming" => heads = 0
           /\ wire # <<>> =>
                /\ Head(wire) = "head" => heads = 1
                /\ Head(wire) = "log" => heads = 0 /\ n > 0
                /\ Head(wire) \notin {"head", "log"} => heads = 0 /\ n = 0 /\ ending[1] = Head(wire)
  <1>1. wire \in Seq(Part)  BY DEF CallFits, CallTypeOK
  <1>2. PICK heads \in {0, 1}, n \in 0..Len(wire), ending \in Endings : AttemptIs(heads, n, ending)
    BY DEF CallFits, AttemptFits
  <1>3. n \in Nat /\ WireIs(heads, n, ending) /\ (client = "streaming" => heads = 0)
    BY <1>1, <1>2 DEF AttemptIs
  <1>4. ending # <<>> => ending[1] \notin {"head", "log"}  BY DEF Endings, Status
  <1>5. wire # <<>> =>
          /\ heads = 1 => Head(wire) = "head"
          /\ heads = 0 /\ n > 0 => Head(wire) = "log"
          /\ heads = 0 /\ n = 0 => ending # <<>> /\ Head(wire) = ending[1]
    BY <1>1, <1>3, WireHead
  <1>6. wire # <<>> =>
          /\ Head(wire) = "head" => heads = 1
          /\ Head(wire) = "log" => heads = 0 /\ n > 0
          /\ Head(wire) \notin {"head", "log"} => heads = 0 /\ n = 0 /\ ending[1] = Head(wire)
    BY <1>3, <1>4, <1>5
  <1>7. QED  BY <1>2, <1>3, <1>6

LEMMA SendKeepsFits ==
  ASSUME CallFits, Send
  PROVE  CallFits'
  <1>1. /\ server' = Append(server, "sent") /\ lines' = Append(lines, 0)
        /\ written' = Append(written, 0) /\ heard' = Append(heard, 0)
        /\ client = "start" /\ client' = "asked" /\ wire' = wire /\ wire = <<>>
        /\ kind' = kind /\ scheduled' = scheduled /\ runs' = runs /\ attempt' = attempt
        /\ parts' = parts /\ held' = held /\ outcome' = outcome /\ ~parts /\ ~held
        /\ outcome \notin {"result", "error"}
    BY DEF Send, CallFits, ClientFits
  <1>2. /\ server \in Seq(Stage) /\ Len(server) \in Nat
        /\ lines \in [Requests -> 0..MaxLines] /\ written \in [Requests -> 0..MaxLines]
        /\ heard \in [Requests -> Nat] /\ 0 \in 0..MaxLines
    BY RequestTyped, FunrunCallAssumption DEF CallFits, CallTypeOK, Stage
  <1>3. /\ server' \in Seq(Stage) /\ Len(server') = Len(server) + 1
        /\ server'[Len(server')] = "sent" /\ \A i \in Requests : server'[i] = server[i]
    BY <1>1, <1>2 DEF Requests, Stage
  <1>4. Present' = Present + 1 /\ Requests' = Requests \union {Present'} /\ Present' \notin Requests
    BY <1>2, <1>3 DEF Present, Requests
  <1>5. ASSUME NEW S, 0 \in S, NEW f \in [Requests -> S]
        PROVE  /\ Append(f, 0) \in [Requests' -> S] /\ Append(f, 0)[Present'] = 0
               /\ \A i \in Requests : Append(f, 0)[i] = f[i]
    <2>1. f \in Seq(S) /\ Len(f) = Len(server)  BY <1>2, <1>5 DEF Requests
    <2>2. /\ Append(f, 0) \in Seq(S) /\ Len(Append(f, 0)) = Len(f) + 1
          /\ Append(f, 0)[Len(f) + 1] = 0
          /\ \A i \in 1..Len(f) : Append(f, 0)[i] = f[i]
      BY <1>5, <2>1
    <2>3. Present' = Len(f) + 1 /\ Requests = 1..Len(f) /\ Requests' = 1..(Len(f) + 1)
      BY <1>3, <2>1 DEF Requests, Present
    <2>4. Append(f, 0) \in [1..(Len(f) + 1) -> S]
      BY <2>2, LenProperties
    <2>5. QED  BY <2>2, <2>3, <2>4
  <1>6. /\ lines' \in [Requests' -> 0..MaxLines] /\ written' \in [Requests' -> 0..MaxLines]
        /\ heard' \in [Requests' -> Nat]
        /\ lines'[Present'] = 0 /\ written'[Present'] = 0 /\ heard'[Present'] = 0
        /\ \A i \in Requests : lines'[i] = lines[i] /\ written'[i] = written[i] /\ heard'[i] = heard[i]
    BY <1>1, <1>2, <1>5
  <1>7. Len(server') <= (runs - 1) * MaxAttempts + attempt + 1
    <2> DEFINE before == (runs - 1) * MaxAttempts
    <2>1. before \in Int /\ attempt \in Nat
      BY FunrunCallAssumption DEF CallFits, CallTypeOK
    <2>2. Len(server) <= before + attempt + 0  BY <1>1 DEF CallFits, RequestsFit
    <2> HIDE DEF before
    <2>3. Len(server') <= before + attempt + 1  BY <1>2, <1>3, <2>1, <2>2
    <2>4. QED  BY <2>3 DEF before
  <1>8. Len(server') <= MaxAttempts * MaxRuns
    <2>1. runs \in 1..MaxRuns /\ attempt \in 0..(MaxAttempts - 1)  BY DEF CallFits, CallTypeOK
    <2>2. (runs - 1) * MaxAttempts + MaxAttempts <= MaxAttempts * MaxRuns
      BY <2>1, FunrunCallAssumption
    <2> DEFINE before == (runs - 1) * MaxAttempts
               all == MaxAttempts * MaxRuns
    <2>3. before \in Int /\ all \in Int /\ MaxAttempts \in Nat /\ Len(server') \in Nat
      BY <1>2, <1>3, <2>1, FunrunCallAssumption
    <2>4. before + MaxAttempts <= all /\ Len(server') <= before + attempt + 1
      BY <1>7, <2>2
    <2> HIDE DEF before, all
    <2>5. Len(server') <= all  BY <2>1, <2>3, <2>4
    <2>6. QED  BY <2>5 DEF all
  <1>9. CallTypeOK'
    BY <1>1, <1>3, <1>6, <1>8 DEF CallFits, CallTypeOK, Stage
  <1>10. AttemptFits'
    <2>1. wire' \in Seq(Part) /\ server' # <<>> /\ <<>> \in Endings
      <3>1. wire' = <<>>  BY <1>1
      <3>2. QED  BY <1>2, <1>3, <3>1 DEF Endings
    <2>2. WireIs(0, 0, <<>>)'  BY <1>1 DEF WireIs
    <2>3. server'[Present'] = "sent"  BY <1>3 DEF Present
    <2>4. heard'[Present'] + 0 + lines'[Present'] = written'[Present']  BY <1>6
    <2>5. AttemptIs(0, 0, <<>>)'
      <3>1. <<>> # <<"rejected">> /\ <<>> # <<"result", "end">>  OBVIOUS
      <3>2. ~(heard'[Present'] > 0) /\ lines'[Present'] = 0  BY <1>6
      <3>3. ~parts' /\ ~held' /\ client' = "asked"  BY <1>1
      <3>4. QED  BY <2>2, <2>3, <2>4, <3>1, <3>2, <3>3 DEF AttemptIs
    <2>6. QED  BY <2>1, <2>5, AttemptGives
  <1>11. ClientFits'  BY <1>1 DEF CallFits, ClientFits
  <1>12. RequestsFit'
    <2>1. ASSUME NEW i \in Requests
          PROVE  /\ heard[i] = 0 /\ lines[i] <= written[i]
                 /\ server[i] \in {"sent", "preparing"} => written[i] = 0
                 /\ kind # "query" => server[i] = "over"
      BY <1>1, HeardNothing DEF CallFits, RequestsFit
    <2>2. \A i \in Requests' :
            /\ lines'[i] <= written'[i]
            /\ server'[i] \in {"sent", "preparing"} => written'[i] = 0
            /\ ~(heard'[i] > 0)
            /\ i # Present' /\ kind # "query" => server'[i] = "over"
      BY <1>3, <1>4, <1>6, <2>1
    <2>3. QED  BY <1>1, <1>7, <2>2 DEF RequestsFit
  <1>13. QED  BY <1>9, <1>10, <1>11, <1>12 DEF CallFits

LEMMA ReadHeadKeepsFits ==
  ASSUME CallFits, ReadHead
  PROVE  CallFits'
  <1>1. /\ client = "asked" /\ wire # <<>> /\ Head(wire) = "head" /\ client' = "streaming"
        /\ wire' = Tail(wire) /\ kind' = kind /\ scheduled' = scheduled /\ runs' = runs
        /\ attempt' = attempt /\ parts' = parts /\ held' = held /\ outcome' = outcome
        /\ server' = server /\ lines' = lines /\ written' = written /\ heard' = heard
        /\ Present' = Present /\ Requests' = Requests
    BY DEF ReadHead, Quiet, Present, Requests
  <1>2. wire \in Seq(Part) /\ wire' \in Seq(Part)
    <2>1. wire \in Seq(Part)  BY DEF CallFits, CallTypeOK
    <2>2. QED  BY <1>1, <2>1
  <1>3. PICK n \in Nat, ending \in Endings : AttemptIs(1, n, ending)
    BY <1>1, Reading
  <1>4. WireIs(0, n, ending)'
    BY <1>1, <1>2, <1>3, WireTail DEF AttemptIs
  <1>5. AttemptIs(0, n, ending)'  BY <1>1, <1>3, <1>4 DEF AttemptIs
  <1>6. server' # <<>>  BY <1>1 DEF CallFits, AttemptFits
  <1>7. AttemptFits'  BY <1>2, <1>5, <1>6, AttemptGives
  <1>8. CallTypeOK'  BY <1>1, <1>2 DEF CallFits, CallTypeOK
  <1>9. ClientFits'  BY <1>1 DEF CallFits, ClientFits
  <1>10. RequestsFit'  BY <1>1 DEF CallFits, RequestsFit
  <1>11. QED  BY <1>7, <1>8, <1>9, <1>10 DEF CallFits

LEMMA ReadPartKeepsFits ==
  ASSUME CallFits, ReadPart
  PROVE  CallFits'
  <1>1. client = "streaming" /\ wire # <<>> /\ outcome \notin {"result", "error"}
    BY DEF ReadPart, CallFits, ClientFits
  <1>2. PICK n \in Nat, ending \in Endings :
          /\ AttemptIs(0, n, ending)
          /\ Head(wire) = "log" => n > 0
          /\ Head(wire) \in {"result", "end"} => n = 0 /\ ending[1] = Head(wire)
    BY <1>1, Reading
  <1>3. /\ wire \in Seq(Part) /\ WireIs(0, n, ending) /\ server # <<>>
        /\ Present \in Requests /\ heard[Present] \in Nat /\ lines[Present] \in Nat
    <2>1. wire \in Seq(Part) /\ server # <<>>  BY <1>1 DEF CallFits, CallTypeOK, AttemptFits
    <2>2. server \in Seq(Stage)  BY DEF CallFits, CallTypeOK, Stage
    <2>3. Present \in Requests  BY <2>1, <2>2 DEF Present, Requests
    <2>4. QED  BY <1>2, <2>1, <2>3, RequestTyped DEF AttemptIs
  <1>4. CASE Head(wire) = "log"
    <2>1. /\ wire' = Tail(wire) /\ parts' = TRUE /\ heard' = [heard EXCEPT ![Present] = @ + 1]
          /\ kind' = kind /\ scheduled' = scheduled /\ runs' = runs /\ client' = client
          /\ attempt' = attempt /\ held' = held /\ outcome' = outcome
          /\ server' = server /\ lines' = lines /\ written' = written
          /\ Present' = Present /\ Requests' = Requests
      BY <1>4 DEF ReadPart, Present, Requests
    <2>2. wire' \in Seq(Part)  BY <1>1, <1>3, <2>1
    <2>3. PICK m \in Nat : n = m + 1  BY <1>2, <1>4
    <2>4. WireIs(0, m, ending)'
      <3>1. n - 1 = m /\ n > 0  BY <2>3
      <3>2. WireIs(0, n - 1, ending)'  BY <1>1, <1>3, <2>1, <3>1, WireTail
      <3>3. QED  BY <3>1, <3>2
    <2>5. heard'[Present] + m + lines[Present] = written[Present]
      <3>1. heard'[Present] = heard[Present] + 1
        BY <1>3, <2>1 DEF CallFits, CallTypeOK
      <3>2. heard[Present] + n + lines[Present] = written[Present]  BY <1>2 DEF AttemptIs
      <3>3. QED  BY <1>3, <2>3, <3>1, <3>2
    <2>6. server[Present] \notin {"sent", "preparing"} /\ ending # <<"rejected">> /\ ~held
      BY <1>2, <1>4 DEF AttemptIs
    <2>7. AttemptIs(0, m, ending)'
      <3>1. parts' /\ ~held' /\ client' = "streaming"  BY <1>1, <2>1, <2>6
      <3>2. QED  BY <1>2, <2>1, <2>4, <2>5, <2>6, <3>1 DEF AttemptIs
    <2>8. AttemptFits'  BY <1>3, <2>1, <2>2, <2>7, AttemptGives
    <2>9. CallTypeOK'
      <3>1. heard' \in [Requests -> Nat]
        BY <1>3, <2>1 DEF CallFits, CallTypeOK
      <3>2. parts' \in BOOLEAN  BY <2>1, Zenon
      <3>3. QED  BY <2>1, <2>2, <3>1, <3>2 DEF CallFits, CallTypeOK
    <2>10. ClientFits'  BY <1>1, <2>1 DEF CallFits, ClientFits
    <2>11. RequestsFit'
      <3>1. \A i \in Requests : heard'[i] > 0 => i = Present
        BY <1>3, <2>1 DEF CallFits, CallTypeOK, RequestsFit
      <3>2. QED  BY <1>1, <2>1, <3>1 DEF CallFits, RequestsFit
    <2>12. QED  BY <2>8, <2>9, <2>10, <2>11 DEF CallFits
  <1>5. CASE Head(wire) = "result"
    <2>1. /\ wire' = Tail(wire) /\ parts' = TRUE /\ held' = TRUE
          /\ kind' = kind /\ scheduled' = scheduled /\ runs' = runs /\ client' = client
          /\ attempt' = attempt /\ outcome' = outcome
          /\ server' = server /\ lines' = lines /\ written' = written /\ heard' = heard
          /\ Present' = Present /\ Requests' = Requests
      BY <1>5 DEF ReadPart, Quiet, Present, Requests
    <2>2. wire' \in Seq(Part)  BY <1>1, <1>3, <2>1
    <2>3. n = 0 /\ ending = <<"result", "end">>
      <3>1. n = 0 /\ ending[1] = "result"  BY <1>2, <1>5
      <3>2. ending # <<>>  BY <1>1, <1>2, <1>3, <1>5, WireHead
      <3>3. QED  BY <3>1, <3>2 DEF Endings, Status
    <2>4. WireIs(0, 0, <<"end">>)'
      <3>1. WireIs(0, 0, Tail(ending))'  BY <1>1, <1>3, <2>1, <2>3, WireTail
      <3>2. Tail(<<"result", "end">>) = <<"end">>  OBVIOUS
      <3>3. QED  BY <2>3, <3>1, <3>2
    <2>5. server[Present] = "ran" /\ lines[Present] = 0 /\ heard[Present] + 0 + 0 = written[Present]
      BY <1>2, <2>3 DEF AttemptIs
    <2>6. AttemptIs(0, 0, <<"end">>)'
      <3>1. <<"end">> # <<"rejected">> /\ parts' /\ client' = "streaming"  BY <1>1, <2>1
      <3>2. QED  BY <2>1, <2>4, <2>5, <3>1 DEF AttemptIs
    <2>7. <<"end">> \in Endings  BY DEF Endings
    <2>8. AttemptFits'  BY <1>3, <2>1, <2>2, <2>6, <2>7, AttemptGives
    <2>9. CallTypeOK'
      <3>1. parts' \in BOOLEAN /\ held' \in BOOLEAN  BY <2>1, Zenon
      <3>2. QED  BY <2>1, <2>2, <3>1 DEF CallFits, CallTypeOK
    <2>10. ClientFits'  BY <1>1, <2>1 DEF CallFits, ClientFits
    <2>11. RequestsFit'  BY <2>1 DEF CallFits, RequestsFit
    <2>12. QED  BY <2>8, <2>9, <2>10, <2>11 DEF CallFits
  <1>6. CASE Head(wire) = "end" /\ held
    <2>1. /\ wire' = <<>> /\ client' = "over" /\ outcome' = "result"
          /\ kind' = kind /\ scheduled' = scheduled /\ runs' = runs /\ attempt' = attempt
          /\ parts' = parts /\ held' = held
          /\ server' = server /\ lines' = lines /\ written' = written /\ heard' = heard
          /\ Present' = Present /\ Requests' = Requests
      BY <1>6 DEF ReadPart, Quiet, Present, Requests
    <2>2. server[Present] = "ran" /\ heard[Present] = written[Present]
      <3>1. /\ server[Present] = "ran" /\ lines[Present] = 0 /\ n = 0
            /\ heard[Present] + n + lines[Present] = written[Present]
        BY <1>2, <1>6 DEF AttemptIs
      <3>2. QED  BY <1>3, <3>1
    <2>3. AttemptFits'  BY <2>1 DEF AttemptFits
    <2>4. CallTypeOK'
      <3>1. wire' \in Seq(Part)  BY <2>1
      <3>2. QED  BY <2>1, <3>1 DEF CallFits, CallTypeOK
    <2>5. ClientFits'  BY <1>3, <2>1, <2>2 DEF CallFits, ClientFits
    <2>6. RequestsFit'  BY <1>1, <2>1 DEF CallFits, RequestsFit
    <2>7. QED  BY <2>3, <2>4, <2>5, <2>6 DEF CallFits
  <1>7. CASE Head(wire) = "end" /\ ~held
    <2>1. Fails("internal", parts) /\ Quiet  BY <1>7 DEF ReadPart
    <2>2. parts \in BOOLEAN /\ "internal" \in Failure  BY DEF CallFits, CallTypeOK, Failure
    <2>3. QED  BY <1>1, <2>1, <2>2, FailureFits
  <1>8. QED  BY <1>4, <1>5, <1>6, <1>7 DEF ReadPart

LEMMA RescheduleKeepsFits ==
  ASSUME CallFits, Reschedule
  PROVE  CallFits'
  <1>1. /\ client = "over" /\ outcome = "rejected" /\ runs < MaxRuns
        /\ runs' = runs + 1 /\ client' = "start" /\ attempt' = 0
        /\ kind' = kind /\ scheduled' = scheduled /\ parts' = parts /\ held' = held
        /\ outcome' = outcome /\ wire' = wire
        /\ server' = server /\ lines' = lines /\ written' = written /\ heard' = heard
        /\ Present' = Present /\ Requests' = Requests
    BY DEF Reschedule, Quiet, Present, Requests
  <1>2. runs \in 1..MaxRuns /\ attempt \in 0..(MaxAttempts - 1) /\ MaxAttempts \in Nat /\ MaxRuns \in Nat
        /\ Len(server) \in Nat
    BY FunrunCallAssumption, RequestTyped DEF CallFits, CallTypeOK
  <1>3. Len(server) <= (runs' - 1) * MaxAttempts + 0 + 0
    <2> DEFINE before == (runs - 1) * MaxAttempts
    <2>1. (runs' - 1) * MaxAttempts = before + MaxAttempts /\ before \in Int
      BY <1>1, <1>2
    <2>2. Len(server) <= before + attempt + 1  BY <1>1 DEF CallFits, RequestsFit
    <2> HIDE DEF before
    <2>3. Len(server) <= before + MaxAttempts  BY <1>2, <2>1, <2>2
    <2>4. QED  BY <1>2, <2>1, <2>3
  <1>4. CallTypeOK'
    <2>1. runs' \in 1..MaxRuns /\ attempt' \in 0..(MaxAttempts - 1)
      BY <1>1, <1>2, FunrunCallAssumption
    <2>2. QED  BY <1>1, <2>1 DEF CallFits, CallTypeOK
  <1>5. AttemptFits'  BY <1>1 DEF AttemptFits
  <1>6. ClientFits'  BY <1>1 DEF CallFits, ClientFits
  <1>7. RequestsFit'  BY <1>1, <1>3 DEF CallFits, RequestsFit
  <1>8. QED  BY <1>4, <1>5, <1>6, <1>7 DEF CallFits

LEMMA ClientKeepsFits ==
  ASSUME CallFits, ClientStep
  PROVE  CallFits'
  <1>1. parts \in BOOLEAN /\ kind \in {"query", "action", "http"}
    BY DEF CallFits, CallTypeOK
  <1>2. CASE NoEndpoints
    <2>1. client = "start" /\ Fails("noEndpoints", FALSE) /\ Quiet  BY <1>2 DEF NoEndpoints
    <2>2. \A i \in Requests : kind # "query" => server[i] = "over"
      BY <2>1 DEF CallFits, RequestsFit
    <2>3. QED  BY <2>1, <2>2, FailureFits DEF Failure
  <1>3. CASE HeaderTimeout \/ DeadlinePasses
    BY <1>1, <1>3, FailureFits DEF HeaderTimeout, DeadlinePasses, Failure
  <1>4. CASE Breaks
    BY <1>1, <1>4, FailureFits DEF Breaks, Failure, Status
  <1>5. CASE Disconnect
    BY <1>1, <1>5, FailureFits DEF Disconnect, Failure
  <1>6. CASE ReadStatus
    <2>1. /\ client \in {"asked", "streaming"} /\ wire # <<>> /\ Head(wire) \in Status
          /\ Fails(Head(wire), parts) /\ Quiet
      BY <1>6 DEF ReadStatus
    <2>2. Head(wire) = "rejected" =>
            ~parts /\ \A i \in Requests : kind # "query" => server[i] = "over"
      <3> SUFFICES ASSUME Head(wire) = "rejected"
                   PROVE ~parts /\ \A i \in Requests : kind # "query" => server[i] = "over"
        OBVIOUS
      <3>1. PICK heads \in {0, 1}, n \in Nat, ending \in Endings :
              AttemptIs(heads, n, ending) /\ heads = 0 /\ n = 0 /\ ending[1] = "rejected"
        BY <2>1, Reading
      <3>2. ending # <<>>
        <4>1. wire \in Seq(Part)  BY DEF CallFits, CallTypeOK
        <4>2. QED  BY <2>1, <3>1, <4>1, WireHead DEF AttemptIs
      <3>3. ending = <<"rejected">>  BY <3>1, <3>2 DEF Endings
      <3>4. ~parts /\ server[Present] = "over"  BY <3>1, <3>3 DEF AttemptIs
      <3>5. QED  BY <3>4 DEF CallFits, RequestsFit
    <2>3. Head(wire) \in Failure /\ client # "over" /\ Head(wire) # "noEndpoints"
      BY <2>1 DEF Failure, Status
    <2>4. QED  BY <1>1, <2>1, <2>2, <2>3, FailureFits
  <1>7. QED
    BY <1>2, <1>3, <1>4, <1>5, <1>6, SendKeepsFits, ReadHeadKeepsFits, ReadPartKeepsFits,
       RescheduleKeepsFits DEF ClientStep

-----------------------------------------------------------------------------
(* The theorems. *)

LEMMA FitsInitially == CallInit => CallFits
  <1> SUFFICES ASSUME CallInit  PROVE CallFits
    OBVIOUS
  <1>1. /\ kind \in {"query", "action", "http"} /\ scheduled \in {FALSE, kind = "action"}
        /\ runs = 1 /\ client = "start" /\ attempt = 0 /\ parts = FALSE /\ held = FALSE
        /\ outcome = "none"
        /\ server = <<>> /\ lines = <<>> /\ wire = <<>> /\ written = <<>> /\ heard = <<>>
    BY DEF CallInit
  <1>2. Requests = {} /\ Len(server) = 0  BY <1>1 DEF Requests
  <1>3. CallTypeOK
    <2>1. scheduled \in BOOLEAN  BY <1>1
    <2>2. parts \in BOOLEAN /\ held \in BOOLEAN  BY <1>1
    <2>3. runs \in 1..MaxRuns /\ attempt \in 0..(MaxAttempts - 1)  BY <1>1, FunrunCallAssumption
    <2>4. 0 <= MaxAttempts * MaxRuns  BY FunrunCallAssumption
    <2>5. QED  BY <1>1, <1>2, <2>1, <2>2, <2>3, <2>4 DEF CallTypeOK
  <1>4. AttemptFits  BY <1>1 DEF AttemptFits
  <1>5. ClientFits  BY <1>1 DEF ClientFits
  <1>6. RequestsFit  BY <1>1, <1>2, FunrunCallAssumption DEF RequestsFit
  <1>7. QED  BY <1>3, <1>4, <1>5, <1>6 DEF CallFits

LEMMA StepKeepsFits == CallFits /\ [CallNext]_callVars => CallFits'
  <1> SUFFICES ASSUME CallFits, [CallNext]_callVars  PROVE CallFits'
    OBVIOUS
  <1>1. CASE UNCHANGED callVars
    BY <1>1 DEF callVars, clientVars, CallFits, CallTypeOK, AttemptFits, AttemptIs, WireIs,
                ClientFits, RequestsFit, Requests, Present
  <1>2. CASE CallNext
    BY <1>2, ClientKeepsFits, PodKeepsFits DEF CallNext
  <1>3. QED  BY <1>1, <1>2

\* A set of which the present request is the only possible member.
LEMMA OnlyPresent ==
  ASSUME NEW S, \A i \in S : i = Present
  PROVE  Cardinality(S) <= 1 /\ S \subseteq {Present}
  <1>1. S = {} \/ S = {Present}  OBVIOUS
  <1>2. QED  BY <1>1, FS_EmptySet, FS_Singleton

\* A caller hears of one execution, and of all its lines before its result
\* (run_function_remote, drive_and_stream_log_lines).
THEOREM CallInvariance == CallSpec => []CallInv
  <1>1. CallFits => CallInv
    <2> SUFFICES ASSUME CallFits  PROVE OneAttemptHeard /\ ResultAfterLines
      BY DEF CallInv
    <2>1. \A i \in {j \in Requests : heard[j] > 0} : i = Present
      BY DEF CallFits, RequestsFit
    <2>2. OneAttemptHeard  BY <2>1, OnlyPresent DEF OneAttemptHeard
    <2>3. ResultAfterLines  BY DEF CallFits, ClientFits, ResultAfterLines
    <2>4. QED  BY <2>2, <2>3
  <1>2. QED  BY <1>1, FitsInitially, StepKeepsFits, PTL DEF CallSpec

\* An action is started at most once, however often it is sent or its job comes up
\* again, and never once the caller was told that it had not been started.
THEOREM ActionStartsOnce == CallSpec => []ActionAtMostOnce
  <1>1. CallFits => ActionAtMostOnce
    <2> SUFFICES ASSUME CallFits, kind # "query"
                 PROVE /\ Cardinality(Executed) <= 1
                       /\ outcome = "rejected" => \A i \in Executed : i = Present /\ client # "over"
      BY DEF ActionAtMostOnce
    <2>1. \A i \in Executed : i = Present /\ (outcome = "rejected" => client # "over")
      BY DEF CallFits, RequestsFit, Executed
    <2>2. QED  BY <2>1, OnlyPresent
  <1>2. QED  BY <1>1, FitsInitially, StepKeepsFits, PTL DEF CallSpec

-----------------------------------------------------------------------------
(* The life of a pod. *)

LEMMA PodInvInitially == PodInit => PodInv
  <1> SUFFICES ASSUME PodInit  PROVE PodInv
    OBVIOUS
  <1>1. /\ loaded \in BOOLEAN /\ loadError \in BOOLEAN /\ state \in BOOLEAN
        /\ pool \in BOOLEAN /\ health \in BOOLEAN
    BY Zenon DEF PodInit
  <1>2. PodTypeOK  BY <1>1, FunrunPodAssumption DEF PodInit, PodTypeOK
  <1>3. PodStages /\ ReportFollowsLoad /\ ReadyListens
    BY DEF PodInit, PodStages, ReportFollowsLoad, ReadyListens
  <1>4. QED  BY <1>2, <1>3 DEF PodInv

LEMMA StepKeepsPodInv == PodInv /\ [PodNext]_podVars => PodInv'
  <1> SUFFICES ASSUME PodInv, [PodNext]_podVars  PROVE PodInv'
    OBVIOUS
  <1> USE FunrunPodAssumption DEF PodInv, PodTypeOK, PodStages, ReportFollowsLoad
  <1>1. (PodTypeOK /\ PodStages /\ ReportFollowsLoad)'
    <2>1. CASE \E ok \in BOOLEAN : LoadEnds(ok)
      BY <2>1 DEF LoadEnds, loadErrorAfter
    <2>2. CASE LoadSettles  BY <2>2 DEF LoadSettles
    <2>3. CASE Backoff  BY <2>3 DEF Backoff
    <2>4. CASE TailerStarts  BY <2>4 DEF TailerStarts
    <2>5. CASE WorkerExits  BY <2>5 DEF WorkerExits
    <2>6. CASE Listen  BY <2>6 DEF Listen
    <2>7. CASE CallArrives  BY <2>7 DEF CallArrives
    <2>8. CASE CallReturns  BY <2>8 DEF CallReturns
    <2>9. CASE PodSignal  BY <2>9 DEF PodSignal
    <2>10. CASE DelayPasses  BY <2>10 DEF DelayPasses
    <2>11. CASE GrpcStops  BY <2>11 DEF GrpcStops
    <2>12. CASE GrpcEnds  BY <2>12 DEF GrpcEnds
    <2>13. CASE HealthEnds  BY <2>13 DEF HealthEnds
    <2>14. CASE UNCHANGED podVars  BY <2>14 DEF podVars
    <2>15. QED
      BY <2>1, <2>2, <2>3, <2>4, <2>5, <2>6, <2>7, <2>8, <2>9, <2>10, <2>11, <2>12, <2>13, <2>14
      DEF PodNext
  <1>2. ReadyListens'
    BY <1>1 DEF ReadyListens, Ready
  <1>3. QED  BY <1>1, <1>2

\* A pod that its probe calls ready has a server that takes calls, and reports no
\* error of a load that was made good (health_report, get_or_create).
THEOREM PodInvariance == PodSpec => []PodInv
  BY PodInvInitially, StepKeepsPodInv, PTL DEF PodSpec

-----------------------------------------------------------------------------
(* The endpoints. *)

\* The balancer takes a change, and what it will have is the same.
LEMMA BalanceKeepsOutlook ==
  ASSUME EndpointsTypeOK, Balance, NEW n \in 0..Len(changes')
  PROVE  Len(changes') = Len(changes) - 1 /\ BalancedAfter(n)' = BalancedAfter(n + 1)
  <1>1. /\ Len(changes) \in Nat /\ Len(changes) > 0 /\ Len(changes') = Len(changes) - 1
        /\ \A i \in 1..Len(changes') : changes'[i] = changes[i + 1]
    BY DEF Balance, EndpointsTypeOK
  <1>2. \A p \in Pod : p \in balanced' <=>
          \/ changes[1] = <<"insert", p>>
          \/ p \in balanced /\ changes[1] # <<"remove", p>>
    BY DEF Balance, BalancedAfter
  <1> DEFINE Later(p, i) == \E j \in i..n : changes'[j] = <<"remove", p>>
             Removed(p, i) == \E j \in i..(n + 1) : changes[j] = <<"remove", p>>
  <1>3. \A p \in Pod, i \in 1..(n + 1) : Later(p, i) <=> Removed(p, i + 1)
    <2> SUFFICES ASSUME NEW p \in Pod, NEW i \in 1..(n + 1)
                 PROVE Later(p, i) <=> Removed(p, i + 1)
      OBVIOUS
    <2>1. ASSUME NEW j \in i..n, changes'[j] = <<"remove", p>>  PROVE Removed(p, i + 1)
      <3>1. j + 1 \in (i + 1)..(n + 1) /\ changes[j + 1] = <<"remove", p>>  BY <1>1, <2>1
      <3>2. QED  BY <3>1
    <2>2. ASSUME NEW j \in (i + 1)..(n + 1), changes[j] = <<"remove", p>>  PROVE Later(p, i)
      <3>1. j - 1 \in i..n /\ changes'[j - 1] = changes[j]  BY <1>1
      <3>2. QED  BY <2>2, <3>1
    <2>3. QED  BY <2>1, <2>2
  <1>4. \A p \in Pod : Removed(p, 1) <=> changes[1] = <<"remove", p>> \/ Removed(p, 2)
    BY <1>1
  <1>5. \A p \in Pod :
          (\E i \in 1..(n + 1) : changes[i] = <<"insert", p>> /\ ~Removed(p, i + 1))
          <=> \/ changes[1] = <<"insert", p>> /\ ~Removed(p, 2)
              \/ \E i \in 1..n : changes'[i] = <<"insert", p>> /\ ~Later(p, i + 1)
    <2> SUFFICES ASSUME NEW p \in Pod
                 PROVE (\E i \in 1..(n + 1) : changes[i] = <<"insert", p>> /\ ~Removed(p, i + 1))
                       <=> \/ changes[1] = <<"insert", p>> /\ ~Removed(p, 2)
                           \/ \E i \in 1..n : changes'[i] = <<"insert", p>> /\ ~Later(p, i + 1)
      OBVIOUS
    <2> HIDE DEF Later, Removed
    <2>1. ASSUME NEW i \in 1..(n + 1), i # 1, changes[i] = <<"insert", p>>, ~Removed(p, i + 1)
          PROVE  \E k \in 1..n : changes'[k] = <<"insert", p>> /\ ~Later(p, k + 1)
      <3>4. i - 1 \in 1..n /\ i - 1 \in 1..Len(changes') /\ (i - 1) + 1 = i
        BY <1>1, <2>1
      <3>1. changes'[i - 1] = changes[i]  BY <1>1, <3>4
      <3>2. ~Later(p, i)  BY <1>3, <2>1
      <3>3. QED  BY <2>1, <3>1, <3>2, <3>4
    <2>2. ASSUME NEW i \in 1..n, changes'[i] = <<"insert", p>>, ~Later(p, i + 1)
          PROVE  \E k \in 1..(n + 1) : changes[k] = <<"insert", p>> /\ ~Removed(p, k + 1)
      <3>1. i + 1 \in 1..(n + 1) /\ changes[i + 1] = <<"insert", p>>  BY <1>1, <2>2
      <3>2. ~Removed(p, (i + 1) + 1)  BY <1>3, <2>2, <3>1
      <3>3. QED  BY <3>1, <3>2
    <2>3. 1 \in 1..(n + 1) /\ 1 + 1 = 2  OBVIOUS
    <2>4. QED  BY <2>1, <2>2, <2>3
  <1>6. BalancedAfter(n + 1) =
          {p \in Pod : \/ p \in balanced /\ ~Removed(p, 1)
                       \/ \E i \in 1..(n + 1) : changes[i] = <<"insert", p>> /\ ~Removed(p, i + 1)}
    BY DEF BalancedAfter
  <1>7. BalancedAfter(n)' =
          {p \in Pod : \/ p \in balanced' /\ ~Later(p, 1)
                       \/ \E i \in 1..n : changes'[i] = <<"insert", p>> /\ ~Later(p, i + 1)}
    BY DEF BalancedAfter
  <1> HIDE DEF Later, Removed
  <1>8. \A p \in Pod : Later(p, 1) <=> Removed(p, 2)
    <2>1. 1 \in 1..(n + 1) /\ 1 + 1 = 2  BY <1>1
    <2>2. QED  BY <1>3, <2>1
  <1>9. \A p \in Pod : ~(changes[1] = <<"insert", p>> /\ changes[1] = <<"remove", p>>)
    OBVIOUS
  <1>10. QED  BY <1>1, <1>2, <1>4, <1>5, <1>6, <1>7, <1>8, <1>9

\* A change is sent, and what the balancer will have changes by it.
LEMMA SendMovesOutlook ==
  ASSUME EndpointsTypeOK, NEW p \in Pod, NEW op \in {"insert", "remove"},
         changes' = Append(changes, <<op, p>>), balanced' = balanced
  PROVE  /\ Len(changes') = Len(changes) + 1
         /\ \A n \in 0..Len(changes) : BalancedAfter(n)' = BalancedAfter(n)
         /\ BalancedAfter(Len(changes))' =
              IF op = "insert" THEN BalancedAfter(Len(changes)) \union {p}
              ELSE BalancedAfter(Len(changes)) \ {p}
  <1> DEFINE last == Len(changes) + 1
  <1>1. /\ Len(changes) \in Nat /\ Len(changes') = last /\ changes'[last] = <<op, p>>
        /\ \A i \in 1..Len(changes) : changes'[i] = changes[i]
    BY DEF EndpointsTypeOK
  <1>2. ASSUME NEW n \in 0..Len(changes)  PROVE BalancedAfter(n)' = BalancedAfter(n)
    <2>1. \A i \in 1..n : changes'[i] = changes[i]  BY <1>1
    <2> DEFINE Was(q, i) == \E j \in i..n : changes[j] = <<"remove", q>>
               Is(q, i) == \E j \in i..n : changes'[j] = <<"remove", q>>
    <2>2. \A q \in Pod, i \in 1..(n + 1) : Is(q, i) <=> Was(q, i)
      BY <2>1
    <2>3. BalancedAfter(n) =
            {q \in Pod : \/ q \in balanced /\ ~Was(q, 1)
                         \/ \E i \in 1..n : changes[i] = <<"insert", q>> /\ ~Was(q, i + 1)}
      BY DEF BalancedAfter
    <2>4. BalancedAfter(n)' =
            {q \in Pod : \/ q \in balanced' /\ ~Is(q, 1)
                         \/ \E i \in 1..n : changes'[i] = <<"insert", q>> /\ ~Is(q, i + 1)}
      BY DEF BalancedAfter
    <2> HIDE DEF Was, Is
    <2>5. 1 \in 1..(n + 1) /\ \A i \in 1..n : i + 1 \in 1..(n + 1)  BY <1>1
    <2>6. QED  BY <2>1, <2>2, <2>3, <2>4, <2>5
  <1> DEFINE Now(q, i) == \E j \in i..Len(changes) : changes[j] = <<"remove", q>>
             Then(q, i) == \E j \in i..last : changes'[j] = <<"remove", q>>
  <1>3. ASSUME NEW q \in Pod, NEW i \in 1..last
        PROVE  Then(q, i) <=> Now(q, i) \/ <<op, p>> = <<"remove", q>>
    <2>1. last \in i..last /\ i..Len(changes) \subseteq i..last
          /\ \A j \in i..last : j # last => j \in i..Len(changes)
      BY <1>1
    <2>2. QED  BY <1>1, <2>1
  <1>4. BalancedAfter(Len(changes)) =
          {q \in Pod : \/ q \in balanced /\ ~Now(q, 1)
                       \/ \E i \in 1..Len(changes) : changes[i] = <<"insert", q>> /\ ~Now(q, i + 1)}
    BY DEF BalancedAfter
  <1>5. BalancedAfter(Len(changes))' =
          {q \in Pod : \/ q \in balanced /\ ~Then(q, 1)
                       \/ \E i \in 1..last : changes'[i] = <<"insert", q>> /\ ~Then(q, i + 1)}
    BY <1>1 DEF BalancedAfter
  <1>6. \A q \in Pod : ~Then(q, last + 1)  BY <1>1
  <1> HIDE DEF Now, Then
  <1>7. ASSUME NEW q \in Pod
        PROVE  (\E i \in 1..last : changes'[i] = <<"insert", q>> /\ ~Then(q, i + 1))
               <=> \/ <<op, p>> = <<"insert", q>>
                   \/ /\ <<op, p>> # <<"remove", q>>
                      /\ \E i \in 1..Len(changes) : changes[i] = <<"insert", q>> /\ ~Now(q, i + 1)
    <2>1. ASSUME NEW i \in 1..Len(changes)
          PROVE  i \in 1..last /\ changes'[i] = changes[i]
                 /\ (Then(q, i + 1) <=> Now(q, i + 1) \/ <<op, p>> = <<"remove", q>>)
      <3>1. i \in 1..last /\ i + 1 \in 1..last  BY <1>1
      <3>2. QED  BY <1>1, <1>3, <3>1
    <2>2. last \in 1..last /\ \A i \in 1..last : i = last \/ i \in 1..Len(changes)  BY <1>1
    <2> HIDE DEF last
    <2>3. changes'[last] = <<op, p>> /\ ~Then(q, last + 1)  BY <1>1, <1>6
    <2>4. QED  BY <2>1, <2>2, <2>3
  <1>8. \A q \in Pod : Then(q, 1) <=> Now(q, 1) \/ <<op, p>> = <<"remove", q>>
    <2>1. 1 \in 1..last  BY <1>1
    <2>2. QED  BY <1>3, <2>1
  <1>9. \A q \in Pod, o \in {"insert", "remove"} : <<op, p>> = <<o, q>> <=> op = o /\ p = q
    OBVIOUS
  <1> HIDE DEF last
  <1>10. ASSUME NEW q \in Pod
         PROVE  q \in BalancedAfter(Len(changes))' <=>
                  \/ <<op, p>> = <<"insert", q>>
                  \/ <<op, p>> # <<"remove", q>> /\ q \in BalancedAfter(Len(changes))
    BY <1>4, <1>5, <1>7, <1>8, <1>9
  <1>11. BalancedAfter(Len(changes))' \subseteq Pod /\ BalancedAfter(Len(changes)) \subseteq Pod
    BY <1>4, <1>5
  <1>12. CASE op = "insert"
    <2>1. BalancedAfter(Len(changes))' = BalancedAfter(Len(changes)) \union {p}
      BY <1>9, <1>10, <1>11, <1>12
    <2>2. QED  BY <1>1, <1>2, <1>12, <2>1 DEF last
  <1>13. CASE op = "remove"
    <2>1. BalancedAfter(Len(changes))' = BalancedAfter(Len(changes)) \ {p}
      BY <1>9, <1>10, <1>11, <1>13
    <2>2. QED  BY <1>1, <1>2, <1>13, <2>1 DEF last
  <1>14. QED  BY <1>12, <1>13

\* What the task's steps leave to be said of what the balancer will have.
Outlook ==
  /\ ~empty => BalancedAfter(Len(changes)) # {}
  /\ BalancedAfter(Len(changes)) = IF unique = {} THEN current ELSE next \union gone

\* An endpoint that is there stays, or another comes first.
NeverBare ==
  \A n, m \in 0..Len(changes) : n <= m /\ BalancedAfter(n) # {} => BalancedAfter(m) # {}

LEMMA EndpointsInvInitially == EndpointsInit => EndpointsInv
  <1> SUFFICES ASSUME EndpointsInit  PROVE EndpointsInv
    OBVIOUS
  <1>1. /\ current = {} /\ unique = {} /\ next = {} /\ gone = {} /\ changes = <<>>
        /\ balanced = {} /\ empty = TRUE /\ elapsed = 0
        /\ caller = [c \in Caller |-> "idle"]
    BY DEF EndpointsInit
  <1>2. EndpointsTypeOK
    <2>1. empty \in BOOLEAN  BY <1>1
    <2>2. QED  BY <1>1, <2>1, FunrunEndpointsAssumption DEF EndpointsTypeOK
  <1>3. BalancedAfter(0) = {} /\ Len(changes) = 0
    BY <1>1 DEF BalancedAfter
  <1>4. SentHasEndpoint /\ TaskKnowsBalancer
    BY <1>1, <1>3 DEF SentHasEndpoint, TaskKnowsBalancer
  <1>5. QED  BY <1>2, <1>4 DEF EndpointsInv

\* A step that sends nothing and takes nothing leaves the balancer's outlook.
LEMMA OutlookStays ==
  ASSUME UNCHANGED <<changes, balanced>>
  PROVE  /\ \A n \in Nat : BalancedAfter(n)' = BalancedAfter(n)
         /\ BalancedAfter(Len(changes))' = BalancedAfter(Len(changes))
  BY DEF BalancedAfter

\* One change more, after which the balancer has an endpoint.
LEMMA SendKeepsNeverBare ==
  ASSUME EndpointsTypeOK, NeverBare, NEW p \in Pod, NEW op \in {"insert", "remove"},
         changes' = Append(changes, <<op, p>>), balanced' = balanced,
         BalancedAfter(Len(changes))' # {}
  PROVE  NeverBare'
  <1>1. /\ Len(changes) \in Nat /\ Len(changes') = Len(changes) + 1
        /\ \A n \in 0..Len(changes) : BalancedAfter(n)' = BalancedAfter(n)
    BY SendMovesOutlook DEF EndpointsTypeOK
  <1>2. SUFFICES ASSUME NEW n \in 0..Len(changes'), NEW m \in 0..Len(changes'),
                        n <= m, BalancedAfter(n)' # {}
                 PROVE  BalancedAfter(m)' # {}
    BY DEF NeverBare
  <1>3. CASE m \in 0..Len(changes)
    <2>1. n \in 0..Len(changes)  BY <1>1, <1>2, <1>3
    <2>2. QED  BY <1>1, <1>2, <1>3, <2>1 DEF NeverBare
  <1>4. CASE m \notin 0..Len(changes)
    <2>1. m = Len(changes')  BY <1>1, <1>4
    <2>2. QED  BY <2>1
  <1>5. QED  BY <1>3, <1>4

LEMMA RefresherKeepsInv ==
  ASSUME EndpointsInv, RefresherStep
  PROVE  EndpointsInv'
  <1>1. EndpointsTypeOK /\ Outlook /\ NeverBare
        /\ (unique = {} => next = {} /\ gone = {}) /\ gone \intersect unique = {}
    BY DEF EndpointsInv, SentHasEndpoint, TaskKnowsBalancer, Outlook, NeverBare
  <1>2. SUFFICES /\ EndpointsTypeOK' /\ Outlook' /\ NeverBare'
                 /\ (unique' = {} => next' = {} /\ gone' = {}) /\ gone' \intersect unique' = {}
    BY DEF EndpointsInv, SentHasEndpoint, TaskKnowsBalancer, Outlook, NeverBare
  <1>3. ASSUME NEW answer \in SUBSET Pod, Resolve(answer)
        PROVE  /\ EndpointsTypeOK' /\ Outlook' /\ NeverBare'
               /\ (unique' = {} => next' = {} /\ gone' = {}) /\ gone' \intersect unique' = {}
    <2>1. UNCHANGED <<changes, balanced, elapsed, caller>> /\ unique = {}
          /\ empty' = (empty /\ current = {})
      BY <1>3 DEF Resolve
    <2>2. BalancedAfter(Len(changes))' = BalancedAfter(Len(changes)) /\ NeverBare'
      <3>1. Len(changes') \in Nat /\ Len(changes') = Len(changes)
        BY <1>1, <2>1 DEF EndpointsTypeOK
      <3>2. QED  BY <1>1, <2>1, <3>1, OutlookStays DEF NeverBare
    <2>3. empty' \in BOOLEAN  BY <2>1, Zenon
    <2>4. CASE answer = {}
      <3>1. UNCHANGED taskVars  BY <1>3, <2>4 DEF Resolve
      <3>2. EndpointsTypeOK'  BY <1>1, <2>1, <2>3, <3>1 DEF EndpointsTypeOK, taskVars
      <3>3. ~empty' => current # {} \/ ~empty  BY <2>1
      <3>4. Outlook'  BY <1>1, <2>1, <2>2, <3>1, <3>3 DEF Outlook, taskVars
      <3>5. QED  BY <1>1, <2>2, <3>1, <3>2, <3>4 DEF taskVars
    <2>5. CASE answer # {}
      <3>1. unique' = answer /\ next' = answer \intersect current /\ gone' = current \ answer
            /\ current' = current
        BY <1>3, <2>5 DEF Resolve
      <3>2. EndpointsTypeOK'  BY <1>1, <2>1, <2>3, <3>1 DEF EndpointsTypeOK
      <3>3. ~empty' => current # {} \/ ~empty  BY <2>1
      <3>4. current = next' \union gone'  BY <3>1
      <3>5. Outlook'  BY <1>1, <2>1, <2>2, <2>5, <3>1, <3>3, <3>4 DEF Outlook
      <3>6. QED  BY <2>2, <2>5, <3>1, <3>2, <3>5
    <2>6. QED  BY <2>4, <2>5
  <1>4. ASSUME NEW p \in Pod, SendInsert(p)
        PROVE  /\ EndpointsTypeOK' /\ Outlook' /\ NeverBare'
               /\ (unique' = {} => next' = {} /\ gone' = {}) /\ gone' \intersect unique' = {}
    <2>1. /\ p \in unique \ next /\ Len(changes) < ChannelCap
          /\ changes' = Append(changes, <<"insert", p>>) /\ next' = next \union {p}
          /\ empty' = FALSE /\ UNCHANGED <<current, unique, gone, balanced, elapsed, caller>>
      BY <1>4 DEF SendInsert
    <2>2. /\ BalancedAfter(Len(changes))' = BalancedAfter(Len(changes)) \union {p}
          /\ Len(changes') = Len(changes) + 1
      BY <1>1, <2>1, SendMovesOutlook
    <2>3. NeverBare'  BY <1>1, <2>1, <2>2, SendKeepsNeverBare
    <2>4. changes' \in Seq(Change) /\ Len(changes') <= ChannelCap
      BY <1>1, <2>1, <2>2, FunrunEndpointsAssumption DEF EndpointsTypeOK, Change
    <2>5. empty' \in BOOLEAN  BY <2>1, Zenon
    <2>6. EndpointsTypeOK'  BY <1>1, <2>1, <2>4, <2>5 DEF EndpointsTypeOK
    <2>7. Outlook'  BY <1>1, <2>1, <2>2 DEF Outlook
    <2>8. QED  BY <1>1, <2>1, <2>3, <2>6, <2>7
  <1>5. ASSUME NEW p \in Pod, SendRemove(p)
        PROVE  /\ EndpointsTypeOK' /\ Outlook' /\ NeverBare'
               /\ (unique' = {} => next' = {} /\ gone' = {}) /\ gone' \intersect unique' = {}
    <2>1. /\ p \in gone /\ next = unique /\ Len(changes) < ChannelCap
          /\ changes' = Append(changes, <<"remove", p>>) /\ gone' = gone \ {p}
          /\ UNCHANGED <<current, unique, next, balanced, empty, elapsed, caller>>
      BY <1>5 DEF SendRemove
    <2>2. /\ BalancedAfter(Len(changes))' = BalancedAfter(Len(changes)) \ {p}
          /\ Len(changes') = Len(changes) + 1
      BY <1>1, <2>1, SendMovesOutlook
    <2>3. unique # {} /\ BalancedAfter(Len(changes))' = next \union (gone \ {p})
      BY <1>1, <2>1, <2>2 DEF Outlook
    <2>4. NeverBare'  BY <1>1, <2>1, <2>3, SendKeepsNeverBare
    <2>5. changes' \in Seq(Change) /\ Len(changes') <= ChannelCap
      BY <1>1, <2>1, <2>2, FunrunEndpointsAssumption DEF EndpointsTypeOK, Change
    <2>6. EndpointsTypeOK'  BY <1>1, <2>1, <2>5 DEF EndpointsTypeOK
    <2>7. Outlook'  BY <2>1, <2>3 DEF Outlook
    <2>8. QED  BY <1>1, <2>1, <2>3, <2>4, <2>6, <2>7
  <1>6. CASE Settle
    <2>1. /\ unique # {} /\ next = unique /\ gone = {} /\ current' = next /\ unique' = {}
          /\ next' = {} /\ empty' = FALSE /\ UNCHANGED <<gone, changes, balanced, elapsed, caller>>
      BY <1>6 DEF Settle
    <2>2. BalancedAfter(Len(changes))' = BalancedAfter(Len(changes)) /\ NeverBare'
      <3>1. Len(changes') \in Nat /\ Len(changes') = Len(changes)
        BY <1>1, <2>1 DEF EndpointsTypeOK
      <3>2. QED  BY <1>1, <2>1, <3>1, OutlookStays DEF NeverBare
    <2>3. empty' \in BOOLEAN  BY <2>1, Zenon
    <2>4. EndpointsTypeOK'  BY <1>1, <2>1, <2>3 DEF EndpointsTypeOK
    <2>5. Outlook'  BY <1>1, <2>1, <2>2 DEF Outlook
    <2>6. QED  BY <2>1, <2>2, <2>4, <2>5
  <1>7. QED  BY <1>3, <1>4, <1>5, <1>6 DEF RefresherStep

LEMMA BalanceKeepsInv ==
  ASSUME EndpointsInv, Balance
  PROVE  EndpointsInv'
  <1>1. EndpointsTypeOK  BY DEF EndpointsInv
  <1>2. /\ Len(changes) \in Nat /\ Len(changes) > 0 /\ changes' \in Seq(Change)
        /\ Len(changes') = Len(changes) - 1
    BY <1>1 DEF EndpointsTypeOK, Balance
  <1>3. /\ \A n \in 0..Len(changes') : BalancedAfter(n)' = BalancedAfter(n + 1)
        /\ BalancedAfter(Len(changes))' = BalancedAfter(Len(changes))
    <2>1. \A n \in 0..Len(changes') : BalancedAfter(n)' = BalancedAfter(n + 1)
      BY <1>1, BalanceKeepsOutlook
    <2>2. PICK n \in Nat : n = Len(changes')  BY <1>2
    <2>3. n \in 0..Len(changes') /\ n + 1 = Len(changes)  BY <1>2, <2>2
    <2>4. BalancedAfter(n)' = BalancedAfter(Len(changes))  BY <2>1, <2>3
    <2>5. BalancedAfter(Len(changes))' = BalancedAfter(n)'  BY <2>2
    <2>6. QED  BY <2>1, <2>4, <2>5
  <1>4. UNCHANGED <<current, unique, next, gone, empty, elapsed, caller>>
    BY DEF Balance, taskVars
  <1>5. EndpointsTypeOK'
    <2>1. balanced' \subseteq Pod  BY DEF Balance, BalancedAfter
    <2>2. Len(changes') <= ChannelCap  BY <1>1, <1>2, FunrunEndpointsAssumption DEF EndpointsTypeOK
    <2>3. QED  BY <1>1, <1>2, <1>4, <2>1, <2>2 DEF EndpointsTypeOK
  <1>6. TaskKnowsBalancer'
    BY <1>3, <1>4 DEF EndpointsInv, TaskKnowsBalancer
  <1>7. SentHasEndpoint'
    <2>1. ~empty' => BalancedAfter(Len(changes))' # {}
      BY <1>3, <1>4 DEF EndpointsInv, SentHasEndpoint
    <2>2. ASSUME NEW n \in 0..Len(changes'), NEW m \in 0..Len(changes'),
                 n <= m, BalancedAfter(n)' # {}
          PROVE  BalancedAfter(m)' # {}
      <3>1. n + 1 \in 0..Len(changes) /\ m + 1 \in 0..Len(changes) /\ n + 1 <= m + 1
        BY <1>2, <2>2
      <3>2. BalancedAfter(n + 1) # {} => BalancedAfter(m + 1) # {}
        BY <3>1 DEF EndpointsInv, SentHasEndpoint
      <3>3. QED  BY <1>3, <2>2, <3>2
    <2>3. QED  BY <2>1, <2>2 DEF SentHasEndpoint
  <1>8. QED  BY <1>5, <1>6, <1>7 DEF EndpointsInv

LEMMA StepKeepsEndpointsInv == EndpointsInv /\ [EndpointsNext]_endpointsVars => EndpointsInv'
  <1> SUFFICES ASSUME EndpointsInv, [EndpointsNext]_endpointsVars  PROVE EndpointsInv'
    OBVIOUS
  <1>1. ASSUME EndpointsTypeOK', UNCHANGED <<taskVars, changes, balanced, empty>>
        PROVE  EndpointsInv'
    <2>1. Len(changes) \in Nat  BY DEF EndpointsInv, EndpointsTypeOK
    <2>2. QED
      BY <1>1, <2>1, OutlookStays
      DEF EndpointsInv, SentHasEndpoint, TaskKnowsBalancer, taskVars
  <1>2. CASE Tick
    <2>1. elapsed' \in 0..Budget
      BY <1>2, FunrunEndpointsAssumption DEF Tick, EndpointsInv, EndpointsTypeOK
    <2>2. EndpointsTypeOK'
      BY <1>2, <2>1 DEF Tick, EndpointsInv, EndpointsTypeOK, taskVars
    <2>3. QED  BY <1>1, <1>2, <2>2 DEF Tick
  <1>3. ASSUME NEW c \in Caller, CallerStep(c)  PROVE EndpointsInv'
    <2>1. PICK from, to \in {"idle", "waiting", "sent", "failed"} : Moves(c, from, to)
      BY <1>3 DEF CallerStep, Call, Woken, FailFast, Again
    <2>2. EndpointsTypeOK'
      BY <2>1 DEF Moves, EndpointsInv, EndpointsTypeOK, taskVars
    <2>3. QED  BY <1>1, <2>1, <2>2 DEF Moves
  <1>4. CASE UNCHANGED endpointsVars
    <2>1. EndpointsTypeOK'
      BY <1>4 DEF endpointsVars, taskVars, EndpointsInv, EndpointsTypeOK
    <2>2. QED  BY <1>1, <1>4, <2>1 DEF endpointsVars
  <1>5. QED
    BY <1>2, <1>3, <1>4, RefresherKeepsInv, BalanceKeepsInv DEF EndpointsNext

\* A caller that is let through finds an endpoint, now or when the changes before
\* it are taken, whatever the DNS answers and however full the channel is
\* (spawn_endpoint_refresher, wait_for_endpoints).
THEOREM EndpointsInvariance == EndpointsSpec => []EndpointsInv
  BY EndpointsInvInitially, StepKeepsEndpointsInv, PTL DEF EndpointsSpec

-----------------------------------------------------------------------------
(* The boot of replicas. *)

Levels == Empty..Tagged

LEMMA LevelsOrder ==
  /\ Levels = 0..3 /\ Empty = 0 /\ Documents = 1 /\ Tables = 2 /\ Tagged = 3
  /\ Empty \in Levels /\ Documents \in Levels /\ Tables \in Levels /\ Tagged \in Levels
  BY DEF Levels, Empty, Documents, Tables, Tagged

LEMMA BootTyped ==
  ASSUME BootTypeOK
  PROVE  /\ lease \in Nat /\ db \in Levels /\ repeatable \in Empty..db /\ stage \in [Replica -> Stages]
         /\ taken \in [Replica -> Nat] /\ snap \in [Replica -> Levels]
         /\ asFollower \in [Replica -> BOOLEAN] /\ leads \in [Replica -> BOOLEAN]
         /\ preempt \in [Replica -> BOOLEAN]
  BY DEF BootTypeOK, Levels

LEMMA BootFitsInitially == BootInit => BootFits /\ ConnectsFirst
<1> SUFFICES ASSUME BootInit PROVE BootFits /\ ConnectsFirst
  OBVIOUS
<1>1. BootTypeOK
  BY BootAssumption DEF BootInit, BootTypeOK, Stages, Empty, Tagged
<1>2. HolderKnows /\ LeadersBoot /\ ConnectsFirst
  BY BootAssumption DEF BootInit, HolderKnows, LeadersBoot, ConnectsFirst, canWrite, Empty, Tagged
<1> QED
  BY <1>1, <1>2 DEF BootFits

\* A process ends.
LEMMA DownKeeps ==
  ASSUME BootFits, NEW p \in Replica, Down(p), UNCHANGED leaders
  PROVE  BootFits' /\ stage'[p] = "down" /\ \A q \in Replica \ {p} : stage'[q] = stage[q]
<1>1. BootTypeOK /\ HolderKnows /\ LeadersBoot
  BY DEF BootFits
<1>2. /\ stage' = [stage EXCEPT ![p] = "down"] /\ asFollower' = [asFollower EXCEPT ![p] = FALSE]
      /\ leads' = [leads EXCEPT ![p] = FALSE] /\ taken' = [taken EXCEPT ![p] = 0]
      /\ snap' = [snap EXCEPT ![p] = Empty] /\ preempt' = [preempt EXCEPT ![p] = FALSE]
      /\ lease' = lease /\ db' = db /\ repeatable' = repeatable /\ tag' = tag /\ leaders' = leaders
  BY DEF Down, Goto, databaseVars
<1>3. \A q \in Replica :
        /\ stage'[q] = IF q = p THEN "down" ELSE stage[q]
        /\ asFollower'[q] = IF q = p THEN FALSE ELSE asFollower[q]
        /\ leads'[q] = IF q = p THEN FALSE ELSE leads[q]
        /\ taken'[q] = IF q = p THEN 0 ELSE taken[q]
        /\ snap'[q] = IF q = p THEN Empty ELSE snap[q]
  BY <1>1, <1>2, BootTyped
<1>4. BootTypeOK'
  BY <1>1, <1>2, <1>3, LevelsOrder DEF BootTypeOK, Stages, Levels
<1>5. HolderKnows'
  BY <1>1, <1>2, <1>3, BootTyped, LevelsOrder DEF HolderKnows, canWrite
<1>6. LeadersBoot'
  BY <1>1, <1>2, <1>3 DEF LeadersBoot
<1> QED
  BY <1>3, <1>4, <1>5, <1>6 DEF BootFits

\* A process gets on without touching the database.
LEMMA GotoKeeps ==
  ASSUME BootFits, NEW p \in Replica, NEW s \in Stages, Goto(p, s), s \notin {"load", "tables", "storage"},
         UNCHANGED <<databaseVars, taken, snap, leaders>>,
         asFollower' \in [Replica -> BOOLEAN], preempt' \in [Replica -> BOOLEAN],
         s \in {"workers", "serving", "draining"} => tag # None,
         leads' = leads \/ leads' = [leads EXCEPT ![p] = TRUE],
         leads'[p] => s \in {"serving", "draining"},
         \A q \in Replica \ {p} : asFollower'[q] = asFollower[q],
         asFollower'[p] \/ s \in {"probe", "connect", "workers"} => p \in leaders,
         s \in {"serving", "draining"} => p \in leaders \/ repeatable = Tagged
  PROVE  BootFits' /\ stage'[p] = s /\ \A q \in Replica \ {p} : stage'[q] = stage[q]
<1>1. BootTypeOK /\ HolderKnows /\ LeadersBoot
  BY DEF BootFits
<1>2. \A q \in Replica : stage'[q] = IF q = p THEN s ELSE stage[q]
  BY <1>1, BootTyped DEF Goto
<1>3. /\ lease' = lease /\ db' = db /\ repeatable' = repeatable /\ tag' = tag
      /\ taken' = taken /\ snap' = snap /\ leaders' = leaders
  BY DEF databaseVars
<1>4. \A q \in Replica \ {p} : leads'[q] = leads[q]
  BY <1>1, BootTyped
<1>5. BootTypeOK'
  <2>1. stage' \in [Replica -> Stages]
    BY <1>1, BootTyped DEF Goto
  <2>2. \A q \in Replica : stage'[q] \in {"workers", "serving", "draining"} => tag' # None
    BY <1>1, <1>2, <1>3 DEF BootTypeOK
  <2>3. leads' \in [Replica -> BOOLEAN]
    BY <1>1, BootTyped
  <2> QED
    BY <1>1, <1>3, <2>1, <2>2, <2>3 DEF BootTypeOK
<1>6. HolderKnows'
  BY <1>1, <1>2, <1>3, <1>4 DEF HolderKnows, canWrite
<1>7. LeadersBoot'
  BY <1>1, <1>2, <1>3 DEF LeadersBoot
<1> QED
  BY <1>2, <1>5, <1>6, <1>7 DEF BootFits

\* A process takes the lease: at its start, or when it is promoted.
LEMMA TakeKeeps ==
  ASSUME BootFits, NEW p \in Replica, Connect(p) \/ Promote(p), UNCHANGED leaders
  PROVE  BootFits'
<1>1. BootTypeOK /\ HolderKnows /\ LeadersBoot
  BY DEF BootFits
<1>2. /\ lease' = lease + 1 /\ taken' = [taken EXCEPT ![p] = lease + 1] /\ lease \in Nat
      /\ UNCHANGED <<db, tag, asFollower, snap, preempt, leaders>> /\ repeatable' \in {repeatable, db}
  BY <1>1 DEF Connect, Promote, BootTypeOK, bounds
<1>3. \A q \in Replica : /\ taken'[q] = IF q = p THEN lease + 1 ELSE taken[q]
                         /\ taken[q] \in Nat /\ taken[q] <= lease
  BY <1>1, <1>2 DEF BootTypeOK
<1>4. /\ stage' \in [Replica -> Stages] /\ leads' \in [Replica -> BOOLEAN]
      /\ \A q \in Replica : /\ q # p => stage'[q] = stage[q] /\ leads'[q] = leads[q]
                            /\ stage'[p] \in {"load", "serving"}
                            /\ stage'[p] = "load" => p \in leaders /\ ~leads'[p]
                            /\ stage'[p] = "serving" => stage[p] = "serving"
  <2>1. CASE Connect(p)
    <3>1. stage[p] = "connect" /\ stage' = [stage EXCEPT ![p] = "load"] /\ leads' = leads
      BY <2>1 DEF Connect, Goto
    <3>2. p \in leaders /\ ~leads[p]
      BY <1>1, <3>1, BootTyped DEF HolderKnows, LeadersBoot
    <3> QED
      BY <1>1, <3>1, <3>2, BootTyped DEF Stages
  <2>2. CASE Promote(p)
    BY <1>1, <2>2, BootTyped DEF Promote
  <2> QED
    BY <2>1, <2>2
<1>5. BootTypeOK'
  <2>1. taken' \in [Replica -> Nat] /\ \A q \in Replica : taken'[q] <= lease'
    BY <1>1, <1>2, <1>3, BootTyped
  <2>2. \A q \in Replica : stage'[q] \in {"workers", "serving", "draining"} => tag' # None
    BY <1>1, <1>2, <1>4 DEF BootTypeOK
  <2>3. repeatable' \in Empty..db'
    BY <1>1, <1>2, BootTyped, LevelsOrder
  <2> QED
    BY <1>1, <1>2, <1>4, <2>1, <2>2, <2>3 DEF BootTypeOK
<1>6. HolderKnows'
  <2>1. \A q, r \in Replica : q # r /\ taken'[q] = taken'[r] => taken'[q] = 0
    BY <1>1, <1>2, <1>3 DEF HolderKnows
  <2>2. ASSUME NEW q \in Replica
        PROVE  /\ snap'[q] <= db'
               /\ stage'[q] \in {"load", "tables", "storage"} => taken'[q] # 0
               /\ stage'[q] \in {"tables", "storage"} /\ taken'[q] = lease' => snap'[q] = db'
               /\ leads'[q] => stage'[q] \in {"serving", "draining"}
    <3>1. CASE q = p
      BY <1>1, <1>2, <1>3, <1>4, <3>1 DEF HolderKnows
    <3>2. CASE q # p
      BY <1>1, <1>2, <1>3, <1>4, <3>2 DEF HolderKnows
    <3> QED
      BY <3>1, <3>2
  <2> QED
    BY <1>1, <1>2, <2>1, <2>2 DEF HolderKnows, canWrite
<1>7. LeadersBoot'
  <2>1. repeatable = Tagged => repeatable' = Tagged
    BY <1>1, <1>2, BootTyped, LevelsOrder
  <2> QED
    BY <1>1, <1>2, <1>4, <2>1 DEF LeadersBoot
<1> QED
  BY <1>5, <1>6, <1>7 DEF BootFits

\* The three writes of the initialisation: who makes one has the lease and knows how
\* far the database is, and who finds it made goes on with what it knows.
LEMMA WriteKeeps ==
  ASSUME BootFits, NEW p \in Replica, LoadLeader(p) \/ InitTables(p) \/ InitStorage(p), UNCHANGED leaders
  PROVE  BootFits' /\ (tag # None => tag' = tag)
<1>1. BootTypeOK /\ HolderKnows /\ LeadersBoot
  BY DEF BootFits
<1>2. /\ UNCHANGED <<lease, asFollower, leads, taken, preempt, leaders>>
      /\ \E s \in {"tables", "storage", "workers"} : stage' = [stage EXCEPT ![p] = s]
      /\ stage[p] \in {"load", "tables", "storage"}
  BY DEF LoadLeader, InitTables, InitStorage, Goto, bounds
<1>3. PICK s \in {"tables", "storage", "workers"} : stage' = [stage EXCEPT ![p] = s]
  BY <1>2
<1>4. \A q \in Replica : stage'[q] = IF q = p THEN s ELSE stage[q]
  BY <1>1, <1>3, BootTyped
<1>5. /\ snap' \in [Replica -> Levels] /\ db' \in Levels
      /\ \A q \in Replica \ {p} : snap'[q] = snap[q]
      /\ db <= db' /\ snap'[p] <= db'
      /\ db' # db => taken[p] = lease
      /\ taken[p] = lease => snap'[p] = db'
      /\ tag' \in Replica \union {None} /\ (tag # None => tag' = tag) /\ (db' = Tagged <=> tag' # None)
      /\ s = "workers" => tag' # None
      /\ repeatable' \in {repeatable, db'} /\ repeatable \in Empty..db
  <2>1. /\ db \in Levels /\ repeatable \in Empty..db /\ snap \in [Replica -> Levels] /\ snap[p] \in Levels /\ snap[p] <= db
        /\ tag \in Replica \union {None} /\ None \notin Replica /\ (db = Tagged <=> tag # None)
        /\ stage[p] \in {"tables", "storage"} /\ taken[p] = lease => snap[p] = db
    BY <1>1, BootTyped, BootAssumption DEF HolderKnows, BootTypeOK, canWrite
  <2>2. CASE LoadLeader(p)
    <3>1. tag' = tag /\ s # "workers"
      <4>1. stage'[p] = "tables"
        BY <1>1, <2>2, BootTyped DEF LoadLeader, Goto
      <4> QED
        BY <1>4, <2>2, <4>1 DEF LoadLeader
    <3>2. taken[p] = lease /\ db' \in {db, Documents} /\ (db' = Documents \/ db # Empty) /\ repeatable' = db'
      BY <2>2 DEF LoadLeader, canWrite
    <3>3. db' # db => db = Empty
      BY <2>2 DEF LoadLeader
    <3>4. snap' = [snap EXCEPT ![p] = db'] /\ db' \in Levels /\ db <= db' /\ (db' = Tagged <=> db = Tagged)
      BY <2>1, <2>2, <3>2, <3>3, LevelsOrder DEF LoadLeader
    <3> QED
      BY <2>1, <3>1, <3>2, <3>4, LevelsOrder
  <2>3. CASE InitTables(p)
    <3>1. tag' = tag /\ s # "workers" /\ stage[p] = "tables" /\ repeatable' = repeatable
      <4>1. stage'[p] = "storage"
        BY <1>1, <2>3, BootTyped DEF InitTables, Goto
      <4> QED
        BY <1>4, <2>3, <4>1 DEF InitTables
    <3>2. CASE snap[p] >= Tables
      <4>1. snap' = snap /\ db' = db
        BY <2>3, <3>2 DEF InitTables, Initialise
      <4> QED
        BY <2>1, <3>1, <4>1, LevelsOrder
    <3>3. CASE ~(snap[p] >= Tables)
      <4>1. /\ taken[p] = lease /\ db' = Tables /\ snap' = [snap EXCEPT ![p] = Tables]
        BY <2>3, <3>3 DEF InitTables, Initialise, canWrite
      <4> QED
        BY <2>1, <3>1, <3>3, <4>1, LevelsOrder
    <3> QED
      BY <3>2, <3>3
  <2>4. CASE InitStorage(p)
    <3>1. stage[p] = "storage" /\ repeatable' = repeatable /\ tag' = IF snap[p] >= Tagged THEN tag ELSE p
      BY <2>4 DEF InitStorage
    <3>2. CASE snap[p] >= Tagged
      <4>1. snap' = snap /\ db' = db /\ tag' = tag
        BY <2>4, <3>1, <3>2 DEF InitStorage, Initialise
      <4> QED
        BY <2>1, <3>1, <3>2, <4>1, LevelsOrder
    <3>3. CASE ~(snap[p] >= Tagged)
      <4>1. /\ taken[p] = lease /\ db' = Tagged /\ snap' = [snap EXCEPT ![p] = Tagged] /\ tag' = p
        BY <2>4, <3>1, <3>3 DEF InitStorage, Initialise, canWrite
      <4> QED
        BY <2>1, <3>1, <3>3, <4>1, LevelsOrder
    <3> QED
      BY <3>2, <3>3
  <2> QED
    BY <2>2, <2>3, <2>4
<1>6. BootTypeOK'
  <2>1. stage' \in [Replica -> Stages]
    BY <1>1, <1>3, BootTyped DEF Stages
  <2>2. \A q \in Replica : stage'[q] \in {"workers", "serving", "draining"} => tag' # None
    BY <1>1, <1>4, <1>5 DEF BootTypeOK
  <2>3. repeatable' \in Empty..db'
    BY <1>1, <1>5, BootTyped, LevelsOrder
  <2> QED
    BY <1>1, <1>2, <1>5, <2>1, <2>2, <2>3 DEF BootTypeOK, Levels
<1>7. HolderKnows'
  <2>1. taken[p] # 0
    BY <1>1, <1>2 DEF HolderKnows
  <2>2. ASSUME NEW q \in Replica
        PROVE  /\ snap'[q] <= db'
               /\ stage'[q] \in {"load", "tables", "storage"} => taken'[q] # 0
               /\ stage'[q] \in {"tables", "storage"} /\ taken'[q] = lease' => snap'[q] = db'
               /\ leads'[q] => stage'[q] \in {"serving", "draining"}
    <3>1. CASE q = p
      <4>1. ~leads[p]
        BY <1>1, <1>2 DEF HolderKnows
      <4> QED
        BY <1>2, <1>4, <1>5, <2>1, <3>1, <4>1
    <3>2. CASE q # p
      <4>1. /\ snap[q] \in Levels /\ snap[q] <= db /\ db \in Levels /\ db' \in Levels
            /\ stage'[q] = stage[q] /\ snap'[q] = snap[q] /\ taken'[q] = taken[q] /\ lease' = lease
        BY <1>1, <1>2, <1>4, <1>5, <3>2, BootTyped DEF HolderKnows
      <4>2. taken[q] = lease => taken[p] # lease
        BY <1>1, <2>1, <3>2 DEF HolderKnows
      <4>3. snap'[q] <= db'
        BY <1>5, <4>1, LevelsOrder
      <4>4. stage[q] \in {"tables", "storage"} /\ taken[q] = lease => snap[q] = db
        BY <1>1 DEF HolderKnows, canWrite
      <4> QED
        BY <1>1, <1>2, <1>5, <4>1, <4>2, <4>3, <4>4 DEF HolderKnows
    <3> QED
      BY <3>1, <3>2
  <2>3. \A q, r \in Replica : q # r /\ taken'[q] = taken'[r] => taken'[q] = 0
    BY <1>1, <1>2 DEF HolderKnows
  <2> QED
    BY <1>5, <2>2, <2>3 DEF HolderKnows, canWrite
<1>8. LeadersBoot'
  <2>1. repeatable = Tagged => repeatable' = Tagged
    BY <1>1, <1>5, BootTyped, LevelsOrder
  <2>2. p \in leaders
    BY <1>1, <1>2 DEF LeadersBoot
  <2> QED
    BY <1>1, <1>2, <1>4, <2>1, <2>2 DEF LeadersBoot
<1> QED
  BY <1>5, <1>6, <1>7, <1>8 DEF BootFits

\* The committer of the lease's holder makes what is committed repeatable.
LEMMA BumpKeeps ==
  ASSUME BootFits, NEW p \in Replica, BumpMaxRepeatable(p), UNCHANGED leaders
  PROVE  BootFits' /\ UNCHANGED <<stage, tag>>
<1>1. BootTypeOK /\ HolderKnows /\ LeadersBoot
  BY DEF BootFits
<1>2. /\ repeatable' = db
      /\ UNCHANGED <<lease, db, tag, stage, asFollower, leads, taken, snap, preempt, leaders>>
  BY DEF BumpMaxRepeatable, processVars
<1>3. repeatable' \in Empty..db' /\ (repeatable = Tagged => repeatable' = Tagged)
  BY <1>1, <1>2, BootTyped, LevelsOrder
<1>4. BootTypeOK'
  BY <1>1, <1>2, <1>3 DEF BootTypeOK
<1>5. HolderKnows'
  BY <1>1, <1>2 DEF HolderKnows, canWrite
<1>6. LeadersBoot'
  BY <1>1, <1>2, <1>3 DEF LeadersBoot
<1> QED
  BY <1>2, <1>4, <1>5, <1>6 DEF BootFits

\* What a step of a process may do: keep what fits, keep the tag, make more repeatable
\* only once it has a committer, or had read the tag, and connect only for what it found.
StepIs(p) ==
  /\ BootFits' /\ (tag # None => tag' = tag)
  /\ \A q \in Replica \ {p} : stage'[q] = stage[q]
  /\ repeatable' # repeatable =>
       /\ stage[p] \in {"load", "tables", "storage", "workers", "serving", "draining"}
       /\ stage'[p] # "connect"
  /\ stage'[p] = "connect" => p \notin Tokens \/ repeatable # Tagged

\* A step that only moves a process on leads to what GotoKeeps says.
LEMMA StartSteps ==
  ASSUME BootFits, NEW p \in Replica, UNCHANGED leaders,
         Launch(p) \/ Probe(p) \/ LoadFollower(p) \/ StartWorkers(p) \/ LeaseLost(p)
           \/ (FaultStep(p) /\ stage'[p] = "draining")
  PROVE  StepIs(p)
<1>1. BootTypeOK /\ HolderKnows /\ LeadersBoot
  BY DEF BootFits
<1>2. /\ leads[p] => stage[p] \in {"serving", "draining"}
      /\ asFollower[p] \/ stage[p] \in {"probe", "connect", "load", "tables", "storage", "workers"} => p \in leaders
      /\ stage[p] \in {"serving", "draining"} => p \in leaders \/ repeatable = Tagged
      /\ stage[p] \in {"workers", "serving", "draining"} => tag # None
      /\ (db = Tagged <=> tag # None) /\ db \in Levels /\ repeatable \in Empty..db
      /\ asFollower \in [Replica -> BOOLEAN] /\ preempt \in [Replica -> BOOLEAN] /\ stage \in [Replica -> Stages]
      /\ leads \in [Replica -> BOOLEAN]
  BY <1>1, BootTyped DEF HolderKnows, LeadersBoot, BootTypeOK
<1>3. CASE Launch(p)
  <2> DEFINE s == IF p \notin leaders THEN "read" ELSE IF dynamicRoles(p) THEN "probe" ELSE "connect"
  <2>1. Goto(p, s) /\ s \in {"read", "probe", "connect"} /\ s \in Stages /\ stage[p] = "down"
        /\ (s = "connect" => p \notin Tokens) /\ (s # "read" => p \in leaders)
    BY <1>3 DEF Launch, Stages, dynamicRoles
  <2>2. UNCHANGED <<databaseVars, asFollower, leads, taken, snap, preempt, leaders>> /\ repeatable' = repeatable /\ tag' = tag
    BY <1>3 DEF Launch, databaseVars
  <2> HIDE DEF s
  <2>3. BootFits' /\ stage'[p] = s /\ \A q \in Replica \ {p} : stage'[q] = stage[q]
    BY <1>2, <2>1, <2>2, GotoKeeps
  <2> QED
    BY <2>1, <2>2, <2>3 DEF StepIs
<1>4. CASE Probe(p)
  <2> DEFINE s == IF db # Empty THEN "read" ELSE "connect"
  <2>1. Goto(p, s) /\ s \in {"read", "connect"} /\ s \in Stages /\ stage[p] = "probe" /\ (s = "connect" => db = Empty)
    BY <1>4 DEF Probe, Stages
  <2>2. UNCHANGED <<databaseVars, leads, taken, snap, preempt, leaders>> /\ repeatable' = repeatable /\ tag' = tag
    BY <1>4 DEF Probe, databaseVars
  <2>3. /\ asFollower' \in [Replica -> BOOLEAN] /\ \A q \in Replica \ {p} : asFollower'[q] = asFollower[q]
    BY <1>2, <1>4 DEF Probe
  <2> HIDE DEF s
  <2>4. BootFits' /\ stage'[p] = s /\ \A q \in Replica \ {p} : stage'[q] = stage[q]
    BY <1>2, <2>1, <2>2, <2>3, GotoKeeps
  <2> QED
    BY <1>2, <2>1, <2>2, <2>4, LevelsOrder DEF StepIs
<1>5. CASE LoadFollower(p)
  <2>1. Goto(p, "serving") /\ "serving" \in Stages /\ stage[p] = "read" /\ repeatable = Tagged /\ db = Tagged
    BY <1>2, <1>5, LevelsOrder DEF LoadFollower, Stages
  <2>2. UNCHANGED <<databaseVars, asFollower, leads, taken, snap, preempt, leaders>> /\ repeatable' = repeatable /\ tag' = tag
    BY <1>5 DEF LoadFollower, databaseVars
  <2>3. BootFits' /\ stage'[p] = "serving" /\ \A q \in Replica \ {p} : stage'[q] = stage[q]
    BY <1>2, <2>1, <2>2, GotoKeeps
  <2> QED
    BY <2>2, <2>3 DEF StepIs
<1>6. CASE StartWorkers(p)
  <2>1. Goto(p, "serving") /\ "serving" \in Stages /\ stage[p] = "workers" /\ leads' = [leads EXCEPT ![p] = TRUE]
    BY <1>6 DEF StartWorkers, Stages
  <2>2. UNCHANGED <<databaseVars, asFollower, taken, snap, preempt, leaders>> /\ repeatable' = repeatable /\ tag' = tag
    BY <1>6 DEF StartWorkers, databaseVars
  <2>3. BootFits' /\ stage'[p] = "serving" /\ \A q \in Replica \ {p} : stage'[q] = stage[q]
    BY <1>2, <2>1, <2>2, GotoKeeps
  <2> QED
    BY <2>2, <2>3 DEF StepIs
<1>7. CASE LeaseLost(p)
  <2>1. leads[p] /\ UNCHANGED <<databaseVars, stage, asFollower, leads, taken, snap, leaders>> /\ repeatable' = repeatable /\ tag' = tag
    BY <1>7 DEF LeaseLost, databaseVars
  <2>2. stage' = [stage EXCEPT ![p] = stage[p]] /\ stage[p] \in Stages /\ stage[p] \in {"serving", "draining"}
    BY <1>2, <2>1
  <2>3. preempt' \in [Replica -> BOOLEAN]
    BY <1>2, <1>7 DEF LeaseLost
  <2>4. BootFits' /\ stage'[p] = stage[p] /\ \A q \in Replica \ {p} : stage'[q] = stage[q]
    BY <1>2, <2>1, <2>2, <2>3, GotoKeeps DEF Goto
  <2> QED
    BY <2>1, <2>2, <2>4 DEF StepIs
<1>8. CASE FaultStep(p) /\ stage'[p] = "draining"
  <2>1. Signal(p)
    BY <1>2, <1>8 DEF FaultStep, LoadFails, Crash, Down, Goto
  <2>2. Goto(p, "draining") /\ "draining" \in Stages /\ stage[p] = "serving"
    BY <2>1 DEF Signal, Stages
  <2>3. UNCHANGED <<databaseVars, asFollower, leads, taken, snap, preempt, leaders>> /\ repeatable' = repeatable /\ tag' = tag
    BY <2>1 DEF Signal, databaseVars
  <2>4. BootFits' /\ stage'[p] = "draining" /\ \A q \in Replica \ {p} : stage'[q] = stage[q]
    BY <1>2, <2>2, <2>3, GotoKeeps
  <2> QED
    BY <2>3, <2>4 DEF StepIs
<1> QED
  BY <1>3, <1>4, <1>5, <1>6, <1>7, <1>8

LEMMA ProcessSteps ==
  ASSUME BootFits, NEW p \in Replica, UNCHANGED leaders, BootStep(p) \/ ServeStep(p) \/ FaultStep(p)
  PROVE  StepIs(p)
<1>1. BootTypeOK /\ HolderKnows /\ LeadersBoot /\ stage \in [Replica -> Stages]
  BY BootTyped DEF BootFits
<1>2. CASE Down(p)
  <2>1. repeatable' = repeatable /\ tag' = tag
    BY <1>2 DEF Down, databaseVars
  <2> QED
    BY <1>2, <2>1, DownKeeps DEF StepIs
<1>3. CASE Untagged(p) /\ ~Down(p)
  <2>1. /\ stage[p] = "read" /\ repeatable # Tagged /\ asFollower[p] /\ Goto(p, "connect") /\ "connect" \in Stages
        /\ UNCHANGED <<databaseVars, asFollower, leads, taken, snap, preempt, leaders>> /\ repeatable' = repeatable /\ tag' = tag
    BY <1>3 DEF Untagged, Stages, databaseVars
  <2>2. p \in leaders /\ ~leads[p] /\ asFollower \in [Replica -> BOOLEAN] /\ preempt \in [Replica -> BOOLEAN]
    BY <1>1, <2>1, BootTyped DEF HolderKnows, LeadersBoot
  <2>3. BootFits' /\ stage'[p] = "connect" /\ \A q \in Replica \ {p} : stage'[q] = stage[q]
    BY <2>1, <2>2, GotoKeeps
  <2> QED
    BY <2>1, <2>3 DEF StepIs
<1>4. CASE Connect(p) \/ Promote(p)
  <2>1. /\ stage[p] = "serving" \/ repeatable' = repeatable
        /\ tag' = tag /\ stage'[p] # "connect" /\ \A q \in Replica \ {p} : stage'[q] = stage[q]
    BY <1>1, <1>4 DEF Connect, Promote, Goto
  <2> QED
    BY <1>4, <2>1, TakeKeeps DEF StepIs
<1>5. CASE BumpMaxRepeatable(p)
  <2>1. stage[p] \in {"tables", "storage", "workers", "serving", "draining"}
    BY <1>1, <1>5 DEF BumpMaxRepeatable, HolderKnows
  <2> QED
    BY <1>5, <2>1, BumpKeeps DEF StepIs
<1>6. CASE LoadLeader(p) \/ InitTables(p) \/ InitStorage(p)
  <2>1. stage[p] \in {"load", "tables", "storage"} /\ stage'[p] # "connect" /\ \A q \in Replica \ {p} : stage'[q] = stage[q]
    BY <1>1, <1>6 DEF LoadLeader, InitTables, InitStorage, Goto
  <2> QED
    BY <1>6, <2>1, WriteKeeps DEF StepIs
<1>7. CASE Launch(p) \/ Probe(p) \/ LoadFollower(p) \/ StartWorkers(p) \/ LeaseLost(p) \/ Signal(p)
  <2>1. Signal(p) => FaultStep(p) /\ stage'[p] = "draining"
    BY <1>1 DEF Signal, FaultStep, Goto
  <2> QED
    BY <1>7, <2>1, StartSteps
<1>8. Fenced(p) \/ LoadFails(p) \/ PreemptedExit(p) \/ Drained(p) \/ Crash(p) => Down(p)
  BY DEF Fenced, LoadFails, PreemptedExit, Drained, Crash
<1> QED
  BY <1>2, <1>3, <1>4, <1>5, <1>6, <1>7, <1>8 DEF BootStep, ServeStep, FaultStep

LEMMA StepKeepsBoot ==
  ASSUME BootFits, [BootNext]_bootVars
  PROVE  BootFits' /\ (tag # None => tag' = tag)
<1>1. CASE BootNext
  BY <1>1, ProcessSteps DEF BootNext, StepIs
<1>2. CASE UNCHANGED bootVars
  BY <1>2 DEF bootVars, databaseVars, processVars, BootFits, BootTypeOK, HolderKnows, LeadersBoot, canWrite
<1> QED
  BY <1>1, <1>2

\* The storage tag is written once, whichever replicas initialise the database,
\* crash or are deposed on the way, and nobody serves before it is there (make_app,
\* initialize_storage).
THEOREM DatabaseInitialisedOnce == BootSpec => InitialisedOnce
<1>1. BootFits /\ [BootNext]_bootVars => [BootTypeOK' /\ (tag # None => tag' = tag)]_bootVars
  BY StepKeepsBoot DEF BootFits
<1>2. BootFits /\ [BootNext]_bootVars => BootFits'
  BY StepKeepsBoot
<1> QED
  BY <1>1, <1>2, BootFitsInitially, PTL DEF BootSpec, InitialisedOnce

\* While the only replica configured as leader is about to take the lease, nobody
\* else can make the tag repeatable.
LEMMA ConnectsFirstKept ==
  ASSUME AllDynamic, BootFits, ConnectsFirst, [BootNext]_bootVars
  PROVE  ConnectsFirst'
<1>1. CASE BootNext
  <2>1. PICK p \in Replica : StepIs(p) /\ leaders' = leaders
    BY <1>1, ProcessSteps DEF BootNext
  <2>2. leaders \subseteq Tokens /\ leaders \subseteq Replica /\ IsFiniteSet(leaders)
    BY BootAssumption, FS_Subset DEF AllDynamic, BootFits, BootTypeOK
  <2>3. ASSUME Cardinality(leaders) = 1, NEW q \in Replica, stage'[q] = "connect"
        PROVE  repeatable' # Tagged
    <3>1. PICK l : leaders = {l}
      BY <2>2, <2>3, FS_Singleton
    <3>2. q \in leaders
      BY <2>1, <2>3 DEF StepIs, BootFits, LeadersBoot
    <3>3. CASE q = p
      BY <2>1, <2>2, <2>3, <3>2, <3>3 DEF StepIs
    <3>4. CASE q # p
      <4>1. stage[q] = "connect" /\ repeatable # Tagged
        BY <2>1, <2>3, <3>4 DEF StepIs, ConnectsFirst
      <4>2. stage[p] \notin {"load", "tables", "storage", "workers", "serving", "draining"}
        BY <3>1, <3>2, <3>4, <4>1 DEF BootFits, LeadersBoot
      <4> QED
        BY <2>1, <4>1, <4>2 DEF StepIs
    <3> QED
      BY <3>3, <3>4
  <2> QED
    BY <2>1, <2>3 DEF ConnectsFirst
<1>2. CASE UNCHANGED bootVars
  BY <1>2 DEF bootVars, databaseVars, processVars, ConnectsFirst
<1> QED
  BY <1>1, <1>2

\* A replica that starts never takes the lease from one that leads, when one replica
\* is configured as leader and bigbrain can demote and promote it (run_server_inner,
\* postgres_database_initialized).
THEOREM BootsSpareLeader == ASSUME AllDynamic PROVE BootSpec => BootSparesLeader
<1>1. BootFits /\ ConnectsFirst =>
        (Cardinality(leaders) = 1 => \A p, q \in Replica :
           stage[p] = "connect" /\ stage'[p] = "load" => ~(leads[q] /\ taken[q] = lease))
  <2> SUFFICES ASSUME BootFits, ConnectsFirst, Cardinality(leaders) = 1, NEW p \in Replica, NEW q \in Replica,
                      stage[p] = "connect", leads[q]
               PROVE  FALSE
    OBVIOUS
  <2>1. repeatable # Tagged /\ p \in leaders
    BY DEF ConnectsFirst, BootFits, LeadersBoot
  <2>2. stage[q] \in {"serving", "draining"} /\ q # p
    BY DEF BootFits, HolderKnows
  <2>3. q \in leaders
    BY <2>1, <2>2 DEF BootFits, LeadersBoot
  <2>4. IsFiniteSet(leaders)
    BY BootAssumption, FS_Subset DEF BootFits, BootTypeOK
  <2>5. PICK r : leaders = {r}
    BY <2>4, FS_Singleton
  <2> QED
    BY <2>1, <2>2, <2>3, <2>5
<1>2. BootFits /\ ConnectsFirst /\ [BootNext]_bootVars => BootFits' /\ ConnectsFirst'
  BY StepKeepsBoot, ConnectsFirstKept
<1> QED
  BY <1>1, <1>2, BootFitsInitially, PTL DEF BootSpec, BootSparesLeader
===============================================================================
