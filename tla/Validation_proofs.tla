------------------------- MODULE Validation_proofs -------------------------
(***************************************************************************)
(* Proofs about Validation, for any stocks, any number of spans and any    *)
(* number of attempts.                                                     *)
(***************************************************************************)
EXTENDS Validation, SequenceTheorems, TLAPS

-----------------------------------------------------------------------------
(* The two programs, and what is before what in them.                      *)

LEMMA Batch4Table ==
    /\ Len(Batch4) = 18
    /\ Batch4[1] = Do("up") /\ Batch4[2] = Post("success-1", "200")
    /\ Batch4[3] = Poll("success-1") /\ Batch4[4] = Do("examine")
    /\ Batch4[5] = Do("exact") /\ Batch4[6] = Do("stock")
    /\ Batch4[7] = Do("stop") /\ Batch4[8] = Post("failure", "502")
    /\ Batch4[9] = Poll("failure") /\ Batch4[10] = Do("examine")
    /\ Batch4[11] = Do("exact") /\ Batch4[12] = Do("compare")
    /\ Batch4[13] = Do("start") /\ Batch4[14] = Do("ready")
    /\ Batch4[15] = Post("failure", "200") /\ Batch4[16] = Do("compare")
    /\ Batch4[17] = Do("pass") /\ Batch4[18] = Do("down")
BY DEF Batch4, Analyze

LEMMA Batch5Table ==
    /\ Len(Batch5) = 16
    /\ Batch5[1] = Do("up") /\ Batch5[2] = Post("success-1", "200")
    /\ Batch5[3] = Poll("success-1") /\ Batch5[4] = Post("success-2", "200")
    /\ Batch5[5] = Poll("success-2") /\ Batch5[6] = Do("stock")
    /\ Batch5[7] = Do("stop") /\ Batch5[8] = Post("failure", "502")
    /\ Batch5[9] = Poll("failure") /\ Batch5[10] = Do("compare")
    /\ Batch5[11] = Do("start") /\ Batch5[12] = Do("examine")
    /\ Batch5[13] = Do("isolated") /\ Batch5[14] = Do("exact")
    /\ Batch5[15] = Do("pass") /\ Batch5[16] = Do("down")
BY DEF Batch5

\* Steps of different kinds, or about different things, are different.
LEMMA Steps ==
    /\ \A a, b : Do(a) = Do(b) <=> a = b
    /\ \A o, e, p, f : Post(o, e) = Post(p, f) <=> o = p /\ e = f
    /\ \A o, p : Poll(o) = Poll(p) <=> o = p
    /\ \A a, o, e : a # "checkout" => Do(a) # Post(o, e)
    /\ \A a, o : a # "poll" => Do(a) # Poll(o)
    /\ \A o, e, p : Post(o, e) # Poll(p)
    /\ \A a : Do(a).op = a
    /\ \A o, e : /\ Post(o, e).op = "checkout"
                 /\ Post(o, e).order = o /\ Post(o, e).expect = e
    /\ \A o : Poll(o).op = "poll" /\ Poll(o).order = o
BY DEF Do, Post, Poll

LEMMA PlaceOf ==
    ASSUME NEW op, NEW k \in 1 .. Last,
           \A n \in 1 .. Last : program[n].op = op <=> n = k
    PROVE  Place(op) = k
BY DEF Place

\* A finally is where the table says, and nowhere else.
LEMMA Places ==
    ASSUME program \in Programs
    PROVE  /\ program = Batch4 => Last = 18 /\ Place("start") = 13
           /\ program = Batch5 => Last = 16 /\ Place("start") = 11
           /\ Place("stop") = 7
<1>1. CASE program = Batch4
  <2>1. Last = 18 /\ Batch4 # Batch5
    BY <1>1, Batch4Table, Batch5Table DEF Last
  <2>2. \A n \in 1 .. Last : (program[n].op = "start" <=> n = 13)
                             /\ (program[n].op = "stop" <=> n = 7)
    <3> TAKE n \in 1 .. Last
    <3>1. n \in {1, 2, 3, 4, 5, 6, 7, 8, 9, 10, 11, 12, 13, 14, 15,
           16, 17, 18}
      BY <2>1
    <3> QED
      BY <1>1, <3>1, Batch4Table, Steps
  <2>3. Place("start") = 13 /\ Place("stop") = 7
    BY <2>1, <2>2, PlaceOf
  <2> QED
    BY <1>1, <2>1, <2>3
<1>2. CASE program = Batch5
  <2>1. Last = 16 /\ Batch4 # Batch5
    BY <1>2, Batch4Table, Batch5Table DEF Last
  <2>2. \A n \in 1 .. Last : (program[n].op = "start" <=> n = 11)
                             /\ (program[n].op = "stop" <=> n = 7)
    <3> TAKE n \in 1 .. Last
    <3>1. n \in {1, 2, 3, 4, 5, 6, 7, 8, 9, 10, 11, 12, 13, 14, 15,
           16}
      BY <2>1
    <3> QED
      BY <1>2, <3>1, Batch5Table, Steps
  <2>3. Place("start") = 11 /\ Place("stop") = 7
    BY <2>1, <2>2, PlaceOf
  <2> QED
    BY <1>2, <2>1, <2>3
<1> QED
  BY <1>1, <1>2 DEF Programs

\* What kind of step the script is at.
LEMMA Kinds ==
    ASSUME program \in Programs, at \in 1 .. Last
    PROVE  /\ Here.op = "checkout" =>
                 Here \in {Post("success-1", "200"), Post("success-2", "200"),
                           Post("failure", "502"), Post("failure", "200")}
           /\ Here.op = "poll" => Here \in {Poll(o) : o \in Orders}
           /\ Here.op \notin {"checkout", "poll"} => Here = Do(Here.op)
           /\ Here.op = "up" <=> at = 1
           /\ Here.op = "stop" <=> at = Place("stop")
           /\ Here.op = "start" <=> at = Place("start")
           /\ Here.op = "pass" <=> at = Last - 1
           /\ Here.op = "down" <=> at = Last
<1>1. CASE program = Batch4
  <2>1. at \in {1, 2, 3, 4, 5, 6, 7, 8, 9, 10, 11, 12, 13, 14, 15, 16, 17,
        18}
    BY <1>1, Places
  <2> QED
    BY <1>1, <2>1, Places, Batch4Table, Steps DEF Here, Orders
<1>2. CASE program = Batch5
  <2>1. at \in {1, 2, 3, 4, 5, 6, 7, 8, 9, 10, 11, 12, 13, 14, 15, 16}
    BY <1>2, Places
  <2> QED
    BY <1>2, <2>1, Places, Batch5Table, Steps DEF Here, Orders
<1> QED
  BY <1>1, <1>2 DEF Programs

\* What the script has behind it at each kind of step.
LEMMA Behind ==
    ASSUME program \in Programs, at \in 1 .. Last + 1
    PROVE  /\ Do("stop") \in Done <=> at > Place("stop")
           /\ Do("start") \in Done <=> at > Place("start")
           /\ Do("pass") \in Done <=> at >= Last
           /\ Do("up") \in Done <=> at > 1
           /\ Do("ready") \in Done => at > Place("start") + 1
           /\ Do("stock") \in Done <=> at > 6
           /\ Post("failure", "502") \in Done <=> at > 8
           /\ Poll("failure") \in Done <=> at > 9
           /\ Post("failure", "200") \in Done => at > 15
           /\ Post("success-1", "200") \in Done <=> at > 2
           /\ Poll("success-1") \in Done <=> at > 3
<1>1. CASE program = Batch4
  <2>1. at \in {1, 2, 3, 4, 5, 6, 7, 8, 9, 10, 11, 12, 13, 14, 15, 16, 17,
        18, 19}
    BY <1>1, Places
  <2> QED
    BY <1>1, <2>1, Places, Batch4Table, Steps DEF Done
<1>2. CASE program = Batch5
  <2>1. at \in {1, 2, 3, 4, 5, 6, 7, 8, 9, 10, 11, 12, 13, 14, 15, 16, 17}
    BY <1>2, Places
  <2> QED
    BY <1>2, <2>1, Places, Batch5Table, Steps DEF Done
<1> QED
  BY <1>1, <1>2 DEF Programs

-----------------------------------------------------------------------------
(* Where the script is, and what that says of the steps behind it.         *)

LEMMA AtCheckout ==
    ASSUME program \in Programs, at \in 1 .. Last, Here.op = "checkout"
    PROVE  /\ Here \notin Done
           /\ Here \in {Post("success-1", "200"), Post("success-2", "200")} =>
                 /\ Do("up") \in Done
                 /\ Do("stop") \notin Done
                 /\ Do("stock") \notin Done
           /\ Here = Post("failure", "502") =>
                 /\ Do("stop") \in Done
                 /\ Do("start") \notin Done
                 /\ Post("failure", "200") \notin Done
           /\ Here = Post("failure", "200") =>
                 /\ Do("ready") \in Done
                 /\ Poll("failure") \in Done
                 /\ Post("failure", "502") \in Done
<1>1. CASE program = Batch4
  <2>1. at \in {1, 2, 3, 4, 5, 6, 7, 8, 9, 10, 11, 12, 13, 14, 15, 16, 17,
        18}
    BY <1>1, Places
  <2> QED
    BY <1>1, <2>1, Places, Batch4Table, Steps DEF Done, Here
<1>2. CASE program = Batch5
  <2>1. at \in {1, 2, 3, 4, 5, 6, 7, 8, 9, 10, 11, 12, 13, 14, 15, 16}
    BY <1>2, Places
  <2> QED
    BY <1>2, <2>1, Places, Batch5Table, Steps DEF Done, Here
<1> QED
  BY <1>1, <1>2 DEF Programs

LEMMA AtStock ==
    ASSUME program \in Programs, at \in 1 .. Last
    PROVE  /\ Here.op = "stock" => Post("failure", "502") \notin Done
           /\ Here.op = "compare" => /\ Do("stock") \in Done
                                     /\ Poll("failure") \in Done
<1>1. CASE program = Batch4
  <2>1. at \in {1, 2, 3, 4, 5, 6, 7, 8, 9, 10, 11, 12, 13, 14, 15, 16, 17,
        18}
    BY <1>1, Places
  <2> QED
    BY <1>1, <2>1, Places, Batch4Table, Steps DEF Done, Here
<1>2. CASE program = Batch5
  <2>1. at \in {1, 2, 3, 4, 5, 6, 7, 8, 9, 10, 11, 12, 13, 14, 15, 16}
    BY <1>2, Places
  <2> QED
    BY <1>2, <2>1, Places, Batch5Table, Steps DEF Done, Here
<1> QED
  BY <1>1, <1>2 DEF Programs

\* Which orders a script has checked out and polled when it has passed.
LEMMA AtEnd ==
    ASSUME program \in Programs, at \in {Last, Last + 1}
    PROVE  /\ Do("stock") \in Done
           /\ Do("pass") \in Done
           /\ Poll("failure") \in Done
           /\ program = Batch4 =>
                 /\ {o \in Orders : Post(o, "200") \in Done} = {"success-1", "failure"}
                 /\ {o \in Orders : Poll(o) \in Done} = {"success-1", "failure"}
           /\ program # Batch4 =>
                 /\ {o \in Orders : Post(o, "200") \in Done} = {"success-1", "success-2"}
                 /\ {o \in Orders : Poll(o) \in Done} = Orders
<1>1. CASE program = Batch4
  <2>1. at \in {18, 19}
    BY <1>1, Places
  <2>2. /\ Do("stock") \in Done /\ Do("pass") \in Done
        /\ Poll("failure") \in Done /\ Poll("success-1") \in Done
        /\ Post("success-1", "200") \in Done /\ Post("failure", "200") \in Done
    BY <1>1, <2>1, Batch4Table DEF Done
  <2>3. Poll("success-2") \notin Done /\ Post("success-2", "200") \notin Done
    <3>1. \A n \in 1 .. at - 1 : n \in {1, 2, 3, 4, 5, 6, 7, 8, 9, 10, 11, 12,
              13, 14, 15, 16, 17, 18}
      BY <2>1
    <3> QED
      BY <1>1, <3>1, Batch4Table, Steps DEF Done
  <2> HIDE DEF Done
  <2> QED
    BY <1>1, <2>2, <2>3 DEF Orders
<1>2. CASE program = Batch5
  <2>1. at \in {16, 17} /\ program # Batch4
    BY <1>2, Places
  <2>2. /\ Do("stock") \in Done /\ Do("pass") \in Done
        /\ Poll("failure") \in Done /\ Poll("success-1") \in Done
        /\ Poll("success-2") \in Done
        /\ Post("success-1", "200") \in Done /\ Post("success-2", "200") \in Done
    BY <1>2, <2>1, Batch5Table DEF Done
  <2>3. Post("failure", "200") \notin Done
    <3>1. \A n \in 1 .. at - 1 : n \in {1, 2, 3, 4, 5, 6, 7, 8, 9, 10, 11, 12,
              13, 14, 15, 16}
      BY <2>1
    <3> QED
      BY <1>2, <3>1, Batch5Table, Steps DEF Done
  <2> QED
    BY <2>1, <2>2, <2>3 DEF Orders
<1> QED
  BY <1>1, <1>2 DEF Programs

\* A step that is taken is behind the script.
LEMMA Advance ==
    ASSUME at \in Nat \ {0}, at' = at + 1, program' = program
    PROVE  Done' = Done \cup {Here}
BY DEF Done, Here

LEMMA SameProgram ==
    ASSUME program' = program
    PROVE  /\ Last' = Last
           /\ Place("start")' = Place("start")
           /\ Place("stop")' = Place("stop")
BY DEF Last, Place

LEMMA Order ==
    ASSUME program \in Programs
    PROVE  /\ Last \in Nat /\ Last > 15
           /\ Place("stop") = 7
           /\ Place("start") \in 8 .. Last - 2
BY Places DEF Programs

-----------------------------------------------------------------------------
(* Control.                                                                *)

\* Only the steps of a finally are taken with an exception on its way.
LEMMA Running ==
    ASSUME ValidationInv, NEW op, At(op), op \notin {"start", "down"}
    PROVE  ~failed /\ at \in 1 .. Last - 1 /\ ~printed /\ Sound /\ Supplied
<1>1. /\ program \in Programs /\ at \in 1 .. Last + 1 /\ at <= Last
      /\ failed \in BOOLEAN /\ printed \in BOOLEAN /\ Last \in Nat
  BY Places DEF ValidationInv, TypeOK, At, Programs
<1>2. at \in 1 .. Last /\ Here.op = op
  BY <1>1 DEF At
<1>3. at # Last /\ at # Place("start")
  BY <1>1, <1>2, Kinds
<1>4. ~failed
  BY <1>1, <1>2, <1>3 DEF ValidationInv, Leaving
<1>5. Sound /\ Supplied
  BY <1>4 DEF ValidationInv
<1>6. ~printed
  BY <1>1, <1>2, <1>3, <1>5, Behind DEF Sound
<1> QED
  BY <1>1, <1>2, <1>3, <1>4, <1>5, <1>6

LEMMA Forward ==
    ASSUME ValidationInv, at \in 1 .. Last, ~failed, Proceed
    PROVE  /\ at' = at + 1 /\ program' = program /\ failed' = FALSE
           /\ Done' = Done \cup {Here}
           /\ at' \in 1 .. Last + 1 /\ tries' = 0
<1>1. Last \in Nat /\ failed \in BOOLEAN
  BY Places DEF ValidationInv, TypeOK, Programs
<1> QED
  BY <1>1, Advance DEF Proceed

LEMMA Outward ==
    ASSUME ValidationInv, at \in 1 .. Last, Throw
    PROVE  /\ program' = program /\ failed' = TRUE /\ tries' = 0
           /\ at' = IF at = Last THEN Last + 1
                    ELSE IF Place("stop") <= at /\ at < Place("start")
                    THEN Place("start") ELSE Last
           /\ at' \in 1 .. Last + 1
           /\ Leaving'
<1>1. /\ program \in Programs /\ Last \in Nat
      /\ Place("start") \in 1 .. Last /\ Place("stop") \in 1 .. Last
  BY Places DEF ValidationInv, TypeOK, Programs
<1>2. program' = program
  BY DEF Throw
<1> QED
  BY <1>1, <1>2, SameProgram DEF Throw, Rescue, Guarded, Leaving

\* Whatever else a step does, the control stays in its types.
LEMMA TypeStays ==
    ASSUME ValidationInv, at \in 1 .. Last,
           Proceed \/ Throw,
           before' \in Int, traces' \in [Orders -> Nat], printed' \in BOOLEAN,
           stock' \in Nat, reserved' \in SUBSET Orders, charged' \in SUBSET Orders,
           postgres' \in {"up", "starting", "down"}, project' \in {"up", "down"},
           shape' \in [Orders -> {"none", "short", "refused", "charged"}],
           exported' \in [Orders -> Nat]
    PROVE  TypeOK'
<1>1. /\ program \in Programs /\ failed \in BOOLEAN /\ Last \in Nat
      /\ Tries \in Nat
  BY BoundsAssumption, Order DEF ValidationInv, TypeOK
<1>2. program' = program /\ Last' = Last /\ tries' = 0
  BY SameProgram DEF Proceed, Throw
<1>3. failed' \in BOOLEAN
  BY <1>1 DEF Proceed, Throw
<1>4. at' \in 1 .. Last + 1
  <2>1. Rescue \in 1 .. Last
    BY <1>1, Order DEF Rescue
  <2> QED
    BY <1>1, <2>1 DEF Proceed, Throw
<1> QED
  BY <1>1, <1>2, <1>3, <1>4 DEF TypeOK

LEMMA CommandsStay ==
    ASSUME ValidationInv, at \in 1 .. Last - 1,
           Here.op \notin {"up", "stop", "start"}, ~failed,
           Proceed \/ Throw, ran' = ran
    PROVE  Commands'
<1>1. /\ program \in Programs /\ Last \in Nat /\ at \in 1 .. Last
      /\ Place("start") \in 1 .. Last - 1
      /\ Place("stop") \in 2 .. Place("start") - 1
  BY Places DEF ValidationInv, TypeOK, Programs
<1>2. at # 1 /\ at # Place("stop") /\ at # Place("start")
  BY <1>1, Kinds
<1>3. /\ Last' = Last /\ Place("start")' = Place("start")
      /\ Place("stop")' = Place("stop")
  BY SameProgram DEF Proceed, Throw
<1>4. \/ at' = at + 1
      \/ at' = IF Place("stop") <= at /\ at < Place("start")
               THEN Place("start") ELSE Last
  BY <1>1, Forward, Outward
<1>5. ran \in IF at = 1 THEN {<<>>}
            ELSE IF at <= Place("stop") THEN {<<"up">>}
            ELSE IF at <= Place("start") THEN {<<"up", "stop">>}
            ELSE IF at < Last THEN {<<"up", "stop", "start">>}
            ELSE IF at = Last THEN {<<"up">>, <<"up", "stop", "start">>}
            ELSE {<<"up", "down">>, <<"up", "stop", "start", "down">>}
  BY DEF ValidationInv, Commands
<1> QED
  BY <1>1, <1>2, <1>3, <1>4, <1>5 DEF Commands

\* An exception leaves nothing to be shown but that it has a reason.
LEMMA ThrowsOut ==
    ASSUME ValidationInv, NEW op, At(op), op \notin {"start", "down"},
           Throw, printed' = printed, faults' # {},
           TypeOK', Delivered', Commands'
    PROVE  ValidationInv'
<1>1. ~printed /\ at \in 1 .. Last
  <2>1. Last \in Nat
    BY Places DEF ValidationInv, TypeOK, Programs
  <2> QED
    BY <2>1, Running
<1>2. failed' /\ Leaving'
  BY <1>1, Outward
<1> QED
  BY <1>1, <1>2 DEF ValidationInv, FailsForAReason

LEMMA GoesOn ==
    ASSUME ValidationInv, at \in 1 .. Last, ~failed, Proceed,
           TypeOK', Delivered', Commands', Sound', Supplied'
    PROVE  ValidationInv'
BY Forward DEF ValidationInv, FailsForAReason, Leaving

-----------------------------------------------------------------------------
(* The lists of commands, one longer than the other.                       *)

Command == {"up", "stop", "start", "down"}

LEMMA Longer ==
    ASSUME NEW s \in Seq(Command), NEW t \in Seq(Command), NEW c \in Command,
           Len(t) = Len(s) + 1,
           \A i \in 1 .. Len(s) : t[i] = s[i],
           t[Len(t)] = c
    PROVE  Append(s, c) = t
<1>1. Append(s, c) \in Seq(Command) /\ Len(Append(s, c)) = Len(t)
  BY AppendProperties
<1>2. \A i \in 1 .. Len(t) : Append(s, c)[i] = t[i]
  BY AppendProperties
<1> QED
  BY <1>1, <1>2, SeqEqual

LEMMA CommandLists ==
    /\ Append(<<>>, "up") = <<"up">>
    /\ Append(<<"up">>, "stop") = <<"up", "stop">>
    /\ Append(<<"up", "stop">>, "start") = <<"up", "stop", "start">>
    /\ Append(<<"up">>, "down") = <<"up", "down">>
    /\ Append(<<"up", "stop", "start">>, "down") = <<"up", "stop", "start", "down">>
<1>1. ASSUME NEW a \in Command, NEW b \in Command, NEW c \in Command,
             NEW d \in Command
      PROVE  /\ Append(<<>>, a) = <<a>>
             /\ Append(<<a>>, b) = <<a, b>>
             /\ Append(<<a, b>>, c) = <<a, b, c>>
             /\ Append(<<a, b, c>>, d) = <<a, b, c, d>>
  <2>1. /\ <<>> \in Seq(Command)
        /\ <<a>> \in Seq(Command) /\ <<a, b>> \in Seq(Command)
        /\ <<a, b, c>> \in Seq(Command) /\ <<a, b, c, d>> \in Seq(Command)
    OBVIOUS
  <2>2. Append(<<>>, a) = <<a>>
    BY <2>1, Longer
  <2>3. Append(<<a>>, b) = <<a, b>>
    <3> DEFINE s == <<a>>
               t == <<a, b>>
    <3>1. /\ s \in Seq(Command) /\ t \in Seq(Command)
          /\ Len(t) = Len(s) + 1
          /\ \A i \in 1 .. Len(s) : t[i] = s[i]
          /\ t[Len(t)] = b
      BY <2>1
    <3> HIDE DEF s, t
    <3>2. Append(s, b) = t
      BY <3>1, Longer
    <3> QED
      BY <3>2 DEF s, t
  <2>4. Append(<<a, b>>, c) = <<a, b, c>>
    <3> DEFINE s == <<a, b>>
               t == <<a, b, c>>
    <3>1. /\ s \in Seq(Command) /\ t \in Seq(Command)
          /\ Len(t) = Len(s) + 1
          /\ \A i \in 1 .. Len(s) : t[i] = s[i]
          /\ t[Len(t)] = c
      BY <2>1
    <3> HIDE DEF s, t
    <3>2. Append(s, c) = t
      BY <3>1, Longer
    <3> QED
      BY <3>2 DEF s, t
  <2>5. Append(<<a, b, c>>, d) = <<a, b, c, d>>
    <3> DEFINE s == <<a, b, c>>
               t == <<a, b, c, d>>
    <3>1. /\ s \in Seq(Command) /\ t \in Seq(Command)
          /\ Len(t) = Len(s) + 1
          /\ \A i \in 1 .. Len(s) : t[i] = s[i]
          /\ t[Len(t)] = d
      BY <2>1
    <3> HIDE DEF s, t
    <3>2. Append(s, d) = t
      BY <3>1, Longer
    <3> QED
      BY <3>2 DEF s, t
  <2> QED
    BY <2>2, <2>3, <2>4, <2>5
<1> QED
  BY <1>1 DEF Command

-----------------------------------------------------------------------------
(* What was polled.                                                        *)

\* A trace that was polled is whole, and is the trace that the script expects.
LEMMA Seen ==
    ASSUME ValidationInv, Sound, NEW o \in Orders, traces[o] # 0
    PROVE  /\ traces[o] = Spans /\ exported[o] = Spans
           /\ AsExpected(o)
           /\ o \in reserved
<1>1. /\ Spans \in Nat \ {0} /\ traces[o] \in Nat
      /\ shape[o] \in {"none", "short", "refused", "charged"}
  BY BoundsAssumption DEF ValidationInv, TypeOK
<1>2. traces[o] = Spans /\ exported[o] = Spans /\ exported[o] <= Sent(o)
  BY DEF ValidationInv, Delivered
<1>3. shape[o] \in {"refused", "charged"}
  BY <1>1, <1>2 DEF Sent
<1> QED
  BY <1>2, <1>3 DEF Sound, Traced, Accounted, AsExpected, Orders

-----------------------------------------------------------------------------
(* The steps of the scripts.                                               *)

LEMMA UpStep == ValidationInv /\ Up => ValidationInv'
<1> SUFFICES ASSUME ValidationInv, Up PROVE ValidationInv'
  OBVIOUS
<1>1. /\ At("up") /\ ~failed /\ ~printed /\ Sound /\ Supplied
      /\ at \in 1 .. Last /\ Last \in Nat /\ program \in Programs
  BY Running, Places DEF Up, ValidationInv, TypeOK, Programs
<1>2. at = 1 /\ Here = Do("up") /\ ran = <<>>
  BY <1>1, Kinds DEF At, ValidationInv, Commands
<1>3. TypeOK /\ Delivered
  BY DEF ValidationInv
<1>4. Delivered'
  BY <1>3 DEF Up, Delivered, Sent, jaeger
<1>5. ran' = <<"up">>
  BY <1>2 DEF Up, Run
<1>6. CASE Proceed /\ postgres' = "up" /\ project' = "up" /\ UNCHANGED faults
  <2>1. /\ at' = 2 /\ program' = program /\ failed' = FALSE /\ Last' = Last
        /\ Done' = {Do("up")}
    <3>1. Done = {}
      BY <1>2 DEF Done
    <3> QED
      BY <1>1, <1>2, <1>6, <3>1, Forward, SameProgram
  <2>2. TypeOK'
    BY <1>1, <1>3, <1>6, TypeStays
    DEF Up, TypeOK, stores, jaeger
  <2>3. Commands'
    BY <1>1, <1>5, <2>1, Order, SameProgram DEF Commands
  <2>4. Sound'
    <3>1. Accounted' /\ Traced'
      <4>1. Done = {}
        BY <1>2 DEF Done
      <4> QED
        BY <1>1, <2>1, <4>1, Steps DEF Sound, Accounted, Traced, Up, stores, jaeger
    <3>2. Counted' /\ Outage'
      BY <2>1, Steps DEF Counted, Outage
    <3>3. ~printed' /\ Do("pass") \notin Done' /\ ~Exited'
      BY <1>1, <2>1, Steps, Order DEF Up, Exited
    <3> QED
      BY <3>1, <3>2, <3>3 DEF Sound
  <2>5. Supplied'
    BY <1>6, <2>1, Steps DEF Supplied
  <2> QED
    BY <1>1, <1>4, <1>6, <2>2, <2>3, <2>4, <2>5, GoesOn
<1>7. CASE /\ Fails("compose")
           /\ project' \in {project, "up"}
           /\ postgres' \in {postgres, "starting", "up"}
  <2>1. TypeOK'
    BY <1>1, <1>3, <1>7, TypeStays
    DEF Up, TypeOK, stores, jaeger, Fails
  <2>2. Commands'
    <3>1. at' = Last /\ Last' = Last /\ program' = program
      BY <1>1, <1>2, <1>7, Outward, Order, SameProgram DEF Fails
    <3> QED
      BY <1>1, <1>5, <3>1, Order, SameProgram DEF Commands
  <2> QED
    BY <1>1, <1>4, <1>7, <2>1, <2>2, ThrowsOut DEF Fails, Fault, Up
<1> QED
  BY <1>6, <1>7 DEF Up

LEMMA StopStep == ValidationInv /\ Stop => ValidationInv'
<1> SUFFICES ASSUME ValidationInv, Stop PROVE ValidationInv'
  OBVIOUS
<1>1. /\ At("stop") /\ ~failed /\ ~printed /\ Sound /\ Supplied
      /\ at \in 1 .. Last /\ program \in Programs
  BY Running, Order DEF Stop, ValidationInv, TypeOK
<1>2. at = Place("stop") /\ Here = Do("stop") /\ ran = <<"up">>
  BY <1>1, Kinds, Order DEF At, ValidationInv, Commands
<1>3. TypeOK /\ Delivered
  BY DEF ValidationInv
<1>4. Delivered'
  BY <1>3 DEF Stop, Delivered, Sent, jaeger
<1>5. ran' = <<"up", "stop">>
  <2>1. ran' = Append(ran, "stop")
    BY DEF Stop, Run
  <2> QED
    BY <1>2, <2>1, CommandLists
<1>6. CASE Proceed /\ postgres' = "down" /\ UNCHANGED faults
  <2>1. /\ at' = at + 1 /\ program' = program /\ failed' = FALSE /\ Last' = Last
        /\ Done' = Done \cup {Do("stop")}
    BY <1>1, <1>2, <1>6, Forward, SameProgram
  <2>2. TypeOK'
    BY <1>1, <1>3, <1>6, TypeStays
    DEF Stop, TypeOK, stores, jaeger
  <2>3. Commands'
    BY <1>1, <1>2, <1>5, <2>1, Order, SameProgram DEF Commands
  <2>4. Sound'
    <3>1. Accounted' /\ Traced' /\ Counted'
      BY <1>1, <2>1, Steps DEF Sound, Accounted, Traced, Counted, Stop, stores, jaeger
    <3>2. Outage'
      BY <1>6 DEF Outage
    <3>3. ~printed' /\ Do("pass") \notin Done' /\ ~Exited'
      BY <1>1, <1>2, <2>1, Steps, Order DEF Sound, Stop, Exited
    <3> QED
      BY <3>1, <3>2, <3>3 DEF Sound
  <2>5. Supplied'
    <3>1. Do("ready") \notin Done
      BY <1>1, <1>2, Behind, Order
    <3> QED
      BY <2>1, <3>1, Steps DEF Supplied
  <2> QED
    BY <1>1, <1>4, <1>6, <2>2, <2>3, <2>4, <2>5, GoesOn
<1>7. CASE Fails("compose") /\ postgres' \in {postgres, "down"}
  <2>1. TypeOK'
    BY <1>1, <1>3, <1>7, TypeStays
    DEF Stop, TypeOK, stores, jaeger, Fails
  <2>2. Commands'
    <3>1. at' = Place("start") /\ program' = program
      BY <1>1, <1>2, <1>7, Outward, Order DEF Fails
    <3> QED
      BY <1>1, <1>5, <3>1, Order, SameProgram DEF Commands
  <2> QED
    BY <1>1, <1>4, <1>7, <2>1, <2>2, ThrowsOut DEF Fails, Fault, Stop
<1> QED
  BY <1>6, <1>7 DEF Stop

\* The finally of the inner try, with or without an exception.
LEMMA StartStep == ValidationInv /\ Start => ValidationInv'
<1> SUFFICES ASSUME ValidationInv, Start PROVE ValidationInv'
  OBVIOUS
<1>1. /\ at \in 1 .. Last /\ Here.op = "start" /\ program \in Programs
      /\ Last \in Nat /\ failed \in BOOLEAN
  BY Order DEF Start, At, ValidationInv, TypeOK
<1>2. at = Place("start") /\ Here = Do("start") /\ ran = <<"up", "stop">>
  BY <1>1, Kinds, Order DEF ValidationInv, Commands
<1>3. TypeOK /\ Delivered
  BY DEF ValidationInv
<1>4. Delivered'
  BY <1>3 DEF Start, Delivered, Sent, jaeger
<1>5. ran' = <<"up", "stop", "start">>
  <2>1. ran' = Append(ran, "start")
    BY DEF Start, Run
  <2> QED
    BY <1>2, <2>1, CommandLists
<1>6. ~printed
  BY <1>1, <1>2, Behind, Order DEF ValidationInv, TypeOK, Sound
<1>7. TypeOK'
  BY <1>1, <1>3, TypeStays
  DEF Start, TypeOK, stores, jaeger, Fails
<1>8. CASE Proceed /\ ~failed
  <2>0. /\ postgres' = IF postgres = "down" THEN "starting" ELSE postgres
        /\ UNCHANGED faults
    BY <1>1, <1>8, Forward, Outward DEF Start, Fails
  <2>1. /\ at' = at + 1 /\ program' = program /\ failed' = FALSE /\ Last' = Last
        /\ Done' = Done \cup {Do("start")}
    BY <1>1, <1>2, <1>8, Forward, SameProgram
  <2>2. Sound /\ Supplied
    BY <1>8 DEF ValidationInv
  <2>3. Commands'
    BY <1>1, <1>2, <1>5, <2>1, Order, SameProgram DEF Commands
  <2>4. Sound'
    <3>1. Accounted' /\ Traced' /\ Counted'
      BY <2>1, <2>2, Steps DEF Sound, Accounted, Traced, Counted, Start, stores, jaeger
    <3>2. Outage'
      BY <2>1 DEF Outage
    <3>3. ~printed' /\ Do("pass") \notin Done' /\ ~Exited'
      BY <1>1, <1>2, <1>6, <2>1, <2>2, Steps, Order DEF Sound, Start, Exited
    <3> QED
      BY <3>1, <3>2, <3>3 DEF Sound
  <2>5. Supplied'
    <3>1. Do("ready") \notin Done /\ Do("stop") \in Done
      BY <1>1, <1>2, Behind, Order
    <3> QED
      BY <2>1, <3>1, Steps DEF Supplied
  <2> QED
    BY <1>1, <1>4, <1>7, <1>8, <2>3, <2>4, <2>5, GoesOn
<1>9. CASE (Proceed /\ failed) \/ Fails("compose")
  <2>1. /\ at' = Last /\ program' = program /\ failed' = TRUE
    <3>1. Rescue = Last /\ at # Last
      BY <1>1, <1>2, Order DEF Rescue, Guarded
    <3>2. CASE Proceed /\ failed
      BY <1>1, <3>1, <3>2 DEF Proceed, At
    <3>3. CASE Fails("compose")
      BY <3>1, <3>3 DEF Fails, Throw
    <3> QED
      BY <1>9, <3>2, <3>3
  <2>2. Leaving' /\ Commands'
    BY <1>1, <1>5, <2>1, Order, SameProgram DEF Commands, Leaving
  <2>3. faults' # {}
    BY <1>9 DEF Start, Fails, Fault, ValidationInv, FailsForAReason
  <2> QED
    BY <1>4, <1>6, <1>7, <2>1, <2>2, <2>3 DEF ValidationInv, FailsForAReason, Start
<1> QED
  BY <1>8, <1>9 DEF Start

\* The finally of the outer try, with or without an exception.
LEMMA DownStep == ValidationInv /\ Down => ValidationInv'
<1> SUFFICES ASSUME ValidationInv, Down PROVE ValidationInv'
  OBVIOUS
<1>1. /\ at \in 1 .. Last /\ Here.op = "down" /\ program \in Programs
      /\ Last \in Nat /\ failed \in BOOLEAN
  BY Order DEF Down, At, ValidationInv, TypeOK
<1>2. at = Last /\ Here = Do("down") /\ ran \in {<<"up">>, <<"up", "stop", "start">>}
  BY <1>1, Kinds, Order DEF ValidationInv, Commands
<1>3. TypeOK /\ Delivered
  BY DEF ValidationInv
<1>4. Delivered'
  BY <1>3 DEF Down, Delivered, Sent, jaeger
<1>5. ran' \in {<<"up", "down">>, <<"up", "stop", "start", "down">>}
  <2>1. ran' = Append(ran, "down")
    BY DEF Down, Run
  <2> QED
    BY <1>2, <2>1, CommandLists
<1>6. TypeOK'
  BY <1>1, <1>3, TypeStays
  DEF Down, TypeOK, stores, jaeger, Fails
<1>7. /\ at' = Last + 1 /\ program' = program /\ failed' \in BOOLEAN
      /\ Done' = Done \cup {Do("down")} /\ Last' = Last
  <2>1. at' = Last + 1 /\ program' = program
    <3>1. at # Place("start")
      BY <1>1, <1>2, Order
    <3> QED
      BY <1>1, <1>2, <3>1 DEF Down, Fails, Throw, Proceed, At
  <2> QED
    BY <1>1, <1>2, <1>6, <2>1, Advance, SameProgram DEF TypeOK
<1>8. Leaving' /\ Commands'
  BY <1>1, <1>5, <1>7, Order, SameProgram DEF Commands, Leaving
<1>9. failed' => failed \/ faults' # {}
  BY DEF Down, Fails, Fault, Proceed
<1>10. FailsForAReason'
  BY <1>9 DEF ValidationInv, FailsForAReason, Down, Fails, Fault
<1>11. Supplied'
  BY <1>1, <1>7 DEF Supplied, Exited
<1>12. ASSUME ~failed' \/ printed'
       PROVE  Sound'
  <2>1. Sound
    BY <1>12 DEF ValidationInv, Down, Fails, Throw, Proceed
  <2>2. Accounted' /\ Traced' /\ Counted'
    BY <1>7, <2>1, Steps DEF Sound, Accounted, Traced, Counted, Down, stores, jaeger
  <2>3. Outage'
    BY <1>1, <1>2, <1>7, Behind, Order DEF Outage
  <2>4. printed' <=> Do("pass") \in Done'
    BY <1>7, <2>1, Steps DEF Sound, Down
  <2>5. failed' \/ project' = "down"
    BY DEF Down, Fails, Throw
  <2> QED
    BY <2>1, <2>2, <2>3, <2>4, <2>5 DEF Sound
<1> QED
  BY <1>4, <1>6, <1>8, <1>10, <1>11, <1>12 DEF ValidationInv

\* What happens while the script stays where it is, other than at Jaeger.
LEMMA Waiting ==
    ASSUME ValidationInv, tries' \in 0 .. Tries,
           postgres' = postgres \/ (postgres = "starting" /\ postgres' = "up"),
           UNCHANGED <<program, at, failed, state, stores, project, jaeger, faults>>
    PROVE  ValidationInv'
<1>1. /\ Last' = Last /\ Done' = Done
      /\ Place("start")' = Place("start") /\ Place("stop")' = Place("stop")
  BY SameProgram DEF Done
<1>2. TypeOK' /\ Delivered'
  BY <1>1 DEF ValidationInv, TypeOK, Delivered, Sent, state, stores, jaeger
<1>3. Commands' /\ Leaving' /\ FailsForAReason'
  BY <1>1 DEF ValidationInv, Commands, Leaving, FailsForAReason, state
<1>4. ASSUME Sound
      PROVE  Sound'
  <2>1. Accounted' /\ Traced' /\ Counted'
    BY <1>1, <1>4 DEF Sound, Accounted, Traced, Counted, state, stores, jaeger
  <2>2. Outage' /\ (Exited <=> Exited')
    BY <1>1, <1>4 DEF Sound, Outage, Exited
  <2>3. Do("pass") \in Done' <=> Do("pass") \in Done
    BY <1>1
  <2> QED
    BY <1>4, <2>1, <2>2, <2>3 DEF Sound, state
<1>5. ASSUME Supplied
      PROVE  Supplied'
  BY <1>1, <1>5 DEF Supplied, Exited
<1> QED
  BY <1>2, <1>3, <1>4, <1>5 DEF ValidationInv, state

\* A step that is about nothing but the traces and the stock, and that changes
\* neither them nor the stores: it leaves what is known as it was, and when it
\* throws, for a reason, only that.
LEMMA LookStep ==
    ASSUME ValidationInv, NEW op,
           op \in {"compare", "ready", "examine", "exact", "isolated"}, At(op),
           UNCHANGED <<state, stores, postgres, project, jaeger>>,
           \/ Throw /\ faults' # {}
           \/ /\ Proceed
              /\ faults \subseteq faults'
              /\ op = "ready" /\ faults' = {} => postgres = "up"
    PROVE  ValidationInv'
<1>1. /\ ~failed /\ ~printed /\ Sound /\ Supplied
      /\ at \in 1 .. Last - 1 /\ program \in Programs
      /\ Last \in Nat /\ Here = Do(op)
  BY Running, Kinds, Order DEF At, ValidationInv, TypeOK
<1>2. TypeOK /\ Delivered /\ Here.op = op /\ at \in 1 .. Last
  BY <1>1 DEF ValidationInv, At
<1>3. TypeOK'
  BY <1>2, TypeStays DEF TypeOK, state, stores, jaeger
<1>4. Delivered'
  BY <1>2 DEF Delivered, Sent, state, jaeger
<1>5. Commands'
  BY <1>1, <1>2, CommandsStay DEF state
<1>6. CASE Throw /\ faults' # {}
  BY <1>3, <1>4, <1>5, <1>6, ThrowsOut DEF state
<1>7. CASE /\ Proceed
           /\ faults \subseteq faults'
           /\ op = "ready" /\ faults' = {} => postgres = "up"
  <2>1. /\ at' = at + 1 /\ program' = program /\ failed' = FALSE /\ Last' = Last
        /\ Done' = Done \cup {Do(op)}
    BY <1>1, <1>2, <1>7, Forward, SameProgram
  <2>2. Sound'
    <3>1. Accounted' /\ Traced' /\ Counted' /\ Outage'
      BY <1>1, <2>1, Steps
      DEF Sound, Accounted, Traced, Counted, Outage, state, stores, jaeger
    <3>2. ~printed' /\ Do("pass") \notin Done' /\ ~Exited'
      BY <1>1, <2>1, Steps DEF Sound, state, Exited
    <3> QED
      BY <3>1, <3>2 DEF Sound
  <2>3. Supplied'
    BY <1>1, <1>7, <2>1, Steps DEF Supplied, Exited
  <2> QED
    BY <1>1, <1>2, <1>3, <1>4, <1>5, <1>7, <2>2, <2>3, GoesOn
<1> QED
  BY <1>6, <1>7

LEMMA ReadStockStep == ValidationInv /\ ReadStock => ValidationInv'
<1> SUFFICES ASSUME ValidationInv, ReadStock PROVE ValidationInv'
  OBVIOUS
<1>1. /\ At("stock") /\ ~failed /\ ~printed /\ Sound /\ Supplied
      /\ at \in 1 .. Last - 1 /\ program \in Programs
      /\ Last \in Nat /\ Here = Do("stock")
  BY Running, Kinds, Order DEF At, ReadStock, ValidationInv, TypeOK
<1>2. TypeOK /\ Delivered /\ Here.op = "stock" /\ at \in 1 .. Last
  BY <1>1 DEF ValidationInv, At
<1>3. TypeOK'
  BY <1>2, TypeStays DEF TypeOK, ReadStock, Fails, stores, jaeger
<1>4. Delivered'
  BY <1>2 DEF Delivered, Sent, ReadStock, jaeger
<1>5. Commands'
  BY <1>1, <1>2, CommandsStay DEF ReadStock, Fails
<1>6. CASE Fails("compose")
  BY <1>1, <1>3, <1>4, <1>5, <1>6, ThrowsOut DEF Fails, Fault, ReadStock
<1>7. CASE Proceed /\ before' = stock /\ UNCHANGED faults
  <2>1. /\ at' = at + 1 /\ program' = program /\ failed' = FALSE /\ Last' = Last
        /\ Done' = Done \cup {Do("stock")}
    BY <1>1, <1>2, <1>7, Forward, SameProgram
  <2>2. Sound'
    <3>1. Accounted' /\ Traced' /\ Outage'
      BY <1>1, <2>1, Steps
      DEF Sound, Accounted, Traced, Outage, ReadStock, stores, jaeger
    <3>2. "failure" \notin reserved
      BY <1>1, <1>2, AtStock DEF Sound, Accounted
    <3>3. Counted'
      BY <1>7, <3>2 DEF Counted, ReadStock, stores
    <3>4. ~printed' /\ Do("pass") \notin Done' /\ ~Exited'
      BY <1>1, <2>1, Steps DEF Sound, ReadStock, Exited
    <3> QED
      BY <3>1, <3>3, <3>4 DEF Sound
  <2>3. Supplied'
    BY <1>1, <1>7, <2>1, Steps DEF Supplied, Exited, ReadStock
  <2> QED
    BY <1>1, <1>2, <1>3, <1>4, <1>5, <1>7, <2>2, <2>3, GoesOn
<1> QED
  BY <1>6, <1>7 DEF ReadStock

LEMMA CompareStockStep == ValidationInv /\ CompareStock => ValidationInv'
<1> SUFFICES ASSUME ValidationInv, CompareStock PROVE ValidationInv'
  OBVIOUS
<1>1. /\ At("compare") /\ Sound /\ at \in 1 .. Last /\ program \in Programs
  BY Running, Order DEF CompareStock, ValidationInv, TypeOK
<1>2. "failure" \in reserved
  BY <1>1, AtStock, Seen DEF At, Sound, Traced, Orders
<1>3. stock = before - 1
  BY <1>1, <1>2, AtStock DEF At, Sound, Counted
<1>4. \/ Proceed /\ UNCHANGED faults
      \/ Throw /\ faults' # {}
  BY <1>3 DEF CompareStock, Assert, Fails, Fault
<1> QED
  BY <1>1, <1>4, LookStep DEF CompareStock

LEMMA ReadyStep == ValidationInv /\ Ready => ValidationInv'
<1> SUFFICES ASSUME ValidationInv, Ready PROVE ValidationInv'
  OBVIOUS
<1>1. CASE postgres = "up" /\ tries < Tries /\ Proceed /\ UNCHANGED faults
  BY <1>1, LookStep DEF Ready
<1>2. CASE tries = Tries /\ Proceed /\ Fault("late")
  <2>1. faults \subseteq faults' /\ faults' # {}
    BY <1>2 DEF Fault
  <2> QED
    BY <1>2, <2>1, LookStep DEF Ready
<1>3. CASE /\ tries < Tries
           /\ tries' = tries + 1
           /\ UNCHANGED <<program, at, failed, faults>>
  <2>1. tries' \in 0 .. Tries
    BY <1>3, BoundsAssumption DEF ValidationInv, TypeOK
  <2> QED
    BY <1>3, <2>1, Waiting DEF Ready
<1> QED
  BY <1>1, <1>2, <1>3 DEF Ready

LEMMA ExamineStep == ValidationInv /\ Examine => ValidationInv'
<1> SUFFICES ASSUME ValidationInv, Examine PROVE ValidationInv'
  OBVIOUS
<1>1. At("examine") /\ Sound
  BY Running DEF Examine
<1>2. \A o \in Polled : AsExpected(o) /\ traces[o] = Spans
  BY <1>1, Seen DEF Polled, ValidationInv, TypeOK
<1> QED
  BY <1>1, <1>2, LookStep DEF Examine, Assert

LEMMA ExactStep == ValidationInv /\ Exact => ValidationInv'
<1> SUFFICES ASSUME ValidationInv, Exact PROVE ValidationInv'
  OBVIOUS
<1>1. At("exact") /\ Sound
  BY Running DEF Exact
<1>2. \A o \in Polled : exported[o] = traces[o]
  BY <1>1, Seen DEF Polled, ValidationInv, TypeOK
<1>3. \/ Proceed /\ UNCHANGED faults
      \/ Throw /\ faults' # {}
  BY <1>2 DEF Exact, Assert, Fails, Fault
<1> QED
  BY <1>1, <1>3, LookStep DEF Exact

LEMMA IsolatedStep == ValidationInv /\ Isolated => ValidationInv'
<1> SUFFICES ASSUME ValidationInv, Isolated PROVE ValidationInv'
  OBVIOUS
<1>1. \/ Proceed /\ UNCHANGED faults
      \/ Throw /\ faults' # {}
  BY DEF Isolated, Fails, Fault
<1> QED
  BY <1>1, LookStep DEF Isolated

LEMMA PassStep == ValidationInv /\ Pass => ValidationInv'
<1> SUFFICES ASSUME ValidationInv, Pass PROVE ValidationInv'
  OBVIOUS
<1>1. /\ At("pass") /\ ~failed /\ Sound /\ Supplied
      /\ at \in 1 .. Last - 1 /\ program \in Programs
      /\ Last \in Nat /\ Here = Do("pass")
  BY Running, Kinds, Order DEF At, Pass, ValidationInv, TypeOK
<1>2. TypeOK /\ Delivered /\ Here.op = "pass" /\ at \in 1 .. Last
  BY <1>1 DEF ValidationInv, At
<1>3. TypeOK'
  BY <1>2, TypeStays DEF TypeOK, Pass, stores, jaeger
<1>4. Delivered'
  BY <1>2 DEF Delivered, Sent, Pass, jaeger
<1>5. Commands'
  BY <1>1, <1>2, CommandsStay DEF Pass
<1>6. /\ at' = at + 1 /\ program' = program /\ failed' = FALSE /\ Last' = Last
      /\ Done' = Done \cup {Do("pass")}
  BY <1>1, <1>2, Forward, SameProgram DEF Pass
<1>7. Sound'
  <2>1. Accounted' /\ Traced' /\ Counted' /\ Outage'
    BY <1>1, <1>6, Steps
    DEF Sound, Accounted, Traced, Counted, Outage, Pass, stores, jaeger
  <2>2. printed' /\ Do("pass") \in Done' /\ ~Exited'
    BY <1>1, <1>6 DEF Pass, Exited
  <2> QED
    BY <2>1, <2>2 DEF Sound
<1>8. Supplied'
  BY <1>1, <1>6, Steps DEF Supplied, Exited, Pass
<1> QED
  BY <1>1, <1>2, <1>3, <1>4, <1>5, <1>7, <1>8, GoesOn DEF Pass

LEMMA PollFindsStep == ValidationInv /\ PollFinds => ValidationInv'
<1> SUFFICES ASSUME ValidationInv, PollFinds PROVE ValidationInv'
  OBVIOUS
<1>1. /\ At("poll") /\ ~failed /\ ~printed /\ Sound /\ Supplied
      /\ at \in 1 .. Last - 1 /\ program \in Programs
      /\ Last \in Nat
  BY Running, Order DEF PollFinds, ValidationInv, TypeOK
<1>2. TypeOK /\ Delivered /\ Here.op = "poll" /\ at \in 1 .. Last
  BY <1>1 DEF ValidationInv, At
<1>3. PICK o \in Orders : Here = Poll(o)
  BY <1>1, <1>2, Kinds
<1>4. /\ Here.order = o /\ exported[o] = Spans /\ Spans \in Nat \ {0}
      /\ traces' = [traces EXCEPT ![o] = Spans]
  BY <1>3, Steps, BoundsAssumption DEF PollFinds, Complete
<1>5. TypeOK'
  BY <1>2, <1>4, TypeStays DEF TypeOK, PollFinds, stores, jaeger
<1>6. Delivered'
  BY <1>2, <1>4 DEF TypeOK, Delivered, Sent, PollFinds, jaeger
<1>7. Commands'
  BY <1>1, <1>2, CommandsStay DEF PollFinds
<1>8. /\ at' = at + 1 /\ program' = program /\ failed' = FALSE /\ Last' = Last
      /\ Done' = Done \cup {Poll(o)}
  BY <1>1, <1>2, <1>3, Forward, SameProgram DEF PollFinds
<1>9. Sound'
  <2>1. Accounted' /\ Counted' /\ Outage'
    BY <1>1, <1>8, Steps
    DEF Sound, Accounted, Counted, Outage, PollFinds, stores
  <2>2. Traced'
    <3>1. \A q \in Orders : traces'[q] # 0 <=> Poll(q) \in Done'
      BY <1>1, <1>2, <1>4, <1>8, Steps DEF Sound, Traced, TypeOK
    <3> QED
      BY <1>1, <1>8, <3>1, Steps DEF Sound, Traced, PollFinds, stores, jaeger
  <2>3. ~printed' /\ Do("pass") \notin Done' /\ ~Exited'
    BY <1>1, <1>8, Steps DEF Sound, PollFinds, Exited
  <2> QED
    BY <2>1, <2>2, <2>3 DEF Sound
<1>10. Supplied'
  BY <1>1, <1>8, Steps DEF Supplied, Exited, PollFinds
<1> QED
  BY <1>1, <1>2, <1>5, <1>6, <1>7, <1>9, <1>10, GoesOn DEF PollFinds

LEMMA PollAgainStep == ValidationInv /\ PollAgain => ValidationInv'
<1> SUFFICES ASSUME ValidationInv, PollAgain PROVE ValidationInv'
  OBVIOUS
<1>1. tries' \in 0 .. Tries
  BY BoundsAssumption DEF PollAgain, ValidationInv, TypeOK
<1> QED
  BY <1>1, Waiting DEF PollAgain

LEMMA PollGivesUpStep == ValidationInv /\ PollGivesUp => ValidationInv'
<1> SUFFICES ASSUME ValidationInv, PollGivesUp PROVE ValidationInv'
  OBVIOUS
<1>1. At("poll") /\ ~failed /\ at \in 1 .. Last - 1 /\ Last \in Nat
  BY Running, Order DEF PollGivesUp, ValidationInv, TypeOK
<1>2. Throw /\ faults' # {}
  BY DEF PollGivesUp, Fails, Fault
<1>3. TypeOK'
  BY <1>1, <1>2, TypeStays
  DEF ValidationInv, TypeOK, PollGivesUp, state, stores, jaeger
<1>4. Delivered'
  BY DEF ValidationInv, Delivered, Sent, PollGivesUp, state, jaeger
<1>5. Commands'
  BY <1>1, <1>2, CommandsStay DEF PollGivesUp, state, At
<1> QED
  BY <1>1, <1>2, <1>3, <1>4, <1>5, ThrowsOut DEF PollGivesUp, state

LEMMA ExportStep ==
    ASSUME ValidationInv, NEW o \in Orders, Export(o)
    PROVE  ValidationInv'
<1>1. /\ Last' = Last /\ Done' = Done
      /\ Place("start")' = Place("start") /\ Place("stop")' = Place("stop")
  BY SameProgram DEF Export, Done
<1>2. TypeOK'
  BY <1>1 DEF ValidationInv, TypeOK, Export, state, stores
<1>3. Delivered'
  <2>1. /\ Sent(o) \in Nat /\ Sent(o) <= Spans /\ Spans \in Nat
        /\ exported[o] \in Nat /\ exported \in [Orders -> Nat]
    BY BoundsAssumption DEF Sent, ValidationInv, TypeOK
  <2>2. traces[o] = 0 /\ exported'[o] <= Sent(o)
    BY <2>1 DEF ValidationInv, Delivered, Export
  <2> QED
    BY <2>1, <2>2 DEF ValidationInv, Delivered, Sent, Export, state
<1>4. Commands' /\ Leaving' /\ FailsForAReason'
  BY <1>1 DEF ValidationInv, Commands, Leaving, FailsForAReason, Export, state
<1>5. ASSUME Sound
      PROVE  Sound'
  <2>1. Accounted' /\ Traced' /\ Counted'
    BY <1>1, <1>5 DEF Sound, Accounted, Traced, Counted, Export, state, stores
  <2>2. Outage' /\ (Exited <=> Exited')
    BY <1>1, <1>5 DEF Sound, Outage, Exited, Export
  <2>3. Do("pass") \in Done' <=> Do("pass") \in Done
    BY <1>1
  <2> QED
    BY <1>5, <2>1, <2>2, <2>3 DEF Sound, Export, state
<1>6. ASSUME Supplied
      PROVE  Supplied'
  BY <1>1, <1>6 DEF Supplied, Exited, Export
<1> QED
  BY <1>2, <1>3, <1>4, <1>5, <1>6 DEF ValidationInv, Export, state

\* What a checkout can come to.
LEMMA Results ==
    ASSUME NEW o, NEW x \in Unreserved(o) \cup Charged(o)
    PROVE  /\ x.reserve \in BOOLEAN /\ x.charge \in BOOLEAN
           /\ x.trace \in {"short", "refused", "charged"}
           /\ x.trace = "refused" => x.reserve = TRUE
           /\ x.charge = TRUE <=> x.trace = "charged"
           /\ x.charge = TRUE => postgres = "up" /\ x.reserve = TRUE
           /\ x.reserve = TRUE /\ o \notin reserved => stock # 0
           /\ x.status = "200" => x.charge = TRUE /\ x.faults = {}
           /\ x.faults = {} => x.status = IF postgres = "up" THEN "200" ELSE "502"
<1> DEFINE Refused == o \notin reserved /\ stock = 0
<1>1. CASE x \in Unreserved(o) /\ Refused
  <2>1. x = Outcome("409", FALSE, FALSE, "short", {"stock"})
    BY <1>1 DEF Unreserved
  <2> QED
    BY <1>1, <2>1 DEF Outcome
<1>2. CASE x \in Unreserved(o) /\ ~Refused
  <2>1. PICK e \in Errors, r \in BOOLEAN : x = Interrupted(e, r)
    <3>1. Unreserved(o) = IF Refused
                          THEN {Outcome("409", FALSE, FALSE, "short", {"stock"})}
                          ELSE {Interrupted(e, r) : e \in Errors, r \in BOOLEAN}
      BY DEF Unreserved
    <3> HIDE DEF Refused
    <3>2. x \in {Interrupted(e, r) : e \in Errors, r \in BOOLEAN}
      BY <1>2, <3>1
    <3> QED
      BY <3>2
  <2> QED
    BY <1>2, <2>1 DEF Interrupted, Outcome, Errors
<1>3. CASE x \in Charged(o)
  <2>1. ~Refused
    BY <1>3 DEF Charged
  <2>2. CASE x = Outcome("502", TRUE, FALSE, "refused",
                         IF postgres = "up" THEN {"call"} ELSE {})
    BY <2>1, <2>2 DEF Outcome
  <2>3. CASE \E e \in Errors : x = Outcome(e, TRUE, FALSE, "refused", {"call"})
    BY <2>1, <2>3 DEF Outcome, Errors
  <2>4. CASE postgres = "up" /\ x = Outcome("200", TRUE, TRUE, "charged", {})
    BY <2>1, <2>4 DEF Outcome
  <2>5. CASE postgres = "up" /\ \E e \in Errors :
                x = Outcome(e, TRUE, TRUE, "charged", {"call"})
    BY <2>1, <2>5 DEF Outcome, Errors
  <2> QED
    BY <1>3, <2>2, <2>3, <2>4, <2>5 DEF Charged
<1> QED
  BY <1>1, <1>2, <1>3

\* An answer that is not the expected one has a reason.
LEMMA Unexpected ==
    ASSUME ValidationInv, At("checkout"),
           NEW x \in Unreserved(Here.order) \cup Charged(Here.order),
           ~Expected(x.status), x.faults = {}
    PROVE  faults # {}
<1>1. /\ Sound /\ Supplied /\ at \in 1 .. Last - 1 /\ program \in Programs
      /\ Last \in Nat /\ Here.op = "checkout"
  BY Running, Order DEF At, ValidationInv, TypeOK
<1>2. Here \in {Post("success-1", "200"), Post("success-2", "200"),
                Post("failure", "502"), Post("failure", "200")}
  BY <1>1, Kinds
<1>3. x.status = IF postgres = "up" THEN "200" ELSE "502"
  BY Results
<1>4. CASE Here = Post("failure", "502")
  <2>1. postgres = "down"
    BY <1>1, <1>4, AtCheckout DEF Sound, Outage
  <2> QED
    BY <1>3, <1>4, <2>1, Steps DEF Expected
<1>5. CASE Here # Post("failure", "502")
  <2>1. Here.expect = "200"
    BY <1>2, <1>5, Steps
  <2>2. postgres # "up"
    BY <1>3, <2>1 DEF Expected
  <2>3. \/ Do("up") \in Done /\ Do("stop") \notin Done
        \/ Do("ready") \in Done
    BY <1>1, <1>2, <1>5, AtCheckout
  <2> QED
    BY <1>1, <2>2, <2>3 DEF Supplied, Exited
<1> QED
  BY <1>4, <1>5

LEMMA CheckoutStep == ValidationInv /\ Checkout => ValidationInv'
<1> SUFFICES ASSUME ValidationInv, Checkout PROVE ValidationInv'
  OBVIOUS
<1>1. /\ At("checkout") /\ ~failed /\ ~printed /\ Sound /\ Supplied
      /\ at \in 1 .. Last - 1 /\ program \in Programs
      /\ Last \in Nat
  BY Running, Order DEF Checkout, ValidationInv, TypeOK
<1>2. TypeOK /\ Delivered /\ Here.op = "checkout" /\ at \in 1 .. Last
  BY <1>1 DEF ValidationInv, At
<1>3. Here \in {Post("success-1", "200"), Post("success-2", "200"),
                Post("failure", "502"), Post("failure", "200")}
  BY <1>1, <1>2, Kinds
<1> DEFINE o == Here.order
           New(x) == x.reserve /\ o \notin reserved
<1>4. PICK x \in Unreserved(o) \cup Charged(o) :
        /\ stock' = IF New(x) THEN stock - 1 ELSE stock
        /\ reserved' = IF New(x) THEN reserved \cup {o} ELSE reserved
        /\ charged' = IF x.charge THEN charged \cup {o} ELSE charged
        /\ shape' = IF shape[o] # "none" THEN shape
                    ELSE [shape EXCEPT ![o] = x.trace]
        /\ faults' = faults \cup x.faults
        /\ Assert(Expected(x.status))
  BY DEF Checkout
<1>5. o \in Orders
  BY <1>3, Steps DEF Orders
<1>6. /\ x.reserve \in BOOLEAN /\ x.charge \in BOOLEAN
      /\ x.trace \in {"short", "refused", "charged"}
      /\ x.trace = "refused" => x.reserve = TRUE
      /\ x.charge = TRUE <=> x.trace = "charged"
      /\ x.charge = TRUE => postgres = "up" /\ x.reserve = TRUE
      /\ x.reserve = TRUE /\ o \notin reserved => stock # 0
      /\ x.status = "200" => x.charge = TRUE
  BY Results
<1>7. TypeOK'
  <2>1. stock' \in Nat /\ reserved' \in SUBSET Orders /\ charged' \in SUBSET Orders
    BY <1>2, <1>4, <1>5, <1>6 DEF TypeOK
  <2>2. shape' \in [Orders -> {"none", "short", "refused", "charged"}]
    BY <1>2, <1>4, <1>5, <1>6 DEF TypeOK
  <2>3. Proceed \/ Throw
    BY <1>4 DEF Assert
  <2> QED
    BY <1>2, <2>1, <2>2, <2>3, TypeStays DEF TypeOK, Checkout, state
<1>8. Delivered'
  <2>1. \A q \in Orders : shape'[q] = shape[q] \/ shape[q] = "none"
    BY <1>2, <1>4, <1>5 DEF TypeOK
  <2>2. \A q \in Orders : Sent(q)' >= Sent(q) /\ exported[q] \in Nat
    BY <1>2, <1>7, <2>1, BoundsAssumption DEF Sent, TypeOK
  <2> QED
    BY <1>2, <2>2 DEF Delivered, Checkout, state, Sent
<1>9. Commands'
  BY <1>1, <1>2, <1>4, CommandsStay DEF Checkout, state, Assert
<1>10. CASE ~Expected(x.status)
  <2>1. Throw /\ faults' # {}
    BY <1>1, <1>4, <1>10, Unexpected DEF Assert
  <2> QED
    BY <1>1, <1>7, <1>8, <1>9, <2>1, ThrowsOut DEF Checkout, state
<1>11. CASE Expected(x.status)
  <2>1. Proceed /\ x.status = Here.expect
    BY <1>4, <1>11 DEF Assert, Expected
  <2>2. /\ at' = at + 1 /\ program' = program /\ failed' = FALSE /\ Last' = Last
        /\ Done' = Done \cup {Here}
    BY <1>1, <1>2, <2>1, Forward, SameProgram
  <2>3. UNCHANGED <<before, traces, printed, postgres, project>>
    BY DEF Checkout, state
  <2>4. Accounted' /\ Traced' /\ Counted'
    <3>1. CASE Here \in {Post("success-1", "200"), Post("success-2", "200")}
      <4>1. /\ o # "failure" /\ Here = Post(o, "200") /\ Here \notin Done
            /\ Do("stock") \notin Done
        BY <1>1, <1>2, <3>1, AtCheckout, Steps
      <4>2. x.charge /\ x.reserve /\ x.trace = "charged"
        BY <1>6, <2>1, <4>1, Steps
      <4>3. o \notin charged /\ o \notin reserved /\ shape[o] = "none"
        BY <1>1, <1>5, <4>1 DEF Sound, Accounted, Traced
      <4>4. /\ charged' = charged \cup {o} /\ reserved' = reserved \cup {o}
            /\ shape' = [shape EXCEPT ![o] = "charged"]
        BY <1>4, <4>2, <4>3
      <4>5. Accounted'
        BY <1>1, <1>5, <2>2, <4>1, <4>4, Steps DEF Sound, Accounted
      <4>6. Traced'
        BY <1>1, <1>2, <1>5, <2>2, <2>3, <4>1, <4>4, Steps
        DEF Sound, Traced, TypeOK, Orders
      <4>7. Counted'
        BY <2>2, <4>1, Steps DEF Counted
      <4> QED
        BY <4>5, <4>6, <4>7
    <3>2. CASE Here = Post("failure", "502")
      <4>1. /\ o = "failure" /\ Here \notin Done
            /\ Post("failure", "200") \notin Done /\ postgres = "down"
        BY <1>1, <1>2, <3>2, AtCheckout, Steps DEF Sound, Outage
      <4>2. ~x.charge /\ x.trace \in {"short", "refused"}
        BY <1>6, <4>1
      <4>3. o \notin charged /\ o \notin reserved /\ shape[o] = "none"
        BY <1>1, <1>5, <3>2, <4>1 DEF Sound, Accounted, Traced
      <4>4. /\ charged' = charged
            /\ reserved' = IF x.reserve THEN reserved \cup {o} ELSE reserved
            /\ stock' = IF x.reserve THEN stock - 1 ELSE stock
            /\ shape' = [shape EXCEPT ![o] = x.trace]
        BY <1>4, <4>2, <4>3
      <4>5. Accounted'
        BY <1>1, <1>5, <1>6, <2>2, <3>2, <4>1, <4>4, Steps DEF Sound, Accounted
      <4>6. Traced'
        BY <1>1, <1>2, <1>5, <1>6, <2>2, <2>3, <3>2, <4>1, <4>2, <4>4, Steps
        DEF Sound, Traced, TypeOK, Orders
      <4>7. Counted'
        BY <1>1, <1>2, <1>6, <2>2, <2>3, <3>2, <4>1, <4>3, <4>4, Steps
        DEF Sound, Counted, TypeOK
      <4> QED
        BY <4>5, <4>6, <4>7
    <3>3. CASE Here = Post("failure", "200")
      <4>1. /\ o = "failure" /\ Poll("failure") \in Done
            /\ Post("failure", "502") \in Done
        BY <1>1, <1>2, <3>3, AtCheckout, Steps
      <4>2. x.charge
        BY <1>6, <2>1, <3>3, Steps
      <4>3. o \in reserved /\ shape[o] # "none"
        BY <1>1, <1>5, <4>1, Seen DEF Sound, Traced, AsExpected
      <4>4. /\ charged' = charged \cup {o} /\ reserved' = reserved
            /\ stock' = stock /\ shape' = shape
        BY <1>4, <4>2, <4>3
      <4>5. Accounted'
        BY <1>1, <1>5, <2>2, <3>3, <4>1, <4>3, <4>4, Steps DEF Sound, Accounted
      <4>6. Traced'
        BY <1>1, <1>5, <2>2, <2>3, <3>3, <4>1, <4>4, Steps
        DEF Sound, Traced, Orders
      <4>7. Counted'
        BY <1>1, <2>2, <2>3, <3>3, <4>4, Steps DEF Sound, Counted
      <4> QED
        BY <4>5, <4>6, <4>7
    <3> QED
      BY <1>3, <3>1, <3>2, <3>3
  <2>5. Outage'
    BY <1>1, <1>3, <2>2, <2>3, Steps DEF Sound, Outage
  <2>6. ~printed' /\ Do("pass") \notin Done' /\ ~Exited'
    BY <1>1, <1>3, <2>2, <2>3, Steps DEF Sound, Exited
  <2>7. Sound'
    BY <2>4, <2>5, <2>6 DEF Sound
  <2>8. Supplied'
    BY <1>1, <1>3, <1>4, <2>2, <2>3, Steps DEF Supplied, Exited
  <2> QED
    BY <1>1, <1>2, <1>7, <1>8, <1>9, <2>1, <2>7, <2>8, GoesOn
<1> QED
  BY <1>10, <1>11

-----------------------------------------------------------------------------
(* The theorems.                                                           *)

LEMMA ValidationInit == Init => ValidationInv
<1> SUFFICES ASSUME Init PROVE ValidationInv
  OBVIOUS
<1>1. /\ at = 1 /\ program \in Programs /\ failed = FALSE /\ printed = FALSE
      /\ Done = {} /\ ran = <<>> /\ 1 \in 1 .. Last + 1 /\ Last > 15
  BY Order DEF Init, Done
<1>2. TypeOK
  <2>1. /\ postgres \in {"up", "starting", "down"} /\ tries \in 0 .. Tries
        /\ stock \in Nat /\ project \in {"up", "down"}
    BY BoundsAssumption DEF Init
  <2>2. /\ traces \in [Orders -> Nat] /\ exported \in [Orders -> Nat]
        /\ shape \in [Orders -> {"none", "short", "refused", "charged"}]
    BY DEF Init
  <2>3. at \in 1 .. Last + 1 /\ before \in Int
    BY <1>1 DEF Init
  <2> QED
    BY <1>1, <2>1, <2>2, <2>3 DEF Init, TypeOK
<1>3. Delivered
  BY DEF Init, Delivered, Sent
<1>4. Commands
  BY <1>1 DEF Commands
<1>5. Sound /\ Supplied
  <2>1. Accounted /\ Counted /\ Outage /\ Supplied
    BY <1>1 DEF Init, Accounted, Counted, Outage, Supplied
  <2>2. Traced
    BY <1>1 DEF Init, Traced, Orders
  <2>3. ~Exited
    BY <1>1, Order DEF Exited
  <2> QED
    BY <1>1, <2>1, <2>2, <2>3 DEF Sound
<1> QED
  BY <1>1, <1>2, <1>3, <1>4, <1>5 DEF ValidationInv, Leaving, FailsForAReason

\* The inductive invariant: whatever fails and however late spans arrive, a
\* script that is not on its way out has done what the steps behind it were to
\* do, and one that is has a reason.
THEOREM ValidationInvariant == Spec => []ValidationInv
<1>1. ValidationInv /\ [Next]_vars => ValidationInv'
  <2> SUFFICES ASSUME ValidationInv, [Next]_vars PROVE ValidationInv'
    OBVIOUS
  <2>1. CASE Step
    BY <2>1, UpStep, StopStep, StartStep, DownStep, ReadStockStep,
       CompareStockStep, CheckoutStep, PollFindsStep, PollAgainStep,
       PollGivesUpStep, ReadyStep, ExamineStep, ExactStep, IsolatedStep,
       PassStep DEF Step
  <2>2. CASE PostgresReady
    <3>1. tries' \in 0 .. Tries
      BY <2>2 DEF PostgresReady, ValidationInv, TypeOK
    <3> QED
      BY <2>2, <3>1, Waiting DEF PostgresReady
  <2>3. CASE \E o \in Orders : Export(o)
    BY <2>3, ExportStep
  <2>4. CASE UNCHANGED vars
    <3>1. tries' \in 0 .. Tries
      BY <2>4 DEF vars, ValidationInv, TypeOK
    <3> QED
      BY <2>4, <3>1, Waiting DEF vars
  <2> QED
    BY <2>1, <2>2, <2>3, <2>4 DEF Next
<1> QED
  BY <1>1, ValidationInit, PTL DEF Spec

\* A script that says that all checks passed has seen every trace whole and as
\* expected, one reservation since it read the stock, and the charges that its
\* batch is to end with.
THEOREM PassesAreEarned == Spec => []PassIsEarned
<1>1. ValidationInv => PassIsEarned
  <2> SUFFICES ASSUME ValidationInv, printed PROVE
        /\ Polled = reserved
        /\ \A o \in Polled : traces[o] = Spans /\ AsExpected(o)
        /\ stock = before - 1
        /\ charged = IF program = Batch4 THEN reserved ELSE reserved \ {"failure"}
    BY DEF PassIsEarned
  <2>1. /\ Sound /\ program \in Programs /\ at \in {Last, Last + 1}
        /\ traces \in [Orders -> Nat] /\ charged \subseteq Orders
    BY Behind, Order DEF ValidationInv, TypeOK, Sound
  <2>2. \A o \in Polled : traces[o] = Spans /\ AsExpected(o) /\ o \in reserved
    BY <2>1, Seen DEF Polled
  <2>3. Polled = {o \in Orders : Poll(o) \in Done}
    BY <2>1 DEF Polled, Sound, Traced
  <2>4. /\ charged = {o \in Orders : Post(o, "200") \in Done}
        /\ charged \subseteq reserved /\ reserved \subseteq charged \cup {"failure"}
    BY <2>1 DEF Sound, Accounted
  <2>5. "failure" \in reserved /\ "failure" \in Polled
    BY <2>1, <2>2, <2>3, AtEnd DEF Orders
  <2>6. stock = before - 1
    BY <2>1, <2>5, AtEnd DEF Sound, Counted
  <2>7. CASE program = Batch4
    BY <2>1, <2>2, <2>3, <2>4, <2>5, <2>6, <2>7, AtEnd
  <2>8. CASE program # Batch4
    <3>1. charged = {"success-1", "success-2"} /\ Polled = Orders
      BY <2>1, <2>3, <2>4, <2>8, AtEnd
    <3> QED
      BY <2>2, <2>4, <2>5, <2>6, <2>8, <3>1 DEF Orders
  <2> QED
    BY <2>7, <2>8
<1> QED
  BY <1>1, ValidationInvariant, PTL

\* No script fails of its own making: whenever an exception is on its way, a
\* command, a call, a query, the delivery of the spans or the stock is to blame.
THEOREM FailuresHaveReasons == Spec => []FailsForAReason
<1>1. ValidationInv => FailsForAReason
  BY DEF ValidationInv
<1> QED
  BY <1>1, ValidationInvariant, PTL

\* On every way out "down" was tried last and once, and "start" after "stop";
\* without an exception, no container is left.
THEOREM AlwaysCleansUp == Spec => []CleanedUp
<1>1. ValidationInv => CleanedUp
  <2> SUFFICES ASSUME ValidationInv, Exited PROVE
        /\ \A n \in DOMAIN ran : ran[n] = "stop"
            => \E m \in DOMAIN ran : m > n /\ ran[m] = "start"
        /\ \A n \in DOMAIN ran : ran[n] = "down" <=> n = Len(ran)
        /\ ran # <<>>
        /\ ~failed => printed /\ project = "down"
    BY DEF CleanedUp
  <2>1. at = Last + 1 /\ program \in Programs /\ Last > 15 /\ Last \in Nat
    BY Order DEF ValidationInv, TypeOK, Exited
  <2>2. ran \in {<<"up", "down">>, <<"up", "stop", "start", "down">>}
    BY <2>1, Order DEF ValidationInv, Commands
  <2>3. ASSUME ~failed
        PROVE  printed /\ project = "down"
    BY <2>1, <2>3, AtEnd DEF ValidationInv, Sound
  <2>4. CASE ran = <<"up", "down">>
    BY <2>3, <2>4
  <2>5. CASE ran = <<"up", "stop", "start", "down">>
    <3>1. DOMAIN ran = {1, 2, 3, 4} /\ Len(ran) = 4
      BY <2>5
    <3>2. ran[1] = "up" /\ ran[2] = "stop" /\ ran[3] = "start" /\ ran[4] = "down"
      BY <2>5
    <3> QED
      BY <2>3, <2>5, <3>1, <3>2
  <2> QED
    BY <2>2, <2>4, <2>5
<1> QED
  BY <1>1, ValidationInvariant, PTL

\* What ScriptEnds rests on besides fairness: every step of a script, failing or
\* not, takes it further or uses up one of the finitely many attempts of a loop,
\* and nothing takes it back (at and tries are bounded, see TypeOK).
Advances ==
    /\ Step => \/ at' > at
               \/ at' = at /\ tries' > tries
    /\ at' >= at
    /\ at' = at => tries' >= tries

LEMMA ControlAdvances ==
    ASSUME ValidationInv, at \in 1 .. Last, Proceed \/ Throw
    PROVE  at' \in Nat /\ at' > at
<1>1. program \in Programs /\ Last \in Nat /\ failed \in BOOLEAN
  BY Order DEF ValidationInv, TypeOK
<1>2. Rescue \in Nat /\ (at = Last \/ Rescue > at)
  BY <1>1, Order DEF Rescue, Guarded
<1>3. At("start") => at # Last
  BY <1>1, Kinds, Order DEF At
<1> QED
  BY <1>1, <1>2, <1>3 DEF Proceed, Throw

THEOREM ScriptsAdvance == Spec => [][Advances]_vars
<1>1. ValidationInv /\ [Next]_vars => [Advances]_vars
  <2> SUFFICES ASSUME ValidationInv, Next PROVE Advances
    BY DEF vars
  <2>1. at \in Nat /\ tries \in Nat /\ Last \in Nat
    BY BoundsAssumption, Order DEF ValidationInv, TypeOK
  <2>2. CASE Step
    <3>1. at \in 1 .. Last
      <4>1. \E op : At(op)
        BY <2>2
        DEF Step, Up, Stop, Start, Down, ReadStock, CompareStock, Checkout,
            PollFinds, PollAgain, PollGivesUp, Ready, Examine, Exact, Isolated,
            Pass
      <4> QED
        BY <2>1, <4>1 DEF At, ValidationInv, TypeOK
    <3>2. \/ Proceed \/ Throw
          \/ at' = at /\ tries' = tries + 1
      BY <2>2
      DEF Step, Up, Stop, Start, Down, ReadStock, CompareStock, Checkout,
          PollFinds, PollAgain, PollGivesUp, Ready, Examine, Exact, Isolated,
          Pass, Assert, Fails
    <3> QED
      BY <2>1, <3>1, <3>2, ControlAdvances DEF Advances
  <2>3. CASE ~Step
    <3>1. at' = at /\ tries' = tries
      BY <2>3 DEF Next, PostgresReady, Export
    <3> QED
      BY <2>1, <2>3, <3>1 DEF Advances
  <2> QED
    BY <2>2, <2>3
<1> QED
  BY <1>1, ValidationInvariant, PTL DEF Spec
=============================================================================
