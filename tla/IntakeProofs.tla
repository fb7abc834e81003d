---------------------------- MODULE IntakeProofs ----------------------------
(***************************************************************************)
(* Theorems of the New enquiry page and of the contacts its dialog makes.  *)
(*                                                                         *)
(* Intake, for any form, clients and number of submissions: the            *)
(* strengthening is PageInv, what the submission under way has made so     *)
(* far and what the form carries over from the client.                     *)
(*                                                                         *)
(* ClientBook, for any contacts and requests: BookInv, updated rows are    *)
(* held by one request and are primary still; a request that has inserted  *)
(* a primary contact holds every primary row there is; and one nobody      *)
(* overtook has found them all.                                            *)
(***************************************************************************)
EXTENDS Intake, ClientBook, SequenceTheorems, TLAPS

---------------------------------------------------------------------------
\* The lines of a card.

Numbered(lines) == \A n \in DOMAIN lines : lines[n].no = n

Distinct(lines) == \A m, n \in DOMAIN lines : lines[m].no = lines[n].no => m = n

\* Every nonempty set of some numbers has a greatest: MAX(line_no) exists.
HaveMaxima(numbers) ==
  \A S \in SUBSET numbers : S # {} => \E n \in S : \A m \in S : m <= n

\* One number more, or some fewer, change nothing about that.
LEMMA MaximaStay ==
  ASSUME NEW numbers \in SUBSET Int, NEW no \in Int, HaveMaxima(numbers),
         NEW others \in SUBSET (numbers \cup {no})
  PROVE  HaveMaxima(others)
<1> SUFFICES ASSUME NEW S \in SUBSET others, S # {}
             PROVE  \E n \in S : \A m \in S : m <= n
  BY DEF HaveMaxima
<1> DEFINE rest == S \ {no}
<1>1. rest \in SUBSET numbers /\ S \subseteq rest \cup {no} /\ rest \subseteq Int
  OBVIOUS
<1>2. CASE rest = {}
  <2>1. no \in S /\ \A m \in S : m = no  BY <1>1, <1>2
  <2> QED  BY <2>1
<1>3. CASE rest # {}
  <2>1. PICK n \in rest : \A m \in rest : m <= n
    <3> HIDE DEF rest
    <3> QED  BY <1>1, <1>3, Zenon DEF HaveMaxima
  <2>2. n \in S /\ n \in Int  BY <1>1
  <2>3. CASE no \in S /\ n <= no
    <3>1. \A m \in S : m <= no
      <4> SUFFICES ASSUME NEW m \in S PROVE m <= no  OBVIOUS
      <4>1. m \in rest \/ m = no  BY <1>1
      <4>2. m \in Int  BY <1>1, <4>1
      <4>3. m \in rest => m <= n  BY <2>1
      <4> QED  BY <2>2, <2>3, <4>1, <4>2, <4>3
    <3> QED  BY <2>3, <3>1
  <2>4. CASE ~(no \in S /\ n <= no)
    <3>1. \A m \in S : m <= n
      <4> SUFFICES ASSUME NEW m \in S PROVE m <= n  OBVIOUS
      <4>1. m \in rest \/ m = no  BY <1>1
      <4>2. m \in rest => m <= n  BY <2>1
      <4> QED  BY <2>2, <2>4, <4>1, <4>2
    <3> QED  BY <2>2, <3>1
  <2> QED  BY <2>3, <2>4
<1> QED  BY <1>2, <1>3

\* _next_line_no answers a number; the next one when they are in turn.
LEMMA NextInTurn ==
  ASSUME NEW lines \in Seq(JobLine), HaveMaxima(Numbers(lines))
  PROVE  /\ NextLineNo(lines) \in Int
         /\ Numbered(lines) =>
              Numbers(lines) = 1..Len(lines) /\ NextLineNo(lines) = Len(lines) + 1
<1>1. /\ Len(lines) \in Nat /\ DOMAIN lines = 1..Len(lines)
      /\ lines = <<>> <=> Len(lines) = 0
  BY LenProperties, EmptySeq
<1>i. Numbers(lines) \subseteq Int
  <2>1. \A n \in DOMAIN lines : lines[n] \in JobLine  BY <1>1, ElementOfSeq
  <2> QED  BY <2>1 DEF Numbers, JobLine
<1>2. Numbered(lines) => Numbers(lines) = 1..Len(lines)
  BY <1>1 DEF Numbers, Numbered
<1>3. CASE lines = <<>>
  <2>1. NextLineNo(lines) = 1  BY <1>3, Zenon DEF NextLineNo
  <2>2. Len(lines) = 0  BY <1>1, <1>3, Zenon
  <2> QED  BY <1>2, <2>1, <2>2
<1>4. CASE lines # <<>>
  <2> DEFINE max == CHOOSE n \in Numbers(lines) : \A m \in Numbers(lines) : m <= n
  <2>0. Numbers(lines) # {}
    <3>1. 1 \in DOMAIN lines  BY <1>1, <1>4
    <3> QED  BY <3>1 DEF Numbers
  <2>1. max \in Numbers(lines) /\ \A m \in Numbers(lines) : m <= max
    <3>1. \E n \in Numbers(lines) : \A m \in Numbers(lines) : m <= n
      BY <2>0, Zenon DEF HaveMaxima
    <3> QED  BY <3>1, Zenon
  <2>2. NextLineNo(lines) = 1 + max  BY <1>4, Zenon DEF NextLineNo
  <2> HIDE DEF max
  <2>3. max \in Int  BY <1>i, <2>1
  <2>4. ASSUME Numbered(lines)  PROVE max = Len(lines)
    BY <1>1, <1>2, <1>4, <2>1, <2>4
  <2>5. NextLineNo(lines) \in Int  BY <2>2, <2>3
  <2>6. Numbered(lines) => NextLineNo(lines) = Len(lines) + 1
    BY <1>1, <2>2, <2>4
  <2> QED  BY <1>2, <2>5, <2>6
<1> QED  BY <1>3, <1>4

\* A line appended under a free number: the colleague's, the form's next one,
\* or one moved from another card.
LEMMA AppendedInTurn ==
  ASSUME NEW lines \in Seq(JobLine), Distinct(lines), HaveMaxima(Numbers(lines)),
         NEW item \in 0..NumLines, NEW no \in Int, no \notin Numbers(lines)
  PROVE  LET longer == Append(lines, Line(item, no))
         IN /\ longer \in Seq(JobLine) /\ Len(longer) = Len(lines) + 1
            /\ Distinct(longer) /\ HaveMaxima(Numbers(longer))
            /\ Numbered(lines) /\ no = Len(lines) + 1 => Numbered(longer)
            /\ /\ InOrder(lines)
               /\ item # 0 => \A n \in DOMAIN lines : lines[n].item < item
               => InOrder(longer)
            /\ ItemsOf(longer) = ItemsOf(lines) \cup ({item} \ {0})
<1> DEFINE longer == Append(lines, Line(item, no))
<1>0. Len(lines) \in Nat /\ DOMAIN lines = 1..Len(lines)  BY LenProperties
<1>1. Line(item, no) \in JobLine  BY <1>0 DEF Line, JobLine
<1>2. /\ longer \in Seq(JobLine) /\ Len(longer) = Len(lines) + 1
      /\ DOMAIN longer = 1..(Len(lines) + 1)
      /\ \A n \in 1..Len(lines) : longer[n] = lines[n]
      /\ longer[Len(lines) + 1] = Line(item, no)
  BY <1>0, <1>1, AppendProperties, LenProperties
<1>3. \A n \in DOMAIN longer : n \in DOMAIN lines \/ n = Len(lines) + 1
  BY <1>0, <1>2
<1>t. \A n \in DOMAIN lines : lines[n].item \in 0..NumLines /\ lines[n].no \in Int
  <2>1. \A n \in DOMAIN lines : lines[n] \in JobLine  BY <1>0, ElementOfSeq
  <2> QED  BY <2>1 DEF JobLine
<1> HIDE DEF longer
<1>4. ASSUME Numbered(lines), no = Len(lines) + 1  PROVE Numbered(longer)
  BY <1>0, <1>2, <1>3, <1>4 DEF Numbered, Line
<1>5. ASSUME InOrder(lines), item # 0 => \A n \in DOMAIN lines : lines[n].item < item
      PROVE  InOrder(longer)
  <2> SUFFICES ASSUME NEW m \in DOMAIN longer, NEW n \in DOMAIN longer, m < n,
                      longer[m].item # 0, longer[n].item # 0
               PROVE  longer[m].item < longer[n].item
    BY DEF InOrder
  <2>1. m \in DOMAIN lines  BY <1>0, <1>2, <1>3
  <2>2. CASE n \in DOMAIN lines  BY <1>0, <1>2, <1>5, <2>1, <2>2 DEF InOrder
  <2>3. CASE n = Len(lines) + 1  BY <1>0, <1>2, <1>5, <2>1, <2>3 DEF Line
  <2> QED  BY <1>3, <2>2, <2>3
<1>6. ItemsOf(longer) = ItemsOf(lines) \cup ({item} \ {0})
  BY <1>0, <1>2, <1>3 DEF ItemsOf, Line
<1>7. Distinct(longer)
  BY <1>0, <1>2, <1>3 DEF Distinct, Numbers, Line
<1>8. HaveMaxima(Numbers(longer))
  <2>1. Numbers(longer) \subseteq Numbers(lines) \cup {no}
    BY <1>0, <1>2, <1>3 DEF Numbers, Line
  <2>2. Numbers(lines) \in SUBSET Int  BY <1>t DEF Numbers
  <2> QED  BY <2>1, <2>2, MaximaStay
<1> QED  BY <1>2, <1>4, <1>5, <1>6, <1>7, <1>8 DEF longer

\* A line renumbered where it stands.
LEMMA Renumbered ==
  ASSUME NEW lines \in Seq(JobLine), Distinct(lines), HaveMaxima(Numbers(lines)),
         NEW n \in DOMAIN lines, NEW no \in Int, no \notin Numbers(lines)
  PROVE  LET edited == [lines EXCEPT ![n].no = no]
         IN /\ edited \in Seq(JobLine) /\ Len(edited) = Len(lines)
            /\ Distinct(edited) /\ HaveMaxima(Numbers(edited))
            /\ InOrder(lines) => InOrder(edited)
            /\ ItemsOf(edited) = ItemsOf(lines)
<1> DEFINE edited == [lines EXCEPT ![n] = [lines[n] EXCEPT !.no = no]]
<1>1. /\ Len(lines) \in Nat /\ DOMAIN lines = 1..Len(lines)
      /\ \A m \in DOMAIN lines : lines[m] \in JobLine
  BY LenProperties, ElementOfSeq
<1>2. [lines[n] EXCEPT !.no = no] \in JobLine  BY <1>1 DEF JobLine
<1>3. /\ edited \in Seq(JobLine) /\ Len(edited) = Len(lines)
      /\ DOMAIN edited = DOMAIN lines
  BY <1>1, <1>2, ExceptSeq, LenProperties
<1>4. /\ \A m \in DOMAIN lines : edited[m].item = lines[m].item
      /\ \A m \in DOMAIN lines : edited[m].no = IF m = n THEN no ELSE lines[m].no
  BY <1>1 DEF JobLine
<1>t. \A m \in DOMAIN lines : lines[m].no \in Int  BY <1>1 DEF JobLine
<1> HIDE DEF edited
<1>5. Distinct(edited)  BY <1>3, <1>4 DEF Distinct, Numbers
<1>6. HaveMaxima(Numbers(edited))
  <2>1. Numbers(edited) \subseteq Numbers(lines) \cup {no}  BY <1>3, <1>4 DEF Numbers
  <2>2. Numbers(lines) \in SUBSET Int  BY <1>t DEF Numbers
  <2> QED  BY <2>1, <2>2, MaximaStay
<1>7. (InOrder(lines) => InOrder(edited)) /\ ItemsOf(edited) = ItemsOf(lines)
  BY <1>3, <1>4 DEF InOrder, ItemsOf
<1> QED  BY <1>3, <1>5, <1>6, <1>7 DEF edited

\* A line moved away.
LEMMA Removed ==
  ASSUME NEW lines \in Seq(JobLine), Distinct(lines), HaveMaxima(Numbers(lines)),
         NEW n \in DOMAIN lines
  PROVE  LET rest == Without(lines, n)
         IN rest \in Seq(JobLine) /\ Distinct(rest) /\ HaveMaxima(Numbers(rest))
<1> DEFINE rest == Without(lines, n)
           from(m) == IF m < n THEN m ELSE m + 1
<1>1. /\ Len(lines) \in Nat /\ DOMAIN lines = 1..Len(lines) /\ n \in 1..Len(lines)
      /\ \A m \in DOMAIN lines : lines[m] \in JobLine
  BY LenProperties, ElementOfSeq
<1>2. /\ DOMAIN rest = 1..(Len(lines) - 1)
      /\ \A m \in DOMAIN rest : from(m) \in DOMAIN lines /\ rest[m] = lines[from(m)]
  BY <1>1 DEF Without
<1>3. rest \in Seq(JobLine)
  <2>1. Len(lines) - 1 \in Nat  BY <1>1
  <2>2. rest \in [1..(Len(lines) - 1) -> JobLine]  BY <1>1 DEF Without
  <2> QED  BY <2>1, <2>2, SeqDef
<1>t. \A m \in DOMAIN lines : lines[m].no \in Int  BY <1>1 DEF JobLine
<1>4. Distinct(rest)
  <2> SUFFICES ASSUME NEW k \in DOMAIN rest, NEW m \in DOMAIN rest,
                      rest[k].no = rest[m].no
               PROVE  k = m
    BY DEF Distinct
  <2>1. from(k) = from(m)  BY <1>2 DEF Distinct
  <2> QED  BY <1>1, <1>2, <2>1
<1>5. HaveMaxima(Numbers(rest))
  <2>1. Numbers(rest) \subseteq Numbers(lines) \cup {0}
    <3> HIDE DEF rest, from
    <3> QED  BY <1>2 DEF Numbers
  <2>2. Numbers(lines) \in SUBSET Int  BY <1>t DEF Numbers
  <2> HIDE DEF rest
  <2> QED  BY <2>1, <2>2, MaximaStay
<1> QED  BY <1>3, <1>4, <1>5

---------------------------------------------------------------------------
\* The inductive invariant.

\* What is on file: the lines of every card have numbers of their own, in
\* turn where nobody chose one, and the colleague's request without a number
\* holds one that is taken or the next.
CardFileInv(i) ==
  /\ Distinct(cards[i].lines) /\ HaveMaxima(Numbers(cards[i].lines))
  /\ i \notin chosen => Numbered(cards[i].lines)
  /\ i \notin moved => InOrder(cards[i].lines)

FileInv ==
  /\ \A i \in DOMAIN cards : CardFileInv(i)
  /\ other # NoOther =>
       /\ other.card \in DOMAIN cards
       /\ other.asked = 0 /\ other.card \notin chosen =>
            other.no \in 1..(Len(cards[other.card].lines) + 1)

\* The card at a position holds the form's first lines, unless moved.
Holds(at, k) == at \notin moved => ItemsOf(cards[at].lines) = 1..k

\* What the submission has made so far.
FlightInv ==
  /\ page = "submitting" <=> flight # NoFlight
  /\ flight.kind = "made" => Holds(flight.card, 0)
  /\ flight.kind \in {"line", "numbered"} =>
       /\ card # 0 /\ posted < NumLines /\ flight.item = posted + 1
       /\ Holds(card, posted)
  /\ flight.kind = "numbered" /\ card \notin chosen =>
       flight.no \in 1..(Len(cards[card].lines) + 1)
  /\ flight.kind = "added" => card # 0 /\ posted < NumLines /\ Holds(card, posted + 1)
  /\ toast = "created" => page = "left" /\ card # 0 /\ Holds(card, NumLines)

\* The card of the submission under way is not made yet, or not reported.
CountInv ==
  Len(cards) <= failures + (IF page = "editing" \/ flight.kind = "card" THEN 0 ELSE 1)

\* What is carried over from a client: a policy it has had, a contact of it.
Carries(policy, contact, client) ==
  /\ ~form.overridden /\ policy # Unset => policy \in had[client]
  /\ ~carried /\ contact # Nobody => home[contact] = client

ClientInv ==
  /\ \A c \in Clients :
       /\ default[c] = Unset => had[c] = {}
       /\ default[c] # Unset => default[c] \in had[c]
       /\ cache[c] # Unset => cache[c] \in had[c]
  /\ IF form.client = Nobody THEN ~form.overridden => form.policy = Unset
     ELSE /\ default[form.client] # Unset
          /\ Carries(form.policy, form.contact, form.client)
  /\ flight.kind = "card" =>
       /\ default[flight.client] # Unset
       /\ Carries(flight.policy, flight.contact, flight.client)
  /\ \A i \in DOMAIN cards :
       Carries(cards[i].policy, cards[i].contact, cards[i].client)

PageInv == PageTypeOK /\ FileInv /\ FlightInv /\ CountInv /\ ClientInv

---------------------------------------------------------------------------

Forms == [client : Clients \cup {Nobody}, contact : Contacts \cup {Nobody},
          policy : Policies \cup {Unset}, overridden : BOOLEAN]

LEMMA PageBegins ==
  ASSUME IntakeAssumption, PageInit PROVE PageInv
<1>1. cards = <<>> /\ cards \in Seq(JobCard) /\ Len(cards) = 0 /\ DOMAIN cards = {}
  BY EmptySeq DEF PageInit
<1>2. PageTypeOK
  <2>1. flight \in Flights /\ other \in [card : Nat, asked : Int, no : Int]
    BY DEF PageInit, Flights, NoOther
  <2>2. default \in [Clients -> Policies \cup {Unset}] /\ had \in [Clients -> SUBSET Policies]
    BY DEF IntakeAssumption, PageInit
  <2>3. card \in 0..Len(cards) /\ posted \in 0..NumLines
        /\ extra \in 0..MaxExtra /\ edits \in 0..MaxEdits /\ failures \in Nat
    BY <1>1 DEF IntakeAssumption, PageInit
  <2>4. /\ home \in [Contacts -> Clients \cup {Nobody}]
        /\ form \in Forms /\ cache \in [Clients -> Policies \cup {Unset}]
    BY DEF IntakeAssumption, PageInit, Forms
  <2> QED  BY <1>1, <2>1, <2>2, <2>3, <2>4 DEF PageInit, PageTypeOK, Forms
<1>3. FileInv /\ FlightInv /\ CountInv
  BY <1>1 DEF PageInit, FileInv, FlightInv, CountInv, NoFlight, NoOther
<1>4. ClientInv
  BY <1>1 DEF IntakeAssumption, PageInit, ClientInv, Carries, NoFlight
<1> QED  BY <1>2, <1>3, <1>4 DEF PageInv

\* Every kind of request has the fields its steps read.
LEMMA FlightFields ==
  ASSUME PageTypeOK
  PROVE  /\ flight.kind = "none" <=> flight = NoFlight
         /\ flight.kind \in {"none", "card", "made", "line", "numbered", "added", "failed"}
         /\ flight.kind = "card" =>
              /\ flight.client \in Clients /\ flight.contact \in Contacts \cup {Nobody}
              /\ flight.policy \in Policies \cup {Unset}
         /\ flight.kind = "made" => flight.card \in DOMAIN cards
         /\ flight.kind \in {"line", "numbered"} => flight.item \in 1..NumLines
         /\ flight.kind = "numbered" => flight.no \in Int
<1> DEFINE CardPost == [kind : {"card"}, client : Clients, contact : Contacts \cup {Nobody},
                        policy : Policies \cup {Unset}]
           Made == [kind : {"made"}, card : DOMAIN cards]
           LinePost == [kind : {"line"}, item : 1..NumLines]
           Numbering == [kind : {"numbered"}, item : 1..NumLines, no : Int]
<1>1. \/ flight \in {NoFlight, [kind |-> "added"], [kind |-> "failed"]}
      \/ flight \in CardPost \/ flight \in Made
      \/ flight \in LinePost \/ flight \in Numbering
  BY DEF PageTypeOK, Flights
<1>2. CASE flight \in {NoFlight, [kind |-> "added"], [kind |-> "failed"]}
  BY <1>2 DEF NoFlight
<1>3. CASE flight \in CardPost  BY <1>3 DEF NoFlight
<1>4. CASE flight \in Made  BY <1>4 DEF NoFlight
<1>5. CASE flight \in LinePost  BY <1>5 DEF NoFlight
<1>6. CASE flight \in Numbering  BY <1>6 DEF NoFlight
<1> QED  BY <1>1, <1>2, <1>3, <1>4, <1>5, <1>6

LEMMA CardFields ==
  ASSUME PageTypeOK
  PROVE  /\ Len(cards) \in Nat /\ DOMAIN cards = 1..Len(cards)
         /\ card # 0 => card \in DOMAIN cards
         /\ \A i \in DOMAIN cards :
              /\ cards[i].client \in Clients /\ cards[i].contact \in Contacts \cup {Nobody}
              /\ cards[i].policy \in Policies /\ cards[i].lines \in Seq(JobLine)
              /\ Len(cards[i].lines) \in Nat
<1>1. /\ Len(cards) \in Nat /\ DOMAIN cards = 1..Len(cards)
      /\ \A i \in DOMAIN cards : cards[i] \in JobCard
  <2>1. cards \in Seq(JobCard)  BY DEF PageTypeOK
  <2> QED  BY ONLY <2>1, LenProperties, ElementOfSeq
<1>2. \A i \in DOMAIN cards : cards[i].lines \in Seq(JobLine)
  BY <1>1 DEF JobCard
<1>3. \A i \in DOMAIN cards : Len(cards[i].lines) \in Nat
  BY <1>2, LenProperties
<1>4. card # 0 => card \in DOMAIN cards
  <2>1. card \in 0..Len(cards)  BY DEF PageTypeOK
  <2> QED  BY ONLY <1>1, <2>1
<1>5. \A i \in DOMAIN cards :
         /\ cards[i].client \in Clients /\ cards[i].contact \in Contacts \cup {Nobody}
         /\ cards[i].policy \in Policies
  BY <1>1 DEF JobCard
<1> QED  BY <1>1, <1>2, <1>3, <1>4, <1>5

LEMMA Counters ==
  ASSUME IntakeAssumption, PageTypeOK
  PROVE  /\ NumLines \in Nat /\ NumLines # 0
         /\ posted \in Nat /\ posted <= NumLines
         /\ card \in Nat /\ card <= Len(cards) /\ failures \in Nat
<1>1. NumLines \in Nat \ {0}  BY DEF IntakeAssumption
<1>2. posted \in 0..NumLines /\ card \in 0..Len(cards) /\ failures \in Nat
  BY DEF PageTypeOK
<1>3. Len(cards) \in Nat  BY CardFields
<1> QED  BY <1>1, <1>2, <1>3

\* While the form is filled in, only the clients and the form change.
LEMMA FillingIn ==
  ASSUME PageTypeOK, FileInv, FlightInv, CountInv,
         UNCHANGED <<cards, chosen, moved, page, posted, card, flight, toast, failures, other>>
  PROVE  FileInv' /\ FlightInv' /\ CountInv'
BY DEF FileInv, CardFileInv, FlightInv, CountInv, Holds

\* What a step that leaves the form f and the cache cached must respect.
Respects(f, cached) ==
  /\ f \in Forms /\ cached \in [Clients -> Policies \cup {Unset}]
  /\ default' \in [Clients -> Policies \cup {Unset}]
  /\ home' \in [Contacts -> Clients \cup {Nobody}]
  /\ had' \in [Clients -> SUBSET Policies] /\ carried' \in BOOLEAN
  /\ form.overridden => f.overridden
  /\ carried => carried'
  /\ \A c \in Clients :
       /\ default[c] # Unset => default'[c] # Unset
       /\ default'[c] = Unset => had'[c] = {}
       /\ default'[c] # Unset => default'[c] \in had'[c]
       /\ cached[c] # Unset => cached[c] \in had'[c]
       /\ had[c] \subseteq had'[c]
  /\ \A k \in Contacts : home[k] # Nobody => home'[k] = home[k]
  /\ f.client # Nobody => default'[f.client] # Unset
  /\ ~carried' /\ f.client # Nobody /\ f.contact # Nobody =>
       home'[f.contact] = f.client

LEMMA FillKeeps ==
  ASSUME IntakeAssumption, PageInv, Fill PROVE PageInv'
<1> USE DEF IntakeAssumption
<1>f. /\ page = "editing" /\ flight.kind # "card"
      /\ UNCHANGED <<cards, page, posted, card, flight, toast, failures, other, extra, edits, chosen, moved>>
  <2>1. /\ page = "editing"
        /\ UNCHANGED <<cards, page, posted, card, flight, toast, failures, other, extra, edits, chosen, moved>>
    BY DEF Fill, TypeClient, SelectClient, FetchClient, SelectContact, ChoosePolicy,
      CreateClient, CreateContact, server
  <2> QED  BY <2>1 DEF PageInv, FlightInv, NoFlight
<1>1. FileInv' /\ FlightInv' /\ CountInv'  BY <1>f, FillingIn DEF PageInv
<1>2. ASSUME NEW f \in Forms,
             NEW cached \in [Clients -> Policies \cup {Unset}],
             SetForm(f, cached)
      PROVE  /\ form' \in Forms
             /\ cache' = cached /\ form'.client = f.client /\ form'.contact = f.contact
             /\ form'.overridden = f.overridden
             /\ f.overridden => form'.policy = f.policy
             /\ ~f.overridden => form'.policy = IF f.client = Nobody THEN Unset
                                                ELSE cached[f.client]
  BY <1>2 DEF SetForm, Seeded, Forms
<1>3. ASSUME NEW f, NEW cached,
             SetForm(f, cached), Respects(f, cached)
      PROVE  PageInv'
  <2>0. f \in Forms /\ cached \in [Clients -> Policies \cup {Unset}]
    BY <1>3 DEF Respects
  <2>1. PageTypeOK'
    <3>1. form' \in Forms /\ cache' = cached  BY <1>2, <1>3, <2>0
    <3>2. flight' \in Flights'  BY <1>f DEF PageInv, PageTypeOK, Flights
    <3> QED  BY <1>f, <1>3, <3>1, <3>2 DEF PageInv, PageTypeOK, Forms, Respects
  <2>2. ASSUME NEW i \in DOMAIN cards'
        PROVE  Carries(cards[i].policy, cards[i].contact, cards[i].client)'
    BY <1>f, <1>2, <1>3, <2>0, <2>2, CardFields DEF PageInv, ClientInv, Carries, Respects
  <2>3. IF f.client = Nobody THEN ~form'.overridden => form'.policy = Unset
        ELSE /\ default'[form'.client] # Unset
             /\ Carries(form.policy, form.contact, form.client)'
    BY <1>2, <1>3, <2>0 DEF Carries, Respects, Forms
  <2>4. ClientInv'
    BY <1>f, <1>2, <1>3, <2>0, <2>2, <2>3 DEF ClientInv, Respects
  <2> QED  BY <1>1, <2>1, <2>4 DEF PageInv
<1>4. CASE TypeClient
  <2>1. SetForm([form EXCEPT !.client = Nobody], cache)  BY <1>4 DEF TypeClient
  <2>2. UNCHANGED <<default, home, had, carried>>  BY <1>4 DEF TypeClient, server
  <2>3. Respects([form EXCEPT !.client = Nobody], cache)
    BY <2>2 DEF Respects, Forms, PageInv, PageTypeOK, ClientInv, Carries
  <2> QED  BY <2>1, <2>3, <1>3
<1>5. CASE FetchClient
  <2>1. SetForm(form, [cache EXCEPT ![form.client] = default[form.client]])
    BY <1>5 DEF FetchClient
  <2>2. /\ UNCHANGED <<default, home, had, carried>> /\ form.client # Nobody
    BY <1>5 DEF FetchClient, server
  <2>3. Respects(form, [cache EXCEPT ![form.client] = default[form.client]])
    BY <2>2 DEF Respects, Forms, PageInv, PageTypeOK, ClientInv, Carries
  <2> QED  BY <2>1, <2>3, <1>3
<1>6. ASSUME NEW c \in Clients, SelectClient(c)  PROVE PageInv'
  <2>1. SetForm([form EXCEPT !.client = c, !.contact = Nobody], cache)
    BY <1>6 DEF SelectClient
  <2>2. UNCHANGED <<default, home, had, carried>> /\ default[c] # Unset
    BY <1>6 DEF SelectClient, server
  <2>3. Respects([form EXCEPT !.client = c, !.contact = Nobody], cache)
    BY <2>2 DEF Respects, Forms, PageInv, PageTypeOK, ClientInv, Carries
  <2> QED  BY <2>1, <2>3, <1>3
<1>7. ASSUME NEW c \in Clients, CreateClient(c)  PROVE PageInv'
  <2>1. SetForm([form EXCEPT !.client = c], [cache EXCEPT ![c] = BaseDefault])
    BY <1>7 DEF CreateClient
  <2>2. /\ default[c] = Unset /\ default' = [default EXCEPT ![c] = BaseDefault]
        /\ had' = [had EXCEPT ![c] = {BaseDefault}] /\ home' = home
        /\ carried' = (carried \/ form.contact # Nobody)
    BY <1>7 DEF CreateClient
  <2>3. Respects([form EXCEPT !.client = c], [cache EXCEPT ![c] = BaseDefault])
    BY <2>2 DEF Respects, Forms, PageInv, PageTypeOK, ClientInv, Carries
  <2> QED  BY <2>1, <2>3, <1>3
<1>8. ASSUME NEW k \in Contacts, SelectContact(k)  PROVE PageInv'
  <2>1. SetForm([form EXCEPT !.contact = k], cache)  BY <1>8 DEF SelectContact
  <2>2. UNCHANGED <<default, home, had, carried>> /\ home[k] = form.client
    BY <1>8 DEF SelectContact, server
  <2>3. Respects([form EXCEPT !.contact = k], cache)
    BY <2>2 DEF Respects, Forms, PageInv, PageTypeOK, ClientInv, Carries
  <2> QED  BY <2>1, <2>3, <1>3
<1>9. ASSUME NEW k \in Contacts, CreateContact(k)  PROVE PageInv'
  <2>1. SetForm([form EXCEPT !.contact = k], cache)  BY <1>9 DEF CreateContact
  <2>2. /\ UNCHANGED <<default, had, carried>> /\ form.client # Nobody
        /\ home[k] = Nobody /\ home' = [home EXCEPT ![k] = form.client]
    BY <1>9 DEF CreateContact
  <2>3. Respects([form EXCEPT !.contact = k], cache)
    BY <2>2 DEF Respects, Forms, PageInv, PageTypeOK, ClientInv, Carries
  <2> QED  BY <2>1, <2>3, <1>3
<1>10. ASSUME NEW p \in Policies, ChoosePolicy(p)  PROVE PageInv'
  <2>1. SetForm([form EXCEPT !.policy = p, !.overridden = TRUE], cache)
    BY <1>10 DEF ChoosePolicy
  <2>2. UNCHANGED <<default, home, had, carried>>  BY <1>10 DEF ChoosePolicy, server
  <2>3. Respects([form EXCEPT !.policy = p, !.overridden = TRUE], cache)
    BY <2>2 DEF Respects, Forms, PageInv, PageTypeOK, ClientInv, Carries
  <2> QED  BY <2>1, <2>3, <1>3
<1> QED  BY <1>4, <1>5, <1>6, <1>7, <1>8, <1>9, <1>10 DEF Fill

---------------------------------------------------------------------------
\* The steps of a submission, of the server and of the others.

\* A card's lines change: nothing else of the cards does.
LEMMA LinesChange ==
  ASSUME NEW file \in Seq(JobCard), NEW at \in DOMAIN file, NEW lines \in Seq(JobLine)
  PROVE  LET after == [file EXCEPT ![at].lines = lines]
         IN /\ after \in Seq(JobCard) /\ Len(after) = Len(file)
            /\ DOMAIN after = DOMAIN file
            /\ after[at].lines = lines
            /\ \A i \in DOMAIN file :
                 /\ i # at => after[i] = file[i]
                 /\ after[i].client = file[i].client
                 /\ after[i].contact = file[i].contact
                 /\ after[i].policy = file[i].policy
<1> DEFINE after == [file EXCEPT ![at] = [file[at] EXCEPT !.lines = lines]]
<1>1. /\ DOMAIN file = 1..Len(file) /\ \A i \in DOMAIN file : file[i] \in JobCard
  BY LenProperties, ElementOfSeq
<1>2. [file[at] EXCEPT !.lines = lines] \in JobCard  BY <1>1 DEF JobCard
<1>3. /\ after \in Seq(JobCard) /\ Len(after) = Len(file)
      /\ DOMAIN after = DOMAIN file
  BY <1>1, <1>2, ExceptSeq, LenProperties
<1>4. /\ after[at].lines = lines
      /\ \A i \in DOMAIN file :
           /\ i # at => after[i] = file[i]
           /\ after[i].client = file[i].client
           /\ after[i].contact = file[i].contact
           /\ after[i].policy = file[i].policy
  BY <1>1 DEF JobCard
<1> QED  BY <1>3, <1>4

\* A line added under a free number disturbs nothing but its card.
LEMMA LineAdded ==
  ASSUME PageInv, NEW at \in DOMAIN cards, NEW item \in 0..NumLines,
         NEW no \in Int, Vacant(at, no),
         chosen' = chosen \/ chosen' = chosen \cup {at}, moved' = moved,
         at \notin chosen' => no \in 1..(Len(cards[at].lines) + 1),
         item # 0 /\ at \notin moved =>
           \A n \in DOMAIN cards[at].lines : cards[at].lines[n].item < item,
         cards' = [cards EXCEPT ![at].lines = Append(@, Line(item, no))]
  PROVE  /\ cards' \in Seq(JobCard)
         /\ Len(cards') = Len(cards) /\ DOMAIN cards' = DOMAIN cards
         /\ \A i \in DOMAIN cards :
              /\ CardFileInv(i)'
              /\ Len(cards'[i].lines) \in {Len(cards[i].lines), Len(cards[i].lines) + 1}
              /\ cards'[i].client = cards[i].client
              /\ cards'[i].contact = cards[i].contact
              /\ cards'[i].policy = cards[i].policy
              /\ i # at => cards'[i] = cards[i]
         /\ ItemsOf(cards'[at].lines) = ItemsOf(cards[at].lines) \cup ({item} \ {0})
<1> DEFINE lines == cards[at].lines
           longer == Append(lines, Line(item, no))
<1>1. /\ cards \in Seq(JobCard) /\ lines \in Seq(JobLine) /\ Len(lines) \in Nat
      /\ \A i \in DOMAIN cards : CardFileInv(i)
      /\ no \notin Numbers(lines)
  BY CardFields DEF PageInv, FileInv, PageTypeOK, Vacant
<1>2. /\ Distinct(lines) /\ HaveMaxima(Numbers(lines))
      /\ at \notin chosen => Numbered(lines)
      /\ at \notin moved => InOrder(lines)
  BY <1>1 DEF CardFileInv
<1>3. at \notin chosen' => no = Len(lines) + 1 /\ Numbered(lines)
  <2> HIDE DEF lines
  <2> SUFFICES ASSUME at \notin chosen' PROVE no = Len(lines) + 1 /\ Numbered(lines)
    OBVIOUS
  <2>1. Numbered(lines)  BY <1>2
  <2>2. Numbers(lines) = 1..Len(lines)  BY <1>1, <1>2, <2>1, NextInTurn
  <2>3. no \in 1..(Len(lines) + 1)  BY DEF lines
  <2> QED  BY <1>1, <2>1, <2>2, <2>3
<1>4. /\ longer \in Seq(JobLine) /\ Len(longer) = Len(lines) + 1
      /\ Distinct(longer) /\ HaveMaxima(Numbers(longer))
      /\ at \notin chosen' => Numbered(longer)
      /\ at \notin moved' => InOrder(longer)
      /\ ItemsOf(longer) = ItemsOf(lines) \cup ({item} \ {0})
  <2>1. at \notin moved /\ item # 0 => \A n \in DOMAIN lines : lines[n].item < item
    OBVIOUS
  <2>2. longer = Append(lines, Line(item, no))  OBVIOUS
  <2> HIDE DEF lines, longer
  <2> QED  BY <1>1, <1>2, <1>3, <2>1, <2>2, AppendedInTurn
<1>5. /\ cards' \in Seq(JobCard) /\ Len(cards') = Len(cards)
      /\ DOMAIN cards' = DOMAIN cards /\ cards'[at].lines = longer
      /\ \A i \in DOMAIN cards :
           /\ i # at => cards'[i] = cards[i]
           /\ cards'[i].client = cards[i].client
           /\ cards'[i].contact = cards[i].contact
           /\ cards'[i].policy = cards[i].policy
  <2>1. cards' = [cards EXCEPT ![at].lines = longer]  OBVIOUS
  <2>2. longer \in Seq(JobLine) /\ cards \in Seq(JobCard) /\ at \in DOMAIN cards
    BY <1>1, <1>4
  <2> HIDE DEF longer, lines
  <2> QED  BY ONLY <2>1, <2>2, LinesChange
<1>6. ASSUME NEW i \in DOMAIN cards  PROVE CardFileInv(i)'
  <2> HIDE DEF longer
  <2>1. CASE i = at  BY <1>4, <1>5, <2>1 DEF CardFileInv
  <2>2. CASE i # at
    <3>1. i \notin chosen' => i \notin chosen  OBVIOUS
    <3> QED  BY <1>1, <1>5, <2>2, <3>1 DEF CardFileInv
  <2> QED  BY <2>1, <2>2
<1> QED
  <2> HIDE DEF longer
  <2> QED  BY <1>1, <1>4, <1>5, <1>6

\* The clients and the form stand still: what is carried over stays so.
LEMMA StillCarries ==
  ASSUME NEW policy, NEW contact, NEW client, Carries(policy, contact, client),
         UNCHANGED <<home, had, form, carried>>
  PROVE  Carries(policy, contact, client)'
BY DEF Carries

LEMMA ClientsStand ==
  ASSUME PageTypeOK, ClientInv, UNCHANGED <<default, home, had, form, cache, carried>>,
         flight'.kind = "card" =>
           /\ default[flight'.client] # Unset
           /\ Carries(flight'.policy, flight'.contact, flight'.client),
         \A i \in DOMAIN cards' :
           Carries(cards'[i].policy, cards'[i].contact, cards'[i].client)
  PROVE  ClientInv'
BY DEF ClientInv, Carries

LEMMA SubmitKeeps ==
  ASSUME IntakeAssumption, PageInv, Submit PROVE PageInv'
<1>1. /\ flight' = [kind |-> "card", client |-> form.client, contact |-> form.contact,
                    policy |-> form.policy]
      /\ page = "editing" /\ page' = "submitting" /\ posted' = 0 /\ card' = 0
      /\ form.client # Nobody
      /\ UNCHANGED <<cards, toast, failures, other, default, home, had, form, cache,
                     carried, extra, edits, chosen, moved>>
  BY DEF Submit, Idle, server
<1>2. PageTypeOK'
  <2>1. flight' \in Flights'  BY <1>1 DEF PageInv, PageTypeOK, Flights
  <2>2. card' \in 0..Len(cards') /\ posted' \in 0..NumLines
    BY <1>1, CardFields DEF PageInv, IntakeAssumption
  <2> QED  BY <1>1, <2>1, <2>2 DEF PageInv, PageTypeOK
<1>3. FileInv'  BY <1>1 DEF PageInv, FileInv, CardFileInv
<1>4. FlightInv'  BY <1>1 DEF PageInv, FlightInv, NoFlight, Holds
<1>5. CountInv'  BY <1>1 DEF PageInv, CountInv
<1>6. ClientInv'
  <2>1. default[form.client] # Unset /\ Carries(form.policy, form.contact, form.client)
    BY <1>1 DEF PageInv, ClientInv
  <2>2. \A i \in DOMAIN cards' :
          Carries(cards'[i].policy, cards'[i].contact, cards'[i].client)
    BY <1>1 DEF PageInv, ClientInv
  <2> QED  BY <1>1, <2>1, <2>2, ClientsStand DEF PageInv
<1> QED  BY <1>2, <1>3, <1>4, <1>5, <1>6 DEF PageInv

LEMMA MakeCardKeeps ==
  ASSUME IntakeAssumption, PageInv, MakeCard PROVE PageInv'
<1> DEFINE new == [client |-> flight.client, contact |-> flight.contact,
                   policy |-> PolicyFor(flight), lines |-> <<>>]
<1>1. /\ flight.kind = "card" /\ cards' = Append(cards, new)
      /\ flight' = [kind |-> "made", card |-> Len(cards) + 1]
      /\ UNCHANGED <<default, home, extra, edits, chosen, moved, had, form, cache, page, posted, card,
                     toast, failures, carried, other>>
  BY DEF MakeCard
<1>2. /\ flight.client \in Clients /\ flight.contact \in Contacts \cup {Nobody}
      /\ flight.policy \in Policies \cup {Unset}
      /\ Len(cards) \in Nat /\ cards \in Seq(JobCard) /\ DOMAIN cards = 1..Len(cards)
  BY <1>1, FlightFields, CardFields DEF PageInv, PageTypeOK
<1>3. PolicyFor(flight) \in Policies
  BY <1>1, <1>2 DEF PageInv, PageTypeOK, ClientInv, PolicyFor
<1>4. new \in JobCard  BY <1>2, <1>3, EmptySeq DEF JobCard
<1>5. /\ cards' \in Seq(JobCard) /\ Len(cards') = Len(cards) + 1
      /\ DOMAIN cards' = 1..(Len(cards) + 1)
      /\ \A i \in DOMAIN cards : cards'[i] = cards[i]
      /\ cards'[Len(cards) + 1] = new
  <2> HIDE DEF new
  <2> QED  BY <1>1, <1>2, <1>4, AppendProperties, LenProperties
<1>6. \A i \in DOMAIN cards' : i \in DOMAIN cards \/ i = Len(cards) + 1
  BY <1>2, <1>5
<1>n. new.lines = <<>> /\ DOMAIN new.lines = {}  BY EmptySeq
<1>m. /\ Distinct(<<>>) /\ HaveMaxima(Numbers(<<>>)) /\ Numbered(<<>>) /\ InOrder(<<>>)
  <2>1. DOMAIN <<>> = {} /\ Numbers(<<>>) = {}  BY EmptySeq DEF Numbers
  <2> QED  BY <2>1 DEF Distinct, HaveMaxima, Numbered, InOrder
<1>7. PageTypeOK'
  <2>1. flight' \in Flights'  BY <1>1, <1>2, <1>5 DEF Flights
  <2>2. card' \in 0..Len(cards')  BY <1>1, <1>2, <1>5, Counters DEF PageInv
  <2>3. chosen' \subseteq DOMAIN cards' /\ moved' \subseteq chosen'
    <3>1. chosen \subseteq DOMAIN cards /\ moved \subseteq chosen
      BY DEF PageInv, PageTypeOK
    <3>2. DOMAIN cards \subseteq DOMAIN cards'  BY <1>2, <1>5
    <3> QED  BY <1>1, <3>1, <3>2
  <2> HIDE DEF new
  <2> QED  BY <1>1, <1>5, <2>1, <2>2, <2>3 DEF PageInv, PageTypeOK
<1>8. FileInv'
  <2>1. ASSUME NEW i \in DOMAIN cards'  PROVE CardFileInv(i)'
    <3> HIDE DEF new
    <3>1. CASE i \in DOMAIN cards
      BY <1>1, <1>5, <3>1 DEF PageInv, FileInv, CardFileInv
    <3>2. CASE i = Len(cards) + 1  BY <1>5, <1>n, <1>m, <3>2 DEF CardFileInv
    <3> QED  BY <1>6, <3>1, <3>2
  <2>2. other # NoOther =>
          /\ other.card \in DOMAIN cards'
          /\ other.asked = 0 /\ other.card \notin chosen =>
               other.no \in 1..(Len(cards'[other.card].lines) + 1)
    BY <1>2, <1>5 DEF PageInv, FileInv
  <2> QED  BY <1>1, <2>1, <2>2 DEF FileInv
<1>9. FlightInv'
  <2>1. ItemsOf(cards'[Len(cards) + 1].lines) = {}
    <3> HIDE DEF new
    <3> QED  BY <1>5, <1>n DEF ItemsOf
  <2>3. 1..0 = {}  OBVIOUS
  <2>2. page = "submitting" /\ toast # "created"
    BY <1>1 DEF PageInv, FlightInv, NoFlight
  <2> QED  BY <1>1, <2>1, <2>2, <2>3 DEF FlightInv, NoFlight, Holds
<1>10. CountInv'
  <2>1. page = "submitting"  BY <1>1 DEF PageInv, FlightInv, NoFlight
  <2> QED  BY <1>1, <1>2, <1>5, <2>1, Counters DEF PageInv, CountInv
<1>11. ClientInv'
  <2>1. Carries(new.policy, new.contact, new.client)
    BY <1>1, <1>2 DEF PageInv, PageTypeOK, ClientInv, Carries, PolicyFor
  <2>2. \A i \in DOMAIN cards' :
          Carries(cards'[i].policy, cards'[i].contact, cards'[i].client)
    <3> HIDE DEF new
    <3> QED  BY <1>5, <1>6, <2>1 DEF PageInv, ClientInv
  <2> QED  BY <1>1, <2>2, ClientsStand DEF PageInv
<1> QED  BY <1>7, <1>8, <1>9, <1>10, <1>11 DEF PageInv

LEMMA ReadLineNoKeeps ==
  ASSUME IntakeAssumption, PageInv, ReadLineNo PROVE PageInv'
<1>1. /\ flight.kind = "line"
      /\ flight' = [kind |-> "numbered", item |-> flight.item,
                    no |-> LineNoFor(0, cards[card].lines)]
      /\ UNCHANGED <<cards, page, posted, card, toast, failures, other, default, home,
                     had, form, cache, carried, extra, edits, chosen, moved>>
  BY DEF ReadLineNo, server
<1>2. card \in DOMAIN cards /\ flight.item \in 1..NumLines
  BY <1>1, FlightFields, CardFields DEF PageInv, FlightInv
<1>3. /\ LineNoFor(0, cards[card].lines) \in Int
      /\ card \notin chosen =>
           LineNoFor(0, cards[card].lines) = Len(cards[card].lines) + 1
  BY <1>2, CardFields, NextInTurn DEF PageInv, FileInv, CardFileInv, LineNoFor
<1>4. Len(cards[card].lines) \in Nat  BY <1>2, CardFields DEF PageInv
<1>5. PageTypeOK'
  <2>1. flight' \in Flights'  BY <1>1, <1>2, <1>3, <1>4 DEF Flights
  <2> QED  BY <1>1, <2>1 DEF PageInv, PageTypeOK
<1>6. FileInv'  BY <1>1 DEF PageInv, FileInv, CardFileInv
<1>7. FlightInv'
  BY <1>1, <1>3, <1>4 DEF PageInv, FlightInv, NoFlight, Holds
<1>8. CountInv'  BY <1>1 DEF PageInv, CountInv
<1>9. ClientInv'  BY <1>1, ClientsStand DEF PageInv, ClientInv
<1> QED  BY <1>5, <1>6, <1>7, <1>8, <1>9 DEF PageInv

LEMMA InsertLineKeeps ==
  ASSUME IntakeAssumption, PageInv, InsertLine PROVE PageInv'
<1>1. /\ flight.kind = "numbered"
      /\ UNCHANGED <<default, home, extra, edits, chosen, moved, had, form, cache, page,
                     posted, card, toast, failures, carried, other>>
  BY DEF InsertLine
<1>2. /\ card \in DOMAIN cards /\ flight.item = posted + 1 /\ posted < NumLines
      /\ Holds(card, posted) /\ page = "submitting" /\ toast # "created"
      /\ flight.no \in Int /\ card # 0
      /\ card \notin chosen => flight.no \in 1..(Len(cards[card].lines) + 1)
  BY <1>1, CardFields, FlightFields DEF PageInv, FlightInv, NoFlight
<1>p. posted \in Nat /\ NumLines \in Nat  BY Counters DEF PageInv
<1>3. CASE ~Storable(card, flight.no)
  <2>1. flight' = [kind |-> "failed"] /\ cards' = cards  BY <1>3 DEF InsertLine
  <2>2. PageTypeOK'
    <3>1. flight' \in Flights'  BY <2>1 DEF Flights
    <3> QED  BY <1>1, <2>1, <3>1 DEF PageInv, PageTypeOK
  <2>3. FileInv' /\ FlightInv' /\ CountInv'
    BY <1>1, <1>2, <2>1
    DEF PageInv, FileInv, CardFileInv, FlightInv, CountInv, NoFlight
  <2>4. ClientInv'  BY <1>1, <2>1, ClientsStand DEF PageInv, ClientInv
  <2> QED  BY <2>2, <2>3, <2>4 DEF PageInv
<1>4. CASE Storable(card, flight.no)
  <2>1. /\ flight' = [kind |-> "added"]
        /\ cards' = [cards EXCEPT ![card].lines = Append(@, Line(flight.item, flight.no))]
    BY <1>4 DEF InsertLine
  <2>2. ASSUME card \notin moved
        PROVE  \A n \in DOMAIN cards[card].lines : cards[card].lines[n].item < flight.item
    <3> SUFFICES ASSUME NEW n \in DOMAIN cards[card].lines
                 PROVE  cards[card].lines[n].item < flight.item
      OBVIOUS
    <3>1. ItemsOf(cards[card].lines) = 1..posted  BY <1>2, <2>2 DEF Holds
    <3>2. cards[card].lines[n].item = 0 \/ cards[card].lines[n].item \in 1..posted
      BY <3>1 DEF ItemsOf
    <3> QED  BY <1>2, <1>p, <3>2
  <2> DEFINE item == flight.item
             no == flight.no
  <2>4. /\ cards' \in Seq(JobCard)
        /\ Len(cards') = Len(cards) /\ DOMAIN cards' = DOMAIN cards
        /\ \A i \in DOMAIN cards :
              /\ CardFileInv(i)'
              /\ Len(cards'[i].lines) \in {Len(cards[i].lines), Len(cards[i].lines) + 1}
              /\ cards'[i].client = cards[i].client
              /\ cards'[i].contact = cards[i].contact
              /\ cards'[i].policy = cards[i].policy
              /\ i # card => cards'[i] = cards[i]
        /\ ItemsOf(cards'[card].lines) = ItemsOf(cards[card].lines) \cup ({item} \ {0})
    <3>1. /\ item \in 0..NumLines /\ no \in Int /\ Vacant(card, no)
          /\ card \notin chosen' => no \in 1..(Len(cards[card].lines) + 1)
          /\ item # 0 /\ card \notin moved =>
               \A n \in DOMAIN cards[card].lines : cards[card].lines[n].item < item
          /\ cards' = [cards EXCEPT ![card].lines = Append(@, Line(item, no))]
      BY <1>1, <1>2, <1>4, <1>p, <2>1, <2>2 DEF Storable
    <3> HIDE DEF item, no
    <3> QED  BY <1>1, <1>2, <3>1, LineAdded
  <2>l. \A i \in DOMAIN cards : Len(cards[i].lines) \in Nat  BY CardFields DEF PageInv
  <2>5. PageTypeOK'
    <3>1. flight' \in Flights'  BY <2>1 DEF Flights
    <3> QED  BY <1>1, <2>4, <3>1 DEF PageInv, PageTypeOK
  <2>6. FileInv'
    <3>1. other # NoOther => other.card \in DOMAIN cards  BY DEF PageInv, FileInv
    <3>2. ASSUME other # NoOther, other.asked = 0, other.card \notin chosen
          PROVE  other.no \in 1..(Len(cards'[other.card].lines) + 1)
      <4>1. /\ other.card \in DOMAIN cards
            /\ other.no \in 1..(Len(cards[other.card].lines) + 1)
        BY <3>2 DEF PageInv, FileInv
      <4>2. Len(cards[other.card].lines) \in Nat  BY <2>l, <4>1
      <4>3. \/ Len(cards'[other.card].lines) = Len(cards[other.card].lines)
            \/ Len(cards'[other.card].lines) = Len(cards[other.card].lines) + 1
        BY <2>4, <4>1
      <4> QED  BY ONLY <4>1, <4>2, <4>3
    <3> QED  BY <1>1, <2>4, <3>1, <3>2 DEF FileInv
  <2>7. FlightInv'
    <3>1. Holds(card, posted + 1)'
      BY <1>1, <1>2, <1>p, <2>4 DEF Holds
    <3> QED  BY <1>1, <1>2, <1>p, <2>1, <3>1 DEF PageInv, FlightInv, NoFlight
  <2>8. CountInv'
    BY <1>1, <1>2, <2>1, <2>4 DEF PageInv, CountInv
  <2>9. ClientInv'
    <3>1. \A i \in DOMAIN cards' :
            Carries(cards'[i].policy, cards'[i].contact, cards'[i].client)
      BY <2>4 DEF PageInv, ClientInv
    <3> QED  BY <1>1, <2>1, <3>1, ClientsStand DEF PageInv
  <2> QED  BY <2>5, <2>6, <2>7, <2>8, <2>9 DEF PageInv
<1> QED  BY <1>3, <1>4

LEMMA RequestFailsKeeps ==
  ASSUME IntakeAssumption, PageInv, RequestFails PROVE PageInv'
<1>1. /\ flight.kind # "none" /\ flight' = [kind |-> "failed"]
      /\ UNCHANGED <<cards, page, posted, card, toast, failures, other, default, home,
                     had, form, cache, carried, extra, edits, chosen, moved>>
  BY DEF RequestFails, server
<1>2. page = "submitting" /\ toast # "created"
  BY <1>1 DEF PageInv, FlightInv, NoFlight
<1>3. PageTypeOK'
  <2>1. flight' \in Flights'  BY <1>1 DEF Flights
  <2> QED  BY <1>1, <2>1 DEF PageInv, PageTypeOK
<1>4. FileInv' /\ FlightInv'
  BY <1>1, <1>2 DEF PageInv, FileInv, CardFileInv, FlightInv, NoFlight
<1>5. CountInv'
  BY <1>1, <1>2, Counters, CardFields DEF PageInv, CountInv
<1>6. ClientInv'  BY <1>1, ClientsStand DEF PageInv, ClientInv
<1> QED  BY <1>3, <1>4, <1>5, <1>6 DEF PageInv

\* An answer heard: the next line is posted, or the form is done.
LEMMA ContinueKeeps ==
  ASSUME IntakeAssumption, PageInv, NEW done \in 0..NumLines, Continue(done),
         page = "submitting", toast # "created", flight.kind # "card",
         card' \in DOMAIN cards, Holds(card', done)
  PROVE  PageInv'
<1>1. /\ posted' = done /\ flight' = NextPost(done)
      /\ flight' # NoFlight => UNCHANGED <<page, toast>>
      /\ flight' = NoFlight => page' = "left" /\ toast' = "created"
      /\ UNCHANGED <<cards, failures, other, default, home, had, form, cache, carried,
                     extra, edits, chosen, moved>>
  BY DEF Continue, server
<1>2. done \in Nat /\ done <= NumLines /\ NumLines \in Nat
  BY Counters DEF PageInv
<1>3. card' # 0 /\ card' \in 0..Len(cards)  BY CardFields DEF PageInv
<1>4. CASE done < NumLines
  <2>1. flight' = [kind |-> "line", item |-> done + 1] /\ flight' # NoFlight
    BY <1>1, <1>4 DEF NextPost, NoFlight
  <2>2. PageTypeOK'
    <3>1. flight' \in Flights'  BY <1>2, <1>4, <2>1 DEF Flights
    <3> QED  BY <1>1, <1>3, <2>1, <3>1 DEF PageInv, PageTypeOK
  <2>3. FlightInv'
    BY <1>1, <1>3, <1>4, <2>1 DEF FlightInv, Holds
  <2>4. CountInv'  BY <1>1, <2>1 DEF PageInv, CountInv
  <2>5. ClientInv'  BY <1>1, <2>1, ClientsStand DEF PageInv, ClientInv
  <2> QED  BY <1>1, <2>2, <2>3, <2>4, <2>5 DEF PageInv, FileInv, CardFileInv
<1>5. CASE ~(done < NumLines)
  <2>1. /\ flight' = NoFlight /\ page' = "left" /\ toast' = "created"
        /\ done = NumLines
    BY <1>1, <1>2, <1>5 DEF NextPost
  <2>2. PageTypeOK'
    <3>1. flight' \in Flights'  BY <2>1 DEF Flights
    <3> QED  BY <1>1, <1>3, <2>1, <3>1 DEF PageInv, PageTypeOK
  <2>3. FlightInv'
    BY <1>1, <1>3, <2>1 DEF FlightInv, Holds, NoFlight
  <2>4. CountInv'  BY <1>1, <2>1 DEF PageInv, CountInv, NoFlight
  <2>5. ClientInv'  BY <1>1, <2>1, ClientsStand DEF PageInv, ClientInv, NoFlight
  <2> QED  BY <1>1, <2>2, <2>3, <2>4, <2>5 DEF PageInv, FileInv, CardFileInv
<1> QED  BY <1>4, <1>5

LEMMA AnswersKeep ==
  ASSUME IntakeAssumption, PageInv, CardAnswered \/ LineAnswered PROVE PageInv'
<1>1. page = "submitting" /\ toast # "created" /\ flight.kind # "card"
  BY DEF CardAnswered, LineAnswered, PageInv, FlightInv, NoFlight
<1>2. CASE CardAnswered
  <2>1. card' = flight.card /\ flight.kind = "made" /\ Continue(0)
    BY <1>2 DEF CardAnswered
  <2>2. card' \in DOMAIN cards  BY <2>1, FlightFields DEF PageInv
  <2>3. Holds(card', 0)  BY <2>1 DEF PageInv, FlightInv
  <2>4. 0 \in 0..NumLines  BY Counters DEF PageInv
  <2> QED  BY <1>1, <2>1, <2>2, <2>3, <2>4, ContinueKeeps
<1>3. CASE LineAnswered
  <2>1. card' = card /\ flight.kind = "added" /\ Continue(posted + 1)
    BY <1>3 DEF LineAnswered
  <2>2. card' \in DOMAIN cards /\ posted < NumLines /\ Holds(card', posted + 1)
    BY <2>1, CardFields DEF PageInv, FlightInv
  <2>3. posted + 1 \in 0..NumLines  BY <2>2, Counters DEF PageInv
  <2> QED  BY <1>1, <2>1, <2>2, <2>3, ContinueKeeps
<1> QED  BY <1>2, <1>3

LEMMA FailKeeps ==
  ASSUME IntakeAssumption, PageInv, Fail PROVE PageInv'
<1>1. /\ flight.kind = "failed" /\ page' = "editing" /\ flight' = NoFlight
      /\ failures' = failures + 1
      /\ UNCHANGED <<cards, posted, card, other, default, home,
                     had, form, cache, carried, extra, edits, chosen, moved>>
  BY DEF Fail, server
<1>t. toast' = "not created"  BY DEF Fail
<1>2. page = "submitting"
  <2>1. flight.kind # "none" /\ flight # NoFlight  BY <1>1 DEF NoFlight
  <2> QED  BY <2>1 DEF PageInv, FlightInv
<1>3. PageTypeOK'
  <2>1. flight' \in Flights'  BY <1>1 DEF Flights
  <2>2. failures' \in Nat  BY <1>1, Counters DEF PageInv
  <2> QED  BY <1>1, <1>t, <2>1, <2>2 DEF PageInv, PageTypeOK
<1>4. FileInv' /\ FlightInv'
  BY <1>1, <1>t DEF PageInv, FileInv, CardFileInv, FlightInv, NoFlight
<1>5. CountInv'
  <2>1. /\ Len(cards) \in Nat /\ failures \in Nat
        /\ Len(cards) <= failures + 1
    BY <1>2, Counters, CardFields DEF PageInv, CountInv
  <2> QED  BY <1>1, <2>1 DEF CountInv
<1>6. ClientInv'  BY <1>1, ClientsStand DEF PageInv, ClientInv, NoFlight
<1> QED  BY <1>3, <1>4, <1>5, <1>6 DEF PageInv

LEMMA EditDefaultKeeps ==
  ASSUME IntakeAssumption, PageInv, NEW c \in Clients, EditDefault(c) PROVE PageInv'
<1>1. PICK p \in Policies \ {default[c]} :
         /\ default' = [default EXCEPT ![c] = p]
         /\ had' = [had EXCEPT ![c] = @ \cup {p}]
  BY DEF EditDefault
<1>2. /\ edits < MaxEdits /\ default[c] # Unset /\ edits' = edits + 1
      /\ UNCHANGED <<home, cards, extra, chosen, moved, form, cache, page, posted, card, flight, toast,
                     failures, carried, other>>
  BY DEF EditDefault, browser
<1>3. PageTypeOK'
  <2>1. flight' \in Flights'  BY <1>2 DEF PageInv, PageTypeOK, Flights
  <2>2. edits' \in 0..MaxEdits
    <3>1. edits \in 0..MaxEdits /\ MaxEdits \in Nat
      BY DEF PageInv, PageTypeOK, IntakeAssumption
    <3> QED  BY <1>2, <3>1
  <2>3. /\ default' \in [Clients -> Policies \cup {Unset}]
        /\ had' \in [Clients -> SUBSET Policies]
    BY <1>1 DEF PageInv, PageTypeOK
  <2> QED  BY <1>2, <2>1, <2>2, <2>3 DEF PageInv, PageTypeOK
<1>4. FileInv' /\ FlightInv' /\ CountInv'  BY <1>2, FillingIn DEF PageInv
<1>5. ClientInv'
  <2>1. /\ default \in [Clients -> Policies \cup {Unset}]
        /\ had \in [Clients -> SUBSET Policies]
        /\ form.client \in Clients \cup {Nobody} /\ Unset \notin Policies
    BY DEF PageInv, PageTypeOK, IntakeAssumption
  <2>2. \A d \in Clients :
          /\ had[d] \subseteq had'[d]
          /\ default'[d] = Unset <=> default[d] = Unset
          /\ default'[d] # Unset /\ default[d] \in had[d] => default'[d] \in had'[d]
          /\ default'[d] = Unset => had'[d] = had[d]
    BY <1>1, <1>2, <2>1
  <2>3. ASSUME NEW policy, NEW contact, NEW client \in Clients,
               Carries(policy, contact, client)
        PROVE  Carries(policy, contact, client)'
    BY <1>2, <2>2, <2>3 DEF Carries
  <2>4. \A i \in DOMAIN cards' :
          Carries(cards[i].policy, cards[i].contact, cards[i].client)'
    BY <1>2, <2>3, CardFields DEF PageInv, ClientInv
  <2>5. IF form.client = Nobody THEN ~form.overridden => form.policy = Unset
        ELSE /\ default'[form.client] # Unset
             /\ Carries(form.policy, form.contact, form.client)'
    BY <1>2, <2>1, <2>2, <2>3 DEF PageInv, ClientInv
  <2>6. flight.kind = "card" =>
          /\ default'[flight.client] # Unset
          /\ Carries(flight.policy, flight.contact, flight.client)'
    BY <1>2, <2>2, <2>3, FlightFields DEF PageInv, ClientInv
  <2>7. \A d \in Clients :
          /\ default'[d] = Unset => had'[d] = {}
          /\ default'[d] # Unset => default'[d] \in had'[d]
          /\ cache[d] # Unset => cache[d] \in had'[d]
    BY <2>2 DEF PageInv, ClientInv
  <2> QED  BY <1>2, <2>4, <2>5, <2>6, <2>7 DEF ClientInv
<1> QED  BY <1>3, <1>4, <1>5 DEF PageInv

LEMMA OtherReadsKeeps ==
  ASSUME IntakeAssumption, PageInv, OtherReads PROVE PageInv'
<1>1. PICK at \in DOMAIN cards, asked \in AskedNos \cup {0} :
         other' = [card |-> at, asked |-> asked,
                   no |-> LineNoFor(asked, cards[at].lines)]
  BY DEF OtherReads
<1>2. /\ extra < MaxExtra /\ extra' = extra + 1
      /\ UNCHANGED <<default, home, cards, edits, chosen, moved, had, form, cache, page,
                     posted, card, flight, toast, failures, carried>>
  BY DEF OtherReads, browser
<1>3. /\ NextLineNo(cards[at].lines) \in Int
      /\ at \notin chosen => NextLineNo(cards[at].lines) = Len(cards[at].lines) + 1
      /\ Len(cards[at].lines) \in Nat /\ at \in Nat /\ asked \in Int
  BY CardFields, NextInTurn DEF PageInv, FileInv, CardFileInv, IntakeAssumption
<1>4. PageTypeOK'
  <2>1. flight' \in Flights'  BY <1>2 DEF PageInv, PageTypeOK, Flights
  <2>2. extra' \in 0..MaxExtra
    <3>1. extra \in 0..MaxExtra /\ MaxExtra \in Nat
      BY DEF PageInv, PageTypeOK, IntakeAssumption
    <3> QED  BY <1>2, <3>1
  <2>3. other' \in [card : Nat, asked : Int, no : Int]  BY <1>1, <1>3 DEF LineNoFor
  <2> QED  BY <1>2, <2>1, <2>2, <2>3 DEF PageInv, PageTypeOK
<1>5. FileInv'  BY <1>1, <1>2, <1>3 DEF PageInv, FileInv, CardFileInv, LineNoFor
<1>6. FlightInv' /\ CountInv'  BY <1>2 DEF PageInv, FlightInv, CountInv, Holds
<1>7. ClientInv'  BY <1>2, ClientsStand DEF PageInv, ClientInv
<1> QED  BY <1>4, <1>5, <1>6, <1>7 DEF PageInv

\* Lines change on some cards, whose marks say so: nothing else does.
LEMMA FileKeeps ==
  ASSUME IntakeAssumption, PageInv,
         cards' \in Seq(JobCard), Len(cards') = Len(cards), DOMAIN cards' = DOMAIN cards,
         chosen \subseteq chosen', chosen' \subseteq DOMAIN cards,
         moved \subseteq moved', moved' \subseteq chosen',
         \A i \in DOMAIN cards :
           /\ CardFileInv(i)'
           /\ i \notin chosen' => Len(cards'[i].lines) >= Len(cards[i].lines)
           /\ i \notin moved' => ItemsOf(cards'[i].lines) = ItemsOf(cards[i].lines)
           /\ cards'[i].client = cards[i].client
           /\ cards'[i].contact = cards[i].contact
           /\ cards'[i].policy = cards[i].policy,
         extra' \in 0..MaxExtra, edits' \in 0..MaxEdits,
         other' = other \/ other' = NoOther,
         UNCHANGED <<default, home, had, form, cache, page, posted, card, flight, toast,
                     failures, carried>>
  PROVE  PageInv'
<1>1. PageTypeOK'
  <2>1. flight' \in Flights'  BY DEF PageInv, PageTypeOK, Flights
  <2>2. other' \in [card : Nat, asked : Int, no : Int]
    <3>1. other \in [card : Nat, asked : Int, no : Int]  BY DEF PageInv, PageTypeOK
    <3>2. NoOther \in [card : Nat, asked : Int, no : Int]  BY DEF NoOther
    <3> QED  BY <3>1, <3>2
  <2> QED  BY <2>1, <2>2 DEF PageInv, PageTypeOK
<1>l. \A i \in DOMAIN cards : Len(cards[i].lines) \in Nat /\ Len(cards'[i].lines) \in Nat
  <2>1. \A i \in DOMAIN cards : Len(cards[i].lines) \in Nat  BY CardFields DEF PageInv
  <2>2. \A i \in DOMAIN cards' : cards'[i] \in JobCard  BY ElementOfSeq, LenProperties
  <2>3. \A i \in DOMAIN cards' : cards'[i].lines \in Seq(JobLine)  BY <2>2 DEF JobCard
  <2>4. \A i \in DOMAIN cards' : Len(cards'[i].lines) \in Nat  BY <2>3, LenProperties
  <2> QED  BY <2>1, <2>4
<1>2. FileInv'
  <2>1. ASSUME other' # NoOther, other'.asked = 0, other'.card \notin chosen'
        PROVE  other'.no \in 1..(Len(cards'[other'.card].lines) + 1)
    <3>1. /\ other' = other /\ other.card \in DOMAIN cards /\ other.card \notin chosen
          /\ other.no \in 1..(Len(cards[other.card].lines) + 1)
      BY <2>1 DEF PageInv, FileInv
    <3>2. /\ Len(cards'[other.card].lines) >= Len(cards[other.card].lines)
          /\ Len(cards[other.card].lines) \in Nat
          /\ Len(cards'[other.card].lines) \in Nat
      BY <1>l, <2>1, <3>1
    <3>3. other.no \in 1..(Len(cards'[other.card].lines) + 1)  BY ONLY <3>1, <3>2
    <3> QED  BY <3>1, <3>3
  <2>2. other' # NoOther => other'.card \in DOMAIN cards'  BY DEF PageInv, FileInv
  <2> QED  BY <2>1, <2>2 DEF FileInv
<1>3. ASSUME NEW i \in DOMAIN cards, NEW k, Holds(i, k)  PROVE Holds(i, k)'
  BY <1>3 DEF Holds
<1>4. FlightInv'
  <2>1. card # 0 => card \in DOMAIN cards  BY CardFields DEF PageInv
  <2>2. flight.kind = "made" => flight.card \in DOMAIN cards
    BY FlightFields DEF PageInv
  <2>3. flight.kind = "numbered" /\ card \notin chosen' =>
          flight.no \in 1..(Len(cards'[card].lines) + 1)
    <3> SUFFICES ASSUME flight.kind = "numbered", card \notin chosen'
                 PROVE  flight.no \in 1..(Len(cards'[card].lines) + 1)
      OBVIOUS
    <3>1. /\ card \in DOMAIN cards /\ card \notin chosen
          /\ flight.no \in 1..(Len(cards[card].lines) + 1)
      BY <2>1 DEF PageInv, FlightInv
    <3>2. /\ Len(cards'[card].lines) >= Len(cards[card].lines)
          /\ Len(cards[card].lines) \in Nat /\ Len(cards'[card].lines) \in Nat
      BY <1>l, <3>1
    <3> QED  BY ONLY <3>1, <3>2
  <2>4. /\ flight.kind = "made" => Holds(flight.card, 0)'
        /\ flight.kind \in {"line", "numbered"} => Holds(card, posted)'
        /\ flight.kind = "added" => Holds(card, posted + 1)'
        /\ toast = "created" => Holds(card, NumLines)'
    BY <1>3, <2>1, <2>2 DEF PageInv, FlightInv
  <2> QED  BY <2>3, <2>4 DEF PageInv, FlightInv, Holds
<1>5. CountInv'  BY DEF PageInv, CountInv
<1>6. ClientInv'
  <2>1. \A i \in DOMAIN cards' :
          Carries(cards'[i].policy, cards'[i].contact, cards'[i].client)
    BY DEF PageInv, ClientInv
  <2> QED  BY <2>1, ClientsStand DEF PageInv, ClientInv
<1> QED  BY <1>1, <1>2, <1>4, <1>5, <1>6 DEF PageInv

LEMMA OtherInsertsKeeps ==
  ASSUME IntakeAssumption, PageInv, OtherInserts PROVE PageInv'
<1> DEFINE at == other.card
           no == other.no
<1>1. /\ other # NoOther /\ other' = NoOther
      /\ UNCHANGED <<default, home, extra, edits, moved, had, form, cache, page, posted,
                     card, flight, toast, failures, carried>>
  BY DEF OtherInserts, browser
<1>2. /\ at \in DOMAIN cards /\ no \in Int
      /\ other.asked = 0 /\ at \notin chosen => no \in 1..(Len(cards[at].lines) + 1)
      /\ extra \in 0..MaxExtra /\ edits \in 0..MaxEdits
      /\ cards \in Seq(JobCard) /\ chosen \subseteq DOMAIN cards /\ moved \subseteq chosen
      /\ \A i \in DOMAIN cards : Len(cards[i].lines) \in Nat
  BY <1>1, CardFields DEF PageInv, FileInv, PageTypeOK
<1>3. CASE ~Storable(at, no)
  <2>1. UNCHANGED <<cards, chosen>>  BY <1>3 DEF OtherInserts
  <2>2. \A i \in DOMAIN cards : CardFileInv(i)'
    BY <1>1, <2>1 DEF PageInv, FileInv, CardFileInv
  <2> QED  BY <1>1, <1>2, <2>1, <2>2, FileKeeps
<1>4. CASE Storable(at, no)
  <2>1. /\ cards' = [cards EXCEPT ![at].lines = Append(@, Line(0, no))]
        /\ chosen' = IF other.asked # 0 THEN chosen \cup {at} ELSE chosen
    BY <1>4 DEF OtherInserts
  <2>2. /\ cards' \in Seq(JobCard)
        /\ Len(cards') = Len(cards) /\ DOMAIN cards' = DOMAIN cards
        /\ \A i \in DOMAIN cards :
              /\ CardFileInv(i)'
              /\ Len(cards'[i].lines) \in {Len(cards[i].lines), Len(cards[i].lines) + 1}
              /\ cards'[i].client = cards[i].client
              /\ cards'[i].contact = cards[i].contact
              /\ cards'[i].policy = cards[i].policy
              /\ i # at => cards'[i] = cards[i]
        /\ ItemsOf(cards'[at].lines) = ItemsOf(cards[at].lines) \cup ({0} \ {0})
    <3>1. 0 \in 0..NumLines  BY Counters DEF PageInv
    <3>2. /\ chosen' = chosen \/ chosen' = chosen \cup {at}
          /\ at \notin chosen' => no \in 1..(Len(cards[at].lines) + 1)
      BY <1>2, <2>1
    <3>3. Vacant(at, no)  BY <1>4 DEF Storable
    <3> HIDE DEF at, no
    <3> QED  BY <1>1, <1>2, <2>1, <3>1, <3>2, <3>3, LineAdded
  <2>3. ASSUME NEW i \in DOMAIN cards
        PROVE  /\ ItemsOf(cards'[i].lines) = ItemsOf(cards[i].lines)
               /\ Len(cards'[i].lines) >= Len(cards[i].lines)
    <3> HIDE DEF at
    <3>1. ItemsOf(cards'[at].lines) = ItemsOf(cards[at].lines)  BY <2>2
    <3>2. Len(cards'[i].lines) \in {Len(cards[i].lines), Len(cards[i].lines) + 1}
      BY <2>2
    <3> QED  BY <1>2, <2>2, <3>1, <3>2
  <2> HIDE DEF at, no
  <2> QED  BY <1>1, <1>2, <2>1, <2>2, <2>3, FileKeeps
<1> QED  BY <1>3, <1>4

\* The administrator's forms: a line renumbered, or moved to another card.
LEMMA SaveLineKeeps ==
  ASSUME IntakeAssumption, PageInv, SaveLine PROVE PageInv'
<1>1. PICK at \in DOMAIN cards, to \in DOMAIN cards : \E n \in DOMAIN cards[at].lines :
         \E no \in AskedNos \cup {cards[at].lines[n].no} :
            IF at = to THEN RenumberLine(at, n, no) ELSE RefileLine(at, n, to, no)
  BY DEF SaveLine
<1>n. PICK n \in DOMAIN cards[at].lines :
         \E no \in AskedNos \cup {cards[at].lines[n].no} :
            IF at = to THEN RenumberLine(at, n, no) ELSE RefileLine(at, n, to, no)
  BY <1>1
<1>2. PICK no \in AskedNos \cup {cards[at].lines[n].no} :
         IF at = to THEN RenumberLine(at, n, no) ELSE RefileLine(at, n, to, no)
  BY <1>n
<1>3. /\ edits < MaxEdits /\ edits' = edits + 1
      /\ UNCHANGED <<default, home, extra, had, form, cache, page, posted, card, flight,
                     toast, failures, carried, other>>
  BY DEF SaveLine, browser
<1>4. /\ cards \in Seq(JobCard) /\ chosen \subseteq DOMAIN cards /\ moved \subseteq chosen
      /\ edits' \in 0..MaxEdits /\ extra' \in 0..MaxExtra
  <2>1. /\ edits \in 0..MaxEdits /\ MaxEdits \in Nat /\ extra \in 0..MaxExtra
        /\ cards \in Seq(JobCard) /\ chosen \subseteq DOMAIN cards
        /\ moved \subseteq chosen
    BY DEF PageInv, PageTypeOK, IntakeAssumption
  <2>2. edits' \in 0..MaxEdits  BY ONLY <1>3, <2>1
  <2> QED  BY <1>3, <2>1, <2>2
<1>5. \A i \in DOMAIN cards : CardFileInv(i) /\ cards[i].lines \in Seq(JobLine)
  BY CardFields DEF PageInv, FileInv
<1>6. cards[at].lines[n] \in JobLine
  BY <1>5, ElementOfSeq, LenProperties
<1>7. no \in Int /\ cards[at].lines[n].item \in 0..NumLines
  BY <1>6 DEF JobLine, IntakeAssumption
<1>8. CASE at = to
  <2> DEFINE edited == [cards[at].lines EXCEPT ![n].no = no]
  <2>1. /\ no \notin Numbers(cards[at].lines)
        /\ cards' = [cards EXCEPT ![at].lines = edited]
        /\ chosen' = chosen \cup {at} /\ moved' = moved
    BY <1>2, <1>8 DEF RenumberLine, Storable, Vacant
  <2>2. Distinct(cards[at].lines) /\ HaveMaxima(Numbers(cards[at].lines))
    BY <1>5 DEF CardFileInv
  <2>3. /\ edited \in Seq(JobLine) /\ Distinct(edited) /\ HaveMaxima(Numbers(edited))
        /\ InOrder(cards[at].lines) => InOrder(edited)
        /\ ItemsOf(edited) = ItemsOf(cards[at].lines)
    BY <1>5, <1>7, <2>1, <2>2, Renumbered
  <2> HIDE DEF edited
  <2>4. /\ cards' \in Seq(JobCard) /\ Len(cards') = Len(cards)
        /\ DOMAIN cards' = DOMAIN cards /\ cards'[at].lines = edited
        /\ \A i \in DOMAIN cards :
             /\ i # at => cards'[i] = cards[i]
             /\ cards'[i].client = cards[i].client
             /\ cards'[i].contact = cards[i].contact
             /\ cards'[i].policy = cards[i].policy
    BY <1>4, <2>1, <2>3, LinesChange
  <2>5. ASSUME NEW i \in DOMAIN cards
        PROVE  /\ CardFileInv(i)'
               /\ i \notin chosen' => cards'[i] = cards[i]
               /\ ItemsOf(cards'[i].lines) = ItemsOf(cards[i].lines)
    BY <1>5, <2>1, <2>3, <2>4 DEF CardFileInv
  <2>6. \A i \in DOMAIN cards : Len(cards[i].lines) \in Nat  BY CardFields DEF PageInv
  <2> QED  BY <1>3, <1>4, <2>1, <2>4, <2>5, <2>6, FileKeeps
<1>9. CASE at # to
  <2> DEFINE rest == Without(cards[at].lines, n)
             longer == Append(cards[to].lines, Line(cards[at].lines[n].item, no))
             once == [cards EXCEPT ![at].lines = rest]
  <2>1. /\ no \notin Numbers(cards[to].lines)
        /\ cards' = [cards EXCEPT ![at].lines = rest, ![to].lines = longer]
        /\ chosen' = chosen \cup {at, to} /\ moved' = moved \cup {at, to}
    BY <1>2, <1>9 DEF RefileLine, Storable, Vacant
  <2>2. /\ Distinct(cards[at].lines) /\ HaveMaxima(Numbers(cards[at].lines))
        /\ Distinct(cards[to].lines) /\ HaveMaxima(Numbers(cards[to].lines))
    BY <1>5 DEF CardFileInv
  <2>3. rest \in Seq(JobLine) /\ Distinct(rest) /\ HaveMaxima(Numbers(rest))
    BY <1>5, <2>2, Removed
  <2>4. longer \in Seq(JobLine) /\ Distinct(longer) /\ HaveMaxima(Numbers(longer))
    BY <1>5, <1>7, <2>1, <2>2, AppendedInTurn
  <2>5. cards' = [once EXCEPT ![to].lines = longer]
    BY <1>9, <2>1
  <2> HIDE DEF rest, longer
  <2>6. /\ once \in Seq(JobCard) /\ Len(once) = Len(cards)
        /\ DOMAIN once = DOMAIN cards /\ once[at].lines = rest
        /\ \A i \in DOMAIN cards :
             /\ i # at => once[i] = cards[i]
             /\ once[i].client = cards[i].client
             /\ once[i].contact = cards[i].contact
             /\ once[i].policy = cards[i].policy
    BY <1>4, <2>3, LinesChange
  <2> HIDE DEF once
  <2>7. /\ cards' \in Seq(JobCard) /\ Len(cards') = Len(once)
        /\ DOMAIN cards' = DOMAIN once /\ cards'[to].lines = longer
        /\ \A i \in DOMAIN cards :
             /\ i # to => cards'[i] = once[i]
             /\ cards'[i].client = once[i].client
             /\ cards'[i].contact = once[i].contact
             /\ cards'[i].policy = once[i].policy
    BY <2>4, <2>5, <2>6, LinesChange
  <2>8. ASSUME NEW i \in DOMAIN cards
        PROVE  /\ CardFileInv(i)'
               /\ i \notin chosen' => cards'[i] = cards[i]
               /\ i \notin moved' => cards'[i] = cards[i]
               /\ cards'[i].client = cards[i].client
               /\ cards'[i].contact = cards[i].contact
               /\ cards'[i].policy = cards[i].policy
    <3>1. /\ cards'[i].client = cards[i].client
          /\ cards'[i].contact = cards[i].contact
          /\ cards'[i].policy = cards[i].policy
      BY <2>6, <2>7
    <3>2. CASE i = at
      <4>1. cards'[i].lines = rest  BY <1>9, <2>6, <2>7, <3>2
      <4>2. CardFileInv(i)'  BY <2>1, <2>3, <3>2, <4>1 DEF CardFileInv
      <4> QED  BY <2>1, <3>1, <3>2, <4>2
    <3>3. CASE i = to
      <4>1. CardFileInv(i)'  BY <2>1, <2>4, <2>7, <3>3 DEF CardFileInv
      <4> QED  BY <2>1, <3>1, <3>3, <4>1
    <3>4. CASE i # at /\ i # to
      <4>1. cards'[i] = cards[i]  BY <2>6, <2>7, <3>4
      <4>2. CardFileInv(i)'  BY <1>5, <2>1, <4>1 DEF CardFileInv
      <4> QED  BY <4>1, <4>2
    <3> QED  BY <3>2, <3>3, <3>4
  <2>9. \A i \in DOMAIN cards : Len(cards[i].lines) \in Nat  BY CardFields DEF PageInv
  <2>10. /\ cards' \in Seq(JobCard) /\ Len(cards') = Len(cards)
         /\ DOMAIN cards' = DOMAIN cards
         /\ chosen \subseteq chosen' /\ chosen' \subseteq DOMAIN cards
         /\ moved \subseteq moved' /\ moved' \subseteq chosen'
    BY <1>4, <2>1, <2>6, <2>7
  <2>11. \A i \in DOMAIN cards :
            /\ CardFileInv(i)'
            /\ i \notin chosen' => Len(cards'[i].lines) >= Len(cards[i].lines)
            /\ i \notin moved' => ItemsOf(cards'[i].lines) = ItemsOf(cards[i].lines)
            /\ cards'[i].client = cards[i].client
            /\ cards'[i].contact = cards[i].contact
            /\ cards'[i].policy = cards[i].policy
    BY <2>8, <2>9
  <2> QED  BY <1>3, <1>4, <2>10, <2>11, FileKeeps
<1> QED  BY <1>8, <1>9

\* The invariant holds in every state of every behaviour of the page.
LEMMA PageAlways ==
  ASSUME IntakeAssumption PROVE PageSpec => []PageInv
<1>1. PageInit => PageInv  BY PageBegins
<1>2. PageInv /\ [PageNext]_pageVars => PageInv'
  <2>1. ASSUME PageInv, PageNext  PROVE PageInv'
    BY <2>1, FillKeeps, SubmitKeeps, MakeCardKeeps, ReadLineNoKeeps, InsertLineKeeps,
      RequestFailsKeeps, AnswersKeep, FailKeeps, EditDefaultKeeps, OtherReadsKeeps,
      OtherInsertsKeeps, SaveLineKeeps DEF PageNext, Serve
  <2>2. ASSUME PageInv, UNCHANGED pageVars  PROVE PageInv'
    <3>1. UNCHANGED <<default, home, cards, extra, edits, chosen, moved, had, form, cache, page, posted,
                      card, flight, toast, failures, carried, other>>
      BY <2>2 DEF pageVars, server, browser
    <3>2. PageTypeOK'
      <4>1. flight' \in Flights'  BY <2>2, <3>1 DEF PageInv, PageTypeOK, Flights
      <4> QED  BY <2>2, <3>1, <4>1 DEF PageInv, PageTypeOK
    <3>3. FileInv' /\ FlightInv' /\ CountInv'  BY <2>2, <3>1, FillingIn DEF PageInv
    <3>4. ClientInv'  BY <2>2, <3>1, ClientsStand DEF PageInv, ClientInv
    <3> QED  BY <3>2, <3>3, <3>4 DEF PageInv
  <2> QED  BY <2>1, <2>2
<1> QED  BY <1>1, <1>2, PTL DEF PageSpec

\* The page, its requests and the cards keep their types.
THEOREM PageTypeCorrect ==
  ASSUME IntakeAssumption PROVE PageSpec => []PageTypeOK
<1>1. PageInv => PageTypeOK  BY DEF PageInv
<1> QED  BY <1>1, PageAlways, PTL

\* The toast "... created" tells the truth for forms of any length and any
\* number of submissions, failures and colleague's lines before it, of every
\* card no line was moved from or to.
THEOREM ToastIsTrue ==
  ASSUME IntakeAssumption PROVE PageSpec => []CreatedMeansWhole
<1>1. PageInv => CreatedMeansWhole
  BY CardFields DEF PageInv, FlightInv, FileInv, CardFileInv, CreatedMeansWhole, Holds
<1> QED  BY <1>1, PageAlways, PTL

\* No two lines of a card share a number, whoever chose one, and MAX + 1
\* without a lock numbers the lines of the others 1, 2, 3, ...: the unique key
\* lets only the next number in, because no line is taken away from them.
THEOREM LinesInTurn ==
  ASSUME IntakeAssumption PROVE PageSpec => []NumberedInTurn
<1>1. PageInv => NumberedInTurn
  BY DEF PageInv, FileInv, CardFileInv, Distinct, Numbered, NumberedInTurn
<1> QED  BY <1>1, PageAlways, PTL

\* A policy that nobody chose is one the client has had, and the contact of
\* a card is the client's, unless it was carried over to a client just made.
THEOREM CarriedFromTheClient ==
  ASSUME IntakeAssumption PROVE PageSpec => []FormIsTheClients
<1>1. PageInv => FormIsTheClients
  <2> SUFFICES ASSUME PageInv, NEW i \in DOMAIN cards
               PROVE  /\ ~form.overridden => cards[i].policy \in had[cards[i].client]
                      /\ ~carried /\ cards[i].contact # Nobody =>
                           home[cards[i].contact] = cards[i].client
    BY DEF FormIsTheClients
  <2>1. cards[i].policy # Unset
    BY CardFields DEF PageInv, IntakeAssumption
  <2> QED  BY <2>1 DEF PageInv, ClientInv, Carries
<1> QED  BY <1>1, PageAlways, PTL

\* One enquiry makes one card, and one more for each failure reported.
THEOREM EveryCardAccountedFor ==
  ASSUME IntakeAssumption PROVE PageSpec => []CardsAccountedFor
<1>1. PageInv => CardsAccountedFor
  BY Counters, CardFields DEF PageInv, CountInv, CardsAccountedFor
<1> QED  BY <1>1, PageAlways, PTL

---------------------------------------------------------------------------
\* ClientBook.

HeldRows ==
  /\ \A r \in Requests : demoted[r] \subseteq primary
  /\ \A r, s \in Requests : r # s => demoted[r] \cap demoted[s] = {}
  /\ \A r \in Requests :
       demoted[r] # {} => wants[r] /\ pc[r] \in {"demoted", "inserted"}
  /\ \A r \in Requests : pc[r] = "demoting" => wants[r]

Replacing(r) == pc[r] = "inserted" /\ wants[r]

ReplacesAll ==
  /\ \A r \in Requests : Replacing(r) => primary \subseteq demoted[r]
  /\ \A r, s \in Requests : Replacing(r) /\ Replacing(s) => r = s

Undisturbed ==
  \A r \in Requests : wants[r] /\ ~beaten[r] =>
    /\ pc[r] = "demoting" => found[r] = primary
    /\ pc[r] = "demoted" => demoted[r] = primary

BookInv ==
  /\ TypeOK /\ OnePrimary /\ HeldRows /\ ReplacesAll
  /\ Undisturbed /\ RefusedOnlyWhenBeaten

---------------------------------------------------------------------------

LEMMA BookInit ==
  ASSUME ClientAssumption, Init PROVE BookInv
  BY DEF Init, BookInv, TypeOK, OnePrimary, HeldRows, Replacing, ReplacesAll,
    Undisturbed, RefusedOnlyWhenBeaten, Points, People

LEMMA BeginKeeps ==
  ASSUME BookInv, NEW r \in Requests, Begin(r) PROVE BookInv'
<1>1. TypeOK' /\ OnePrimary'
  BY DEF BookInv, TypeOK, OnePrimary, Begin, Points
<1>2. HeldRows' /\ ReplacesAll'
  BY DEF BookInv, TypeOK, HeldRows, Replacing, ReplacesAll, Begin
<1>3. Undisturbed' /\ RefusedOnlyWhenBeaten'
  BY DEF BookInv, TypeOK, Undisturbed, RefusedOnlyWhenBeaten, Begin
<1> QED BY <1>1, <1>2, <1>3 DEF BookInv

\* A request that demotes nothing holds nothing; one that may has found every
\* primary contact.
LEMMA FindIncumbentKeeps ==
  ASSUME BookInv, NEW r \in Requests, FindIncumbent(r) PROVE BookInv'
<1>1. TypeOK' /\ OnePrimary'
  BY DEF BookInv, TypeOK, OnePrimary, FindIncumbent, Incumbent, Points
<1>2. HeldRows' /\ ReplacesAll'
  BY DEF BookInv, TypeOK, HeldRows, Replacing, ReplacesAll, FindIncumbent
<1>3. Undisturbed' /\ RefusedOnlyWhenBeaten'
  BY DEF BookInv, TypeOK, Undisturbed, RefusedOnlyWhenBeaten, FindIncumbent, Incumbent
<1> QED BY <1>1, <1>2, <1>3 DEF BookInv

\* Nobody holds a row found, and whoever has inserted a primary contact holds
\* them all: then none is left to demote.
LEMMA DemoteKeeps ==
  ASSUME BookInv, NEW r \in Requests, Demote(r) PROVE BookInv'
<1>1. TypeOK' /\ OnePrimary'
  BY DEF BookInv, TypeOK, OnePrimary, Demote, Points
<1>2. HeldRows'
  BY DEF BookInv, TypeOK, HeldRows, Demote
<1>3. ReplacesAll'
  BY DEF BookInv, TypeOK, Replacing, ReplacesAll, Demote
<1>4. Undisturbed' /\ RefusedOnlyWhenBeaten'
  BY DEF BookInv, TypeOK, Undisturbed, RefusedOnlyWhenBeaten, Demote
<1> QED BY <1>1, <1>2, <1>3, <1>4 DEF BookInv

\* An answer other than 201 gives up what the request held.
LEMMA RefuseKeeps ==
  ASSUME BookInv, NEW r \in Requests, NEW answer \in {"422", "invalid", "lost"},
         Refuse(r, answer), answer = "422" => beaten[r]
  PROVE  BookInv'
<1>1. TypeOK' /\ OnePrimary'
  BY DEF BookInv, TypeOK, OnePrimary, Refuse, Points
<1>2. HeldRows'
  BY DEF BookInv, TypeOK, HeldRows, Refuse
<1>3. ReplacesAll'
  BY DEF BookInv, TypeOK, Replacing, ReplacesAll, Refuse
<1>4. Undisturbed' /\ RefusedOnlyWhenBeaten'
  BY DEF BookInv, TypeOK, Undisturbed, RefusedOnlyWhenBeaten, Refuse
<1> QED BY <1>1, <1>2, <1>3, <1>4 DEF BookInv

\* The constraint bites only on a primary contact the UPDATE did not find.
LEMMA InsertKeeps ==
  ASSUME BookInv, NEW r \in Requests, Insert(r) PROVE BookInv'
<1>1. CASE Taken(r) /\ Refuse(r, "422")
  <2>1. beaten[r]
    BY <1>1 DEF BookInv, Undisturbed, TypeOK, Insert, Taken
  <2> QED BY <1>1, <2>1, RefuseKeeps
<1>2. CASE /\ ~Taken(r)
           /\ pc' = [pc EXCEPT ![r] = "inserted"]
           /\ UNCHANGED <<contacts, primary, wants, found, demoted, beaten>>
  <2>1. TypeOK' /\ OnePrimary' /\ HeldRows'
    BY <1>2 DEF BookInv, TypeOK, OnePrimary, HeldRows, Insert, Points
  <2>2. ReplacesAll'
    BY <1>2 DEF BookInv, TypeOK, Replacing, ReplacesAll, Insert, Taken
  <2>3. Undisturbed' /\ RefusedOnlyWhenBeaten'
    BY <1>2 DEF BookInv, TypeOK, Undisturbed, RefusedOnlyWhenBeaten
  <2> QED BY <2>1, <2>2, <2>3 DEF BookInv
<1> QED BY <1>1, <1>2 DEF Insert

\* What a commit does to the primary contacts: it replaces all of them by its
\* own, or leaves them alone.
LEMMA CommitReplaces ==
  ASSUME BookInv, NEW r \in Requests, Commit(r)
  PROVE  primary' = IF wants[r] THEN {r} ELSE primary
<1>1. CASE wants[r]
  BY <1>1 DEF BookInv, TypeOK, Replacing, ReplacesAll, Commit
<1>2. CASE ~wants[r]
  BY <1>2 DEF BookInv, TypeOK, HeldRows, Commit
<1> QED BY <1>1, <1>2

LEMMA CommitKeeps ==
  ASSUME BookInv, NEW r \in Requests, Commit(r) PROVE BookInv'
<1>1. primary' = IF wants[r] THEN {r} ELSE primary
  BY CommitReplaces
<1>2. TypeOK' /\ OnePrimary'
  BY <1>1 DEF BookInv, TypeOK, OnePrimary, Commit, Points, People
<1>3. ASSUME wants[r], NEW s \in Requests, s # r
      PROVE  demoted[s] = {} /\ ~Replacing(s)
  BY <1>3 DEF BookInv, TypeOK, HeldRows, Replacing, ReplacesAll, Commit
<1>4. HeldRows'
  BY <1>1, <1>3 DEF BookInv, TypeOK, HeldRows, Commit
<1>5. ReplacesAll'
  BY <1>1, <1>3 DEF BookInv, TypeOK, Replacing, ReplacesAll, Commit
<1>6. Undisturbed' /\ RefusedOnlyWhenBeaten'
  BY <1>1 DEF BookInv, TypeOK, Undisturbed, RefusedOnlyWhenBeaten, Commit, Open
<1> QED BY <1>2, <1>4, <1>5, <1>6 DEF BookInv

LEMMA BookStep ==
  ASSUME BookInv, [Next]_vars PROVE BookInv'
<1>1. CASE UNCHANGED vars
  BY <1>1 DEF vars, BookInv, TypeOK, OnePrimary, HeldRows, Replacing, ReplacesAll,
    Undisturbed, RefusedOnlyWhenBeaten
<1>2. ASSUME NEW r \in Requests, Begin(r) PROVE BookInv'
  BY <1>2, BeginKeeps
<1>3. ASSUME NEW r \in Requests, FindIncumbent(r) PROVE BookInv'
  BY <1>3, FindIncumbentKeeps
<1>4. ASSUME NEW r \in Requests, Demote(r) PROVE BookInv'
  BY <1>4, DemoteKeeps
<1>5. ASSUME NEW r \in Requests, Insert(r) PROVE BookInv'
  BY <1>5, InsertKeeps
<1>6. ASSUME NEW r \in Requests, Unreachable(r) PROVE BookInv'
  BY <1>6, RefuseKeeps DEF Unreachable
<1>7. ASSUME NEW r \in Requests, Commit(r) PROVE BookInv'
  BY <1>7, CommitKeeps
<1>8. ASSUME NEW r \in Requests, Crash(r) PROVE BookInv'
  BY <1>8, RefuseKeeps DEF Crash
<1> QED
  BY <1>1, <1>2, <1>3, <1>4, <1>5, <1>6, <1>7, <1>8 DEF Next, Finished

THEOREM BookSafe == ASSUME ClientAssumption PROVE Spec => []BookInv
<1>1. Init => BookInv
  BY BookInit
<1>2. BookInv /\ [Next]_vars => BookInv'
  BY BookStep
<1> QED BY <1>1, <1>2, PTL DEF Spec

---------------------------------------------------------------------------

\* add_client_contact: a client never has two primary contacts, and every
\* variable of the model keeps its type.
THEOREM AtMostOnePrimary ==
  ASSUME ClientAssumption PROVE Spec => [](TypeOK /\ OnePrimary)
<1>1. BookInv => TypeOK /\ OnePrimary
  BY DEF BookInv
<1> QED BY <1>1, BookSafe, PTL

\* The demotion and the contact it makes room for arrive together: a client
\* with a primary contact is never without one.
THEOREM PrimaryNeverLost == ASSUME ClientAssumption PROVE Spec => PrimaryStands
<1>1. ASSUME BookInv, [Next]_vars PROVE primary # {} => primary' # {}
  <2>1. CASE UNCHANGED primary
    BY <2>1
  <2>2. ASSUME NEW r \in Requests, Commit(r) PROVE primary # {} => primary' # {}
    BY <1>1, <2>2, CommitReplaces
  <2> QED
    BY <1>1, <2>1, <2>2 DEF Next, vars, Begin, FindIncumbent, Demote, Insert,
      Unreachable, Refuse, Crash, Finished
<1>2. BookInv /\ [Next]_vars => [primary # {} => primary' # {}]_vars
  BY <1>1
<1> QED BY <1>2, BookSafe, PTL DEF Spec, PrimaryStands

\* uk_client_contacts_primary refuses a new primary contact only when another
\* one was committed while the request ran: a request alone is never refused.
THEOREM RefusalsAreJust == ASSUME ClientAssumption PROVE Spec => []RefusedOnlyWhenBeaten
<1>1. BookInv => RefusedOnlyWhenBeaten
  BY DEF BookInv
<1> QED BY <1>1, BookSafe, PTL
=============================================================================
