------------------------------ MODULE Readiness ------------------------------
(***************************************************************************)
(* mio's readiness masks as the reactor and its registrations use them.    *)
(* A mio::Ready is a set of bits; its operators |, &, - and ! are the set  *)
(* operators.                                                              *)
(***************************************************************************)

CONSTANT Hup   \* platform::hup(): {"hup"} on unix, {} on windows

ASSUME HupAssumption == Hup \in {{"hup"}, {}}

\* reactor::Direction: the two readiness streams of a registration.
Direction == {"Read", "Write"}

\* mio::Ready::all(), the bits a resource is registered for.
AllReady == {"readable", "writable", "error"} \cup Hup

Ready == SUBSET AllReady

\* Direction::mask: everything except writable is signalled through read.
Mask(d) == IF d = "Read" THEN AllReady \ {"writable"} ELSE {"writable"} \cup Hup

\* Fault: HUP is consumed like the other bits.
MaskWithHup(d) == Mask(d)

\* The bits Registration::poll_ready consumes: HUP stays for both directions.
MaskNoHup(d) == Mask(d) \ Hup

\* The bits for which reactor::Inner::register wakes a task straight away.
RegisterMask(d) == IF d = "Read" THEN AllReady \ {"writable"} ELSE {"writable"}

\* Reactor::dispatch: the directions whose waker an event makes it take.
DispatchTakes(ready) ==
  (IF ready \cap ({"writable"} \cup Hup) # {} THEN {"Write"} ELSE {})
    \cup (IF ready \ {"writable"} # {} THEN {"Read"} ELSE {})

\* The bit PollEvented caches and clears for a direction.
Own(d) == IF d = "Read" THEN "readable" ELSE "writable"

\* The bits for which PollEvented::poll_{read,write}_ready answers Ready.
PollMask(d) == {Own(d)} \cup Hup
=============================================================================
