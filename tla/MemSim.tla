-------------------------------- MODULE MemSim --------------------------------
(***************************************************************************)
(* The memory of the bench, bench/cpp/memsim.cpp: a Wishbone slave that    *)
(* accepts a request a clock unless it stalls, and answers a read m_delay  *)
(* clocks later, a write half as late, out of a ring of slots.             *)
(*                                                                         *)
(* Abstracted: a word is a value and is written whole (the engines of this *)
(* design select all its bytes), addresses are those of m_mem.             *)
(***************************************************************************)
EXTENDS Integers

CONSTANTS
  Delays,         \* the second argument of the constructor
  Words,          \* words of the memory
  Values          \* what a word may hold

ASSUME MemAssumption == /\ Delays \subseteq Nat /\ Delays # {}
                        /\ Words \in Nat \ {0}
                        /\ 0 \in Values

\* What the provers do not know of powers of two.
ASSUME PowersAssumption == \A d \in Delays : \A k \in 0 .. d : 2^(k + 1) = 2 * 2^k

VARIABLES
  m_delay, m_mem, m_head, m_cleared,
  m_fifo_ack, m_fifo_data,    \* a slot of the ring: answered, and with what
  o_stall, o_ack, o_data

memVars == <<m_delay, m_mem, m_head, m_cleared, m_fifo_ack, m_fifo_data, o_stall, o_ack, o_data>>

Addresses == 0 .. Words - 1

\* The constructor's power of two that holds the delay; m_delay_mask is one less.
RingSize(delay) ==
  CHOOSE n \in {2 ^ k : k \in 0 .. delay} : /\ n >= delay
                                            /\ \A k \in 0 .. delay : 2 ^ k >= delay => n <= 2 ^ k
Slots == 0 .. RingSize(m_delay) - 1

MemInit ==
  /\ m_delay \in Delays
  /\ m_mem = [a \in Addresses |-> 0]
  /\ m_head = 0 /\ m_cleared = FALSE
  /\ m_fifo_ack = [k \in Slots |-> FALSE]
  /\ m_fifo_data = [k \in Slots |-> 0]
  /\ o_stall = FALSE /\ o_ack = FALSE /\ o_data = 0

\* The slot that lies k before h in the ring.
Before(h, k) == (h - k) % RingSize(m_delay)

\* apply() without a bus cycle: the answers still in the ring are dropped.
ApplyIdle ==
  /\ o_ack' = FALSE /\ o_stall' = FALSE
  /\ m_head' = 0
  /\ m_fifo_ack' = IF m_cleared THEN m_fifo_ack ELSE [k \in Slots |-> FALSE]
  /\ m_cleared' = TRUE
  /\ UNCHANGED <<m_delay, m_mem, m_fifo_data, o_data>>

\* Seeded fault of Uncleared: the answers in the ring are dropped only once.
Uncleared_Once(wb_stb) == m_cleared

\* m_cleared: whether the ring is known to hold no answer.
Uncleared(wb_stb) == m_cleared /\ ~wb_stb

\* The slot the clock has come to is free again.
Freed(head) == [m_fifo_ack EXCEPT ![head] = FALSE]

\* Where the answer to a write goes: half as late as a read's, unless it would
\* overtake one.
WriteSlot(acks, head) ==
  IF \E k \in 1 .. m_delay \div 2 : acks[Before(head, k)] THEN head
  ELSE Before(head, m_delay \div 2)

\* Seeded fault of DataSlot: the data is put where a write's answer goes.
DataSlot_Early(head) == Before(head, m_delay \div 2)

\* Where the data of a read goes: to the slot of its answer.
DataSlot(head) == head

\* apply() within a bus cycle.  stall is the outcome of rand().
Apply(wb_stb, wb_we, wb_addr, wb_data, stall) ==
  LET head == Before(m_head, -1)
      tail == Before(m_head + 1, m_delay)
      acks == Freed(head)
      taken == wb_stb /\ ~stall
  IN  /\ m_cleared' = Uncleared(wb_stb)
      /\ m_head' = head
      /\ o_stall' = stall
      /\ o_ack' = m_fifo_ack[tail] /\ o_data' = m_fifo_data[tail]
      /\ m_fifo_ack' = IF taken
                       THEN [acks EXCEPT ![IF wb_we THEN WriteSlot(acks, head) ELSE head] = TRUE]
                       ELSE acks
      /\ m_mem' = IF taken /\ wb_we THEN [m_mem EXCEPT ![wb_addr] = wb_data] ELSE m_mem
      /\ m_fifo_data' = IF taken /\ ~wb_we THEN [m_fifo_data EXCEPT ![DataSlot(head)] = m_mem[wb_addr]]
                        ELSE m_fifo_data
      /\ UNCHANGED m_delay

=============================================================================
