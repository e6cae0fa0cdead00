----------------------------- MODULE XramLayout -----------------------------
(***************************************************************************)
(* Who writes where in xRAM.  The parts of the firmware place their arrays *)
(* at absolute addresses, each in its own file, while the sizes are set    *)
(* elsewhere and the compiler checks no overlap of absolute variables.     *)
(* The addresses of the two rings are the defaults of context.h; a build   *)
(* may define others, with which it is another layout.                     *)
(* A behaviour is any sequence of writes, for one choice of the sizes.     *)
(***************************************************************************)
EXTENDS Naturals

CONSTANTS FifoSizes,       \* values of USB_SETUP_FIFO_SIZE
          RxSizes,         \* values of UART1_RX_BUFSIZE
          TxSizes,         \* values of UART1_TX_BUFSIZE
          DeviceLengths    \* values of the device descriptor's bLength

ASSUME SizesAssumption == /\ FifoSizes \subseteq Nat /\ RxSizes \subseteq Nat
                          /\ TxSizes \subseteq Nat /\ DeviceLengths \subseteq Nat

VARIABLES fifo, rx, tx, device,    \* the sizes of this build
          written                  \* the last write: by whom, to which address

sizes == <<fifo, rx, tx, device>>
vars == <<sizes, written>>

Part == {"ep0", "fifo", "rx", "tx"}

XramSize == 1024       \* --xram-size
BufferSize == 64       \* ep0_buffer
ItemSize == 8          \* sizeof(usb_setup_fifo_item_t)

FifoAddress == 64

RxAddress == 256

(* Mutant: the transmit buffer is put too close.                           *)
TxAddressLow == 272

TxAddress == 288

(* The array of a part: ep0_buffer, the indices and entries of the FIFO,   *)
(* the rings.                                                              *)
Region(p) ==
    CASE p = "ep0" -> 0 .. BufferSize - 1
      [] p = "fifo" -> FifoAddress .. FifoAddress + 1 + ItemSize * fifo
      [] p = "rx" -> RxAddress .. RxAddress + rx - 1
      [] p = "tx" -> TxAddress .. TxAddress + tx - 1

Write(p, address) == written' = [by |-> p, at |-> address] /\ UNCHANGED sizes

Init == /\ fifo \in FifoSizes /\ rx \in RxSizes /\ tx \in TxSizes
        /\ device \in DeviceLengths
        /\ written = [by |-> "ep0", at |-> 0]

(* The USB engine stores a received packet, and                            *)
(* usb_ep0_prepare_descriptor copies behind the bytes already filled.      *)
FillBuffer == \E i \in 0 .. BufferSize - 1 : Write("ep0", i)

(* memcpy_code_to_xdata(ep0_buffer, descriptor, descriptor->bLength)       *)
CopyDeviceDescriptor == \E i \in 0 .. device - 1 : Write("ep0", i)

(* fifo.head and fifo.tail                                                 *)
WriteFifoIndex == \E i \in {0, 1} : Write("fifo", FifoAddress + i)

(* fifo.entries[head] = *packet                                            *)
WriteFifoEntry == \E head \in 0 .. fifo - 1, i \in 0 .. ItemSize - 1 :
                     Write("fifo", FifoAddress + 2 + ItemSize * head + i)

(* rx_buffer[uart1.rx_tail] and tx_buffer[uart1.tx_head]                   *)
WriteRx == \E tail \in 0 .. rx - 1 : Write("rx", RxAddress + tail)
WriteTx == \E head \in 0 .. tx - 1 : Write("tx", TxAddress + head)

Next == \/ FillBuffer \/ CopyDeviceDescriptor
        \/ WriteFifoIndex \/ WriteFifoEntry
        \/ WriteRx \/ WriteTx

Spec == Init /\ [][Next]_vars

(* No part writes into the array of another, or beyond the xRAM: a SETUP   *)
(* packet in the FIFO, a byte in a ring or a reply in ep0_buffer is        *)
(* changed only by the code it belongs to.                                 *)
NoWriteAstray ==
    /\ written.at < XramSize
    /\ \A p \in Part \ {written.by} : written.at \notin Region(p)
=============================================================================
