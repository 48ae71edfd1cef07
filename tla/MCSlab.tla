------------------------------- MODULE MCSlab -------------------------------
\* Two caches, with two objects and with one object to the page.
EXTENDS Slab

MCClassSize == [kmalloc_half |-> 1, kmalloc_page |-> 2]
=============================================================================
