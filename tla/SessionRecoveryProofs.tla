------------------------ MODULE SessionRecoveryProofs ------------------------
(***************************************************************************)
(* What holds of a supervised session for any number of restarts and locks *)
(* and any set of installed desktops: types, the permit, the one owner of  *)
(* the screen, and the authentication boundary.                            *)
(***************************************************************************)
EXTENDS SessionRecovery, TLAPS

\* Every step of every process keeps the counters within their bounds and the exit code one of three.
LEMMA CuentasPaso == Cuentas /\ [Next]_vars => Cuentas'
  <1> SUFFICES ASSUME Cuentas, [Next]_vars PROVE Cuentas'
    OBVIOUS
  <1> USE BoundsAssumption DEF cvars, rvars, svars
  <1>1. CASE Bloquea
    BY <1>1 DEF Bloquea, QuitaPermiso, Muere, Cuentas
  <1>2. CASE EchaCandado
    BY <1>2 DEF EchaCandado, Cuentas
  <1>3. CASE Autentica
    BY <1>3 DEF Autentica, Cuentas
  <1>4. CASE SueltaCandado
    BY <1>4 DEF SueltaCandado, Cuentas
  <1>5. CASE Sale
    BY <1>5 DEF Sale, Muere, Cuentas
  <1>6. CASE Cae
    BY <1>6 DEF Cae, Muere, Cuentas
  <1>7. CASE Arranca
    BY <1>7 DEF Arranca, Cuentas
  <1>8. CASE Evalua
    BY <1>8 DEF Evalua, Protegida, Cuentas
  <1>9. CASE Senal
    BY <1>9 DEF Senal, Cuentas
  <1>10. CASE AbreKwin
    BY <1>10 DEF AbreKwin, DirectorioNuevo, Ayudante, Cuentas
  <1>11. CASE PromptAvanza
    BY <1>11 DEF PromptAvanza, VeVentana, VeKwinMuerto, Plazo, PlazoTerminar, DejaDeEsperar, EsperaAcabada, Ayudante, Cuentas
  <1>12. CASE Decide
    BY <1>12 DEF Decide, Responde, Vuelve, Ayudante, Cuentas
  <1>13. CASE Tty
    BY <1>13 DEF Tty, Responde, Vuelve, Ofrecidas, Ayudante, Cuentas
  <1>14. CASE OtraAcaba
    BY <1>14 DEF OtraAcaba, Vuelve, Ayudante, Cuentas
  <1>15. CASE AyudanteMuere
    BY <1>15 DEF AyudanteMuere, Vuelve, Ayudante, Cuentas
  <1>16. CASE VentanaLista
    BY <1>16 DEF VentanaLista, Directorio, Cuentas
  <1>17. CASE Pulsa
    BY <1>17 DEF Pulsa, Directorio, Ofrecidas, Cuentas
  <1>18. CASE Escribe
    BY <1>18 DEF Escribe, Directorio, Cuentas
  <1>19. CASE VentanaAcaba
    BY <1>19 DEF VentanaAcaba, Cuentas
  <1>20. CASE KwinAcaba
    BY <1>20 DEF KwinAcaba, Cuentas
  <1>21. CASE UNCHANGED vars
    BY <1>21 DEF vars, Cuentas
  <1> QED
    BY <1>1, <1>2, <1>3, <1>4, <1>5, <1>6, <1>7, <1>8, <1>9, <1>10, <1>11, <1>12, <1>13, <1>14, <1>15, <1>16, <1>17, <1>18, <1>19, <1>20, <1>21
       DEF Next, Compositor, Supervisor, Recuperacion, Ventana

\* Every step of every process keeps the types of the supervisor and the compositor.
LEMMA SesionPaso == TipoSesion /\ [Next]_vars => TipoSesion'
  <1> SUFFICES ASSUME TipoSesion, [Next]_vars PROVE TipoSesion'
    OBVIOUS
  <1> USE DEF cvars, rvars, svars
  <1>1. CASE Compositor
    BY <1>1
       DEF Compositor, Bloquea, QuitaPermiso, Muere, EchaCandado, Autentica,
           SueltaCandado,
           Sale,
           Cae,
           TipoSesion
  <1>2. CASE Supervisor
    BY <1>2
       DEF Supervisor, Arranca, Evalua, Protegida, Senal, TipoSesion
  <1>3. CASE Recuperacion
    BY <1>3
       DEF Recuperacion, AbreKwin, DirectorioNuevo, Ayudante, PromptAvanza,
           VeVentana,
           VeKwinMuerto,
           Plazo,
           PlazoTerminar,
           DejaDeEsperar,
           EsperaAcabada,
           Decide,
           Responde,
           Vuelve,
           Tty,
           Ofrecidas,
           OtraAcaba,
           AyudanteMuere,
           TipoSesion
  <1>4. CASE Ventana
    BY <1>4
       DEF Ventana, VentanaLista, Directorio, Pulsa, Ofrecidas, Escribe,
           VentanaAcaba,
           KwinAcaba,
           TipoSesion
  <1>5. CASE UNCHANGED vars
    BY <1>5 DEF vars, TipoSesion
  <1> QED
    BY <1>1, <1>2, <1>3, <1>4, <1>5 DEF Next

\* Every step of every process keeps the types of the helper and its window.
LEMMA AyudantePaso == TipoAyudante /\ [Next]_vars => TipoAyudante'
  <1> SUFFICES ASSUME TipoAyudante, [Next]_vars PROVE TipoAyudante'
    OBVIOUS
  <1> USE DEF cvars, rvars, svars
  <1>1. CASE Compositor
    BY <1>1
       DEF Compositor, Bloquea, QuitaPermiso, Muere, EchaCandado, Autentica,
           SueltaCandado,
           Sale,
           Cae,
           TipoAyudante,
           Opcion
  <1>2. CASE Supervisor
    BY <1>2
       DEF Supervisor, Arranca, Evalua, Protegida, Senal, TipoAyudante, Opcion
  <1>3. CASE Recuperacion
    BY <1>3
       DEF Recuperacion, AbreKwin, DirectorioNuevo, Ayudante, PromptAvanza,
           VeVentana,
           VeKwinMuerto,
           Plazo,
           PlazoTerminar,
           DejaDeEsperar,
           EsperaAcabada,
           Decide,
           Responde,
           Vuelve,
           Tty,
           Ofrecidas,
           OtraAcaba,
           AyudanteMuere,
           TipoAyudante,
           Opcion
  <1>4. CASE Ventana
    BY <1>4
       DEF Ventana, VentanaLista, Directorio, Pulsa, Ofrecidas, Escribe,
           VentanaAcaba,
           KwinAcaba,
           TipoAyudante,
           Opcion
  <1>5. CASE UNCHANGED vars
    BY <1>5 DEF vars, TipoAyudante, Opcion
  <1> QED
    BY <1>1, <1>2, <1>3, <1>4, <1>5 DEF Next

\* Types of every state of a session.
THEOREM TypeCorrect == Spec => []TypeOK
  <1>1. Init => Cuentas
    BY BoundsAssumption DEF Init, Cuentas
  <1>2. Init => TypeOK
    BY <1>1 DEF Init, TypeOK, TipoSesion, TipoAyudante, Opcion
  <1>3. TypeOK /\ [Next]_vars => TypeOK'
    BY CuentasPaso, SesionPaso, AyudantePaso DEF TypeOK
  <1> QED
    BY <1>2, <1>3, PTL DEF Spec

\* The inductive invariant: the permit, what the door shows, what the helper was
\* told, and where a private KWin can be alive.
Inductivo == TypeOK /\ SinPermiso /\ Fronterizo

\* A step keeps PuertaVista: the lock screen and the step under way tell whether the door is closed.
LEMMA PuertaPaso == TypeOK /\ PuertaVista /\ AyudaAvisada /\ [Next]_vars => PuertaVista'
  <1> SUFFICES ASSUME TypeOK, PuertaVista, AyudaAvisada, [Next]_vars PROVE PuertaVista'
    OBVIOUS
  <1> USE OtrasAssumption DEF cvars, rvars, svars
  <1>1. CASE Bloquea
    BY <1>1 DEF Bloquea, QuitaPermiso, Muere, TypeOK, Cuentas, TipoSesion, TipoAyudante, PuertaVista, AyudaAvisada
  <1>2. CASE EchaCandado
    BY <1>2 DEF EchaCandado, TypeOK, Cuentas, TipoSesion, TipoAyudante, PuertaVista, AyudaAvisada
  <1>3. CASE Autentica
    BY <1>3 DEF Autentica, TypeOK, Cuentas, TipoSesion, TipoAyudante, PuertaVista, AyudaAvisada
  <1>4. CASE SueltaCandado
    BY <1>4 DEF SueltaCandado, TypeOK, Cuentas, TipoSesion, TipoAyudante, PuertaVista, AyudaAvisada
  <1>5. CASE Sale
    BY <1>5 DEF Sale, Muere, TypeOK, Cuentas, TipoSesion, TipoAyudante, PuertaVista, AyudaAvisada
  <1>6. CASE Cae
    BY <1>6 DEF Cae, Muere, TypeOK, Cuentas, TipoSesion, TipoAyudante, PuertaVista, AyudaAvisada
  <1>7. CASE Arranca
    BY <1>7 DEF Arranca, TypeOK, Cuentas, TipoSesion, TipoAyudante, PuertaVista, AyudaAvisada
  <1>8. CASE Evalua
    BY <1>8 DEF Evalua, Protegida, TypeOK, Cuentas, TipoSesion, TipoAyudante, PuertaVista, AyudaAvisada
  <1>9. CASE Senal
    BY <1>9 DEF Senal, TypeOK, Cuentas, TipoSesion, TipoAyudante, PuertaVista, AyudaAvisada
  <1>10. CASE AbreKwin
    BY <1>10 DEF AbreKwin, DirectorioNuevo, Ayudante, TypeOK, Cuentas, TipoSesion, TipoAyudante, PuertaVista, AyudaAvisada
  <1>11. CASE PromptAvanza
    BY <1>11 DEF PromptAvanza, VeVentana, VeKwinMuerto, Plazo, PlazoTerminar, DejaDeEsperar, EsperaAcabada, Ayudante, TypeOK, Cuentas, TipoSesion, TipoAyudante, PuertaVista, AyudaAvisada
  <1>12. CASE Decide
    BY <1>12 DEF Decide, Responde, Vuelve, Ayudante, TypeOK, Cuentas, TipoSesion, TipoAyudante, PuertaVista, AyudaAvisada
  <1>13. CASE Tty
    BY <1>13 DEF Tty, Responde, Vuelve, Ofrecidas, Ayudante, TypeOK, Cuentas, TipoSesion, TipoAyudante, PuertaVista, AyudaAvisada
  <1>14. CASE OtraAcaba
    BY <1>14 DEF OtraAcaba, Vuelve, Ayudante, TypeOK, Cuentas, TipoSesion, TipoAyudante, PuertaVista, AyudaAvisada
  <1>15. CASE AyudanteMuere
    BY <1>15 DEF AyudanteMuere, Vuelve, Ayudante, TypeOK, Cuentas, TipoSesion, TipoAyudante, PuertaVista, AyudaAvisada
  <1>16. CASE VentanaLista
    BY <1>16 DEF VentanaLista, Directorio, TypeOK, Cuentas, TipoSesion, TipoAyudante, PuertaVista, AyudaAvisada
  <1>17. CASE Pulsa
    BY <1>17 DEF Pulsa, Directorio, Ofrecidas, TypeOK, Cuentas, TipoSesion, TipoAyudante, PuertaVista, AyudaAvisada
  <1>18. CASE Escribe
    BY <1>18 DEF Escribe, Directorio, TypeOK, Cuentas, TipoSesion, TipoAyudante, PuertaVista, AyudaAvisada
  <1>19. CASE VentanaAcaba
    BY <1>19 DEF VentanaAcaba, TypeOK, Cuentas, TipoSesion, TipoAyudante, PuertaVista, AyudaAvisada
  <1>20. CASE KwinAcaba
    BY <1>20 DEF KwinAcaba, TypeOK, Cuentas, TipoSesion, TipoAyudante, PuertaVista, AyudaAvisada
  <1>21. CASE UNCHANGED vars
    BY <1>21 DEF vars, TypeOK, Cuentas, TipoSesion, TipoAyudante, PuertaVista, AyudaAvisada
  <1> QED
    BY <1>1, <1>2, <1>3, <1>4, <1>5, <1>6, <1>7, <1>8, <1>9, <1>10, <1>11, <1>12, <1>13, <1>14, <1>15, <1>16, <1>17, <1>18, <1>19, <1>20, <1>21
       DEF Next, Compositor, Supervisor, Recuperacion, Ventana

\* A step keeps SinPermiso: no permit is left behind a lock.
LEMMA PermisoPaso == TypeOK /\ PuertaVista /\ SinPermiso /\ [Next]_vars => SinPermiso'
  <1> SUFFICES ASSUME TypeOK, PuertaVista, SinPermiso, [Next]_vars PROVE SinPermiso'
    OBVIOUS
  <1> USE OtrasAssumption DEF cvars, rvars, svars
  <1>1. CASE Bloquea
    BY <1>1 DEF Bloquea, QuitaPermiso, Muere, TypeOK, Cuentas, TipoSesion, TipoAyudante, PuertaVista, SinPermiso
  <1>2. CASE EchaCandado
    BY <1>2 DEF EchaCandado, TypeOK, Cuentas, TipoSesion, TipoAyudante, PuertaVista, SinPermiso
  <1>3. CASE Autentica
    BY <1>3 DEF Autentica, TypeOK, Cuentas, TipoSesion, TipoAyudante, PuertaVista, SinPermiso
  <1>4. CASE SueltaCandado
    BY <1>4 DEF SueltaCandado, TypeOK, Cuentas, TipoSesion, TipoAyudante, PuertaVista, SinPermiso
  <1>5. CASE Sale
    BY <1>5 DEF Sale, Muere, TypeOK, Cuentas, TipoSesion, TipoAyudante, PuertaVista, SinPermiso
  <1>6. CASE Cae
    BY <1>6 DEF Cae, Muere, TypeOK, Cuentas, TipoSesion, TipoAyudante, PuertaVista, SinPermiso
  <1>7. CASE Arranca
    BY <1>7 DEF Arranca, TypeOK, Cuentas, TipoSesion, TipoAyudante, PuertaVista, SinPermiso
  <1>8. CASE Evalua
    BY <1>8 DEF Evalua, Protegida, TypeOK, Cuentas, TipoSesion, TipoAyudante, PuertaVista, SinPermiso
  <1>9. CASE Senal
    BY <1>9 DEF Senal, TypeOK, Cuentas, TipoSesion, TipoAyudante, PuertaVista, SinPermiso
  <1>10. CASE AbreKwin
    BY <1>10 DEF AbreKwin, DirectorioNuevo, Ayudante, TypeOK, Cuentas, TipoSesion, TipoAyudante, PuertaVista, SinPermiso
  <1>11. CASE PromptAvanza
    BY <1>11 DEF PromptAvanza, VeVentana, VeKwinMuerto, Plazo, PlazoTerminar, DejaDeEsperar, EsperaAcabada, Ayudante, TypeOK, Cuentas, TipoSesion, TipoAyudante, PuertaVista, SinPermiso
  <1>12. CASE Decide
    BY <1>12 DEF Decide, Responde, Vuelve, Ayudante, TypeOK, Cuentas, TipoSesion, TipoAyudante, PuertaVista, SinPermiso
  <1>13. CASE Tty
    BY <1>13 DEF Tty, Responde, Vuelve, Ofrecidas, Ayudante, TypeOK, Cuentas, TipoSesion, TipoAyudante, PuertaVista, SinPermiso
  <1>14. CASE OtraAcaba
    BY <1>14 DEF OtraAcaba, Vuelve, Ayudante, TypeOK, Cuentas, TipoSesion, TipoAyudante, PuertaVista, SinPermiso
  <1>15. CASE AyudanteMuere
    BY <1>15 DEF AyudanteMuere, Vuelve, Ayudante, TypeOK, Cuentas, TipoSesion, TipoAyudante, PuertaVista, SinPermiso
  <1>16. CASE VentanaLista
    BY <1>16 DEF VentanaLista, Directorio, TypeOK, Cuentas, TipoSesion, TipoAyudante, PuertaVista, SinPermiso
  <1>17. CASE Pulsa
    BY <1>17 DEF Pulsa, Directorio, Ofrecidas, TypeOK, Cuentas, TipoSesion, TipoAyudante, PuertaVista, SinPermiso
  <1>18. CASE Escribe
    BY <1>18 DEF Escribe, Directorio, TypeOK, Cuentas, TipoSesion, TipoAyudante, PuertaVista, SinPermiso
  <1>19. CASE VentanaAcaba
    BY <1>19 DEF VentanaAcaba, TypeOK, Cuentas, TipoSesion, TipoAyudante, PuertaVista, SinPermiso
  <1>20. CASE KwinAcaba
    BY <1>20 DEF KwinAcaba, TypeOK, Cuentas, TipoSesion, TipoAyudante, PuertaVista, SinPermiso
  <1>21. CASE UNCHANGED vars
    BY <1>21 DEF vars, TypeOK, Cuentas, TipoSesion, TipoAyudante, PuertaVista, SinPermiso
  <1> QED
    BY <1>1, <1>2, <1>3, <1>4, <1>5, <1>6, <1>7, <1>8, <1>9, <1>10, <1>11, <1>12, <1>13, <1>14, <1>15, <1>16, <1>17, <1>18, <1>19, <1>20, <1>21
       DEF Next, Compositor, Supervisor, Recuperacion, Ventana

\* A step keeps AyudaAvisada: the helper knows that the door was closed.
LEMMA AyudaPaso == TypeOK /\ PuertaVista /\ SinPermiso /\ AyudaAvisada /\ [Next]_vars => AyudaAvisada'
  <1> SUFFICES ASSUME TypeOK, PuertaVista, SinPermiso, AyudaAvisada, [Next]_vars PROVE AyudaAvisada'
    OBVIOUS
  <1> USE OtrasAssumption DEF cvars, rvars, svars
  <1>1. CASE Bloquea
    BY <1>1 DEF Bloquea, QuitaPermiso, Muere, TypeOK, Cuentas, TipoSesion, TipoAyudante, PuertaVista, SinPermiso, AyudaAvisada
  <1>2. CASE EchaCandado
    BY <1>2 DEF EchaCandado, TypeOK, Cuentas, TipoSesion, TipoAyudante, PuertaVista, SinPermiso, AyudaAvisada
  <1>3. CASE Autentica
    BY <1>3 DEF Autentica, TypeOK, Cuentas, TipoSesion, TipoAyudante, PuertaVista, SinPermiso, AyudaAvisada
  <1>4. CASE SueltaCandado
    BY <1>4 DEF SueltaCandado, TypeOK, Cuentas, TipoSesion, TipoAyudante, PuertaVista, SinPermiso, AyudaAvisada
  <1>5. CASE Sale
    BY <1>5 DEF Sale, Muere, TypeOK, Cuentas, TipoSesion, TipoAyudante, PuertaVista, SinPermiso, AyudaAvisada
  <1>6. CASE Cae
    BY <1>6 DEF Cae, Muere, TypeOK, Cuentas, TipoSesion, TipoAyudante, PuertaVista, SinPermiso, AyudaAvisada
  <1>7. CASE Arranca
    BY <1>7 DEF Arranca, TypeOK, Cuentas, TipoSesion, TipoAyudante, PuertaVista, SinPermiso, AyudaAvisada
  <1>8. CASE Evalua
    BY <1>8 DEF Evalua, Protegida, TypeOK, Cuentas, TipoSesion, TipoAyudante, PuertaVista, SinPermiso, AyudaAvisada
  <1>9. CASE Senal
    BY <1>9 DEF Senal, TypeOK, Cuentas, TipoSesion, TipoAyudante, PuertaVista, SinPermiso, AyudaAvisada
  <1>10. CASE AbreKwin
    BY <1>10 DEF AbreKwin, DirectorioNuevo, Ayudante, TypeOK, Cuentas, TipoSesion, TipoAyudante, PuertaVista, SinPermiso, AyudaAvisada
  <1>11. CASE PromptAvanza
    BY <1>11 DEF PromptAvanza, VeVentana, VeKwinMuerto, Plazo, PlazoTerminar, DejaDeEsperar, EsperaAcabada, Ayudante, TypeOK, Cuentas, TipoSesion, TipoAyudante, PuertaVista, SinPermiso, AyudaAvisada
  <1>12. CASE Decide
    BY <1>12 DEF Decide, Responde, Vuelve, Ayudante, TypeOK, Cuentas, TipoSesion, TipoAyudante, PuertaVista, SinPermiso, AyudaAvisada
  <1>13. CASE Tty
    BY <1>13 DEF Tty, Responde, Vuelve, Ofrecidas, Ayudante, TypeOK, Cuentas, TipoSesion, TipoAyudante, PuertaVista, SinPermiso, AyudaAvisada
  <1>14. CASE OtraAcaba
    BY <1>14 DEF OtraAcaba, Vuelve, Ayudante, TypeOK, Cuentas, TipoSesion, TipoAyudante, PuertaVista, SinPermiso, AyudaAvisada
  <1>15. CASE AyudanteMuere
    BY <1>15 DEF AyudanteMuere, Vuelve, Ayudante, TypeOK, Cuentas, TipoSesion, TipoAyudante, PuertaVista, SinPermiso, AyudaAvisada
  <1>16. CASE VentanaLista
    BY <1>16 DEF VentanaLista, Directorio, TypeOK, Cuentas, TipoSesion, TipoAyudante, PuertaVista, SinPermiso, AyudaAvisada
  <1>17. CASE Pulsa
    BY <1>17 DEF Pulsa, Directorio, Ofrecidas, TypeOK, Cuentas, TipoSesion, TipoAyudante, PuertaVista, SinPermiso, AyudaAvisada
  <1>18. CASE Escribe
    BY <1>18 DEF Escribe, Directorio, TypeOK, Cuentas, TipoSesion, TipoAyudante, PuertaVista, SinPermiso, AyudaAvisada
  <1>19. CASE VentanaAcaba
    BY <1>19 DEF VentanaAcaba, TypeOK, Cuentas, TipoSesion, TipoAyudante, PuertaVista, SinPermiso, AyudaAvisada
  <1>20. CASE KwinAcaba
    BY <1>20 DEF KwinAcaba, TypeOK, Cuentas, TipoSesion, TipoAyudante, PuertaVista, SinPermiso, AyudaAvisada
  <1>21. CASE UNCHANGED vars
    BY <1>21 DEF vars, TypeOK, Cuentas, TipoSesion, TipoAyudante, PuertaVista, SinPermiso, AyudaAvisada
  <1> QED
    BY <1>1, <1>2, <1>3, <1>4, <1>5, <1>6, <1>7, <1>8, <1>9, <1>10, <1>11, <1>12, <1>13, <1>14, <1>15, <1>16, <1>17, <1>18, <1>19, <1>20, <1>21
       DEF Next, Compositor, Supervisor, Recuperacion, Ventana

\* A step keeps KwinDentro: the private KWin lives inside prompt only.
LEMMA KwinPaso == TypeOK /\ AyudaAvisada /\ KwinDentro /\ [Next]_vars => KwinDentro'
  <1> SUFFICES ASSUME TypeOK, AyudaAvisada, KwinDentro, [Next]_vars PROVE KwinDentro'
    OBVIOUS
  <1> USE OtrasAssumption DEF cvars, rvars, svars
  <1>1. CASE Bloquea
    BY <1>1 DEF Bloquea, QuitaPermiso, Muere, TypeOK, Cuentas, TipoSesion, TipoAyudante, AyudaAvisada, KwinDentro
  <1>2. CASE EchaCandado
    BY <1>2 DEF EchaCandado, TypeOK, Cuentas, TipoSesion, TipoAyudante, AyudaAvisada, KwinDentro
  <1>3. CASE Autentica
    BY <1>3 DEF Autentica, TypeOK, Cuentas, TipoSesion, TipoAyudante, AyudaAvisada, KwinDentro
  <1>4. CASE SueltaCandado
    BY <1>4 DEF SueltaCandado, TypeOK, Cuentas, TipoSesion, TipoAyudante, AyudaAvisada, KwinDentro
  <1>5. CASE Sale
    BY <1>5 DEF Sale, Muere, TypeOK, Cuentas, TipoSesion, TipoAyudante, AyudaAvisada, KwinDentro
  <1>6. CASE Cae
    BY <1>6 DEF Cae, Muere, TypeOK, Cuentas, TipoSesion, TipoAyudante, AyudaAvisada, KwinDentro
  <1>7. CASE Arranca
    BY <1>7 DEF Arranca, TypeOK, Cuentas, TipoSesion, TipoAyudante, AyudaAvisada, KwinDentro
  <1>8. CASE Evalua
    BY <1>8 DEF Evalua, Protegida, TypeOK, Cuentas, TipoSesion, TipoAyudante, AyudaAvisada, KwinDentro
  <1>9. CASE Senal
    BY <1>9 DEF Senal, TypeOK, Cuentas, TipoSesion, TipoAyudante, AyudaAvisada, KwinDentro
  <1>10. CASE AbreKwin
    BY <1>10 DEF AbreKwin, DirectorioNuevo, Ayudante, TypeOK, Cuentas, TipoSesion, TipoAyudante, AyudaAvisada, KwinDentro
  <1>11. CASE PromptAvanza
    BY <1>11 DEF PromptAvanza, VeVentana, VeKwinMuerto, Plazo, PlazoTerminar, DejaDeEsperar, EsperaAcabada, Ayudante, TypeOK, Cuentas, TipoSesion, TipoAyudante, AyudaAvisada, KwinDentro
  <1>12. CASE Decide
    BY <1>12 DEF Decide, Responde, Vuelve, Ayudante, TypeOK, Cuentas, TipoSesion, TipoAyudante, AyudaAvisada, KwinDentro
  <1>13. CASE Tty
    BY <1>13 DEF Tty, Responde, Vuelve, Ofrecidas, Ayudante, TypeOK, Cuentas, TipoSesion, TipoAyudante, AyudaAvisada, KwinDentro
  <1>14. CASE OtraAcaba
    BY <1>14 DEF OtraAcaba, Vuelve, Ayudante, TypeOK, Cuentas, TipoSesion, TipoAyudante, AyudaAvisada, KwinDentro
  <1>15. CASE AyudanteMuere
    BY <1>15 DEF AyudanteMuere, Vuelve, Ayudante, TypeOK, Cuentas, TipoSesion, TipoAyudante, AyudaAvisada, KwinDentro
  <1>16. CASE VentanaLista
    BY <1>16 DEF VentanaLista, Directorio, TypeOK, Cuentas, TipoSesion, TipoAyudante, AyudaAvisada, KwinDentro
  <1>17. CASE Pulsa
    BY <1>17 DEF Pulsa, Directorio, Ofrecidas, TypeOK, Cuentas, TipoSesion, TipoAyudante, AyudaAvisada, KwinDentro
  <1>18. CASE Escribe
    BY <1>18 DEF Escribe, Directorio, TypeOK, Cuentas, TipoSesion, TipoAyudante, AyudaAvisada, KwinDentro
  <1>19. CASE VentanaAcaba
    BY <1>19 DEF VentanaAcaba, TypeOK, Cuentas, TipoSesion, TipoAyudante, AyudaAvisada, KwinDentro
  <1>20. CASE KwinAcaba
    BY <1>20 DEF KwinAcaba, TypeOK, Cuentas, TipoSesion, TipoAyudante, AyudaAvisada, KwinDentro
  <1>21. CASE UNCHANGED vars
    BY <1>21 DEF vars, TypeOK, Cuentas, TipoSesion, TipoAyudante, AyudaAvisada, KwinDentro
  <1> QED
    BY <1>1, <1>2, <1>3, <1>4, <1>5, <1>6, <1>7, <1>8, <1>9, <1>10, <1>11, <1>12, <1>13, <1>14, <1>15, <1>16, <1>17, <1>18, <1>19, <1>20, <1>21
       DEF Next, Compositor, Supervisor, Recuperacion, Ventana

\* The inductive invariant holds in every reachable state.
THEOREM InductivoCorrect == Spec => []Inductivo
  <1>0. Init => Cuentas
    BY BoundsAssumption DEF Init, Cuentas
  <1>1. Init => Inductivo
    BY <1>0 DEF Init, Inductivo, TypeOK, TipoSesion, TipoAyudante, Opcion, SinPermiso, Fronterizo,
       PuertaVista, AyudaAvisada, KwinDentro
  <1>2. Inductivo /\ [Next]_vars => Inductivo'
    BY CuentasPaso, SesionPaso, AyudantePaso, PuertaPaso, PermisoPaso, AyudaPaso, KwinPaso
       DEF TypeOK, Inductivo, Fronterizo
  <1> QED
    BY <1>1, <1>2, PTL DEF Spec

\* Once a lock was asked for no crash leaves a permit behind.
THEOREM SinPermisoCorrect == Spec => []SinPermiso
  <1>1. Inductivo => SinPermiso
    BY DEF Inductivo
  <1> QED
    BY <1>1, InductivoCorrect, PTL

\* One owner of the GPU at a time.
THEOREM UnSoloDuenoCorrect == Spec => []UnSoloDueno
  <1>1. Inductivo => UnSoloDueno
    BY DEF Inductivo, TypeOK, Fronterizo, PuertaVista, AyudaAvisada, KwinDentro,
           UnSoloDueno
  <1> QED
    BY <1>1, InductivoCorrect, PTL

\* Every step of every process is a step of the boundary or leaves it alone: a
\* lock closes the door, Desbloquear and a retry or another desktop after a granted
\* exit open it, and the rest of the endings lead to the login manager.
LEMMA FronteraPaso ==
    Inductivo /\ [Next]_vars => [Frontera!Next]_(Frontera!vars)
  <1> SUFFICES ASSUME Inductivo, [Next]_vars
               PROVE  [Frontera!Next]_(Frontera!vars)
    OBVIOUS
  <1> USE OtrasAssumption
      DEF Inductivo, TypeOK, TipoSesion, TipoAyudante, SinPermiso, Fronterizo,
          PuertaVista, AyudaAvisada, Acceso, Autenticado, Frontera!vars,
          cvars, rvars, svars
  <1>1. CASE Bloquea
    BY <1>1
       DEF Bloquea, QuitaPermiso, Muere, Frontera!Next, Frontera!Cerrar
  <1>2. CASE EchaCandado
    BY <1>2
       DEF EchaCandado
  <1>3. CASE Autentica
    BY <1>3
       DEF Autentica, Frontera!Next, Frontera!Autenticar
  <1>4. CASE SueltaCandado
    BY <1>4
       DEF SueltaCandado, Frontera!Next, Frontera!Abrir
  <1>5. CASE Sale
    BY <1>5
       DEF Sale, Muere
  <1>6. CASE Cae
    BY <1>6
       DEF Cae, Muere
  <1>7. CASE Arranca
    BY <1>7
       DEF Arranca, Frontera!Next, Frontera!Abrir
  <1>8. CASE Evalua
    BY <1>8
       DEF Evalua, Protegida, Frontera!Next, Frontera!Salir
  <1>9. CASE Senal
    BY <1>9
       DEF Senal, Frontera!Next, Frontera!Salir
  <1>10. CASE AbreKwin
    BY <1>10
       DEF AbreKwin, DirectorioNuevo, Ayudante
  <1>11. CASE PromptAvanza
    BY <1>11
       DEF PromptAvanza, VeVentana, VeKwinMuerto, Plazo, PlazoTerminar, DejaDeEsperar, EsperaAcabada, Ayudante
  <1>12. CASE Decide
    BY <1>12
       DEF Decide, Responde, Vuelve, Ayudante, Frontera!Next, Frontera!Abrir, Frontera!Salir
  <1>13. CASE Tty
    BY <1>13
       DEF Tty, Responde, Vuelve, Ofrecidas, Ayudante, Frontera!Next, Frontera!Abrir, Frontera!Salir
  <1>14. CASE OtraAcaba
    BY <1>14
       DEF OtraAcaba, Vuelve, Ayudante, Frontera!Next, Frontera!Salir
  <1>15. CASE AyudanteMuere
    BY <1>15
       DEF AyudanteMuere, Vuelve, Ayudante, Frontera!Next, Frontera!Salir
  <1>16. CASE VentanaLista
    BY <1>16
       DEF VentanaLista, Directorio
  <1>17. CASE Pulsa
    BY <1>17
       DEF Pulsa, Directorio, Ofrecidas
  <1>18. CASE Escribe
    BY <1>18
       DEF Escribe, Directorio
  <1>19. CASE VentanaAcaba
    BY <1>19
       DEF VentanaAcaba
  <1>20. CASE KwinAcaba
    BY <1>20
       DEF KwinAcaba
  <1>21. CASE UNCHANGED vars
    BY <1>21 DEF vars
  <1> QED
    BY <1>1, <1>2, <1>3, <1>4, <1>5, <1>6, <1>7, <1>8, <1>9, <1>10, <1>11, <1>12, <1>13, <1>14, <1>15, <1>16, <1>17, <1>18, <1>19, <1>20, <1>21
       DEF Next, Compositor, Supervisor, Recuperacion, Ventana

\* The session implements the authentication boundary.
THEOREM FronteraCorrect == Spec => FronteraRespetada
  <1>1. Init => Frontera!Init
    BY DEF Init, Frontera!Init, Acceso, Autenticado
  <1> QED
    BY <1>1, FronteraPaso, InductivoCorrect, PTL
       DEF Spec, FronteraRespetada, Frontera!Spec

\* A step keeps EleccionPulsada: a fresh directory forgets the last choice, the
\* window writes what was picked, and the loop restarts on a retry only.
LEMMA EleccionPaso ==
    TypeOK /\ AyudaAvisada /\ EleccionPulsada /\ [Next]_vars => EleccionPulsada'
  <1> SUFFICES ASSUME TypeOK, AyudaAvisada, EleccionPulsada, [Next]_vars
               PROVE  EleccionPulsada'
    OBVIOUS
  <1> USE OtrasAssumption DEF cvars, rvars, svars, EleccionPulsada, Directorio
  <1>1. ASSUME UNCHANGED rvars, UNCHANGED arranques, sup' \in {sup, "fin"}
        PROVE  EleccionPulsada'
    BY <1>1
  <1>2. CASE Compositor
    <2>1. UNCHANGED rvars /\ UNCHANGED svars
      BY <1>2 DEF Compositor, Bloquea, EchaCandado, Autentica, SueltaCandado, Sale, Cae
    <2> QED
      BY <1>1, <2>1
  <1>3. CASE Arranca
    BY <1>3 DEF Arranca
  <1>4. CASE Evalua
    BY <1>4 DEF Evalua, AyudaAvisada
  <1>5. CASE Senal
    BY <1>1, <1>5 DEF Senal
  <1>6. CASE AbreKwin
    BY <1>6 DEF AbreKwin, DirectorioNuevo, Ayudante, AyudaAvisada
  <1>7. CASE PromptAvanza
    BY <1>7 DEF PromptAvanza, VeVentana, VeKwinMuerto, Plazo, PlazoTerminar,
                DejaDeEsperar, EsperaAcabada, Ayudante
  <1>8. CASE Decide
    BY <1>8 DEF Decide, Responde, Vuelve, Ayudante, AyudaAvisada
  <1>9. CASE Tty
    BY <1>9 DEF Tty, Responde, Vuelve, Ayudante, AyudaAvisada
  <1>10. CASE OtraAcaba \/ AyudanteMuere
    BY <1>10 DEF OtraAcaba, AyudanteMuere, Vuelve, Ayudante, AyudaAvisada
  <1>11. CASE Pulsa
    BY <1>11 DEF Pulsa, AyudaAvisada
  <1>12. CASE Escribe
    BY <1>12 DEF Escribe
  <1>13. CASE VentanaLista \/ VentanaAcaba \/ KwinAcaba
    BY <1>13 DEF VentanaLista, VentanaAcaba, KwinAcaba
  <1>14. CASE UNCHANGED vars
    BY <1>1, <1>14 DEF vars
  <1> QED
    BY <1>2, <1>3, <1>4, <1>5, <1>6, <1>7, <1>8, <1>9, <1>10, <1>11, <1>12, <1>13, <1>14
       DEF Next, Supervisor, Recuperacion, Ventana

\* A second compositor starts only because the user asked for a retry after the
\* last crash: not from a loop, and not from a choice of an earlier prompt.
THEOREM ReintentoPedidoCorrect == Spec => ReintentoPedido
  <1>1. Init => EleccionPulsada
    BY DEF Init, EleccionPulsada, Directorio
  <1>2. Inductivo /\ EleccionPulsada /\ [Next]_vars => EleccionPulsada'
    BY EleccionPaso DEF Inductivo, Fronterizo
  <1>3. EleccionPulsada /\ [Next]_vars
          => [arranques > 0 /\ arranques' # arranques => pulsada = "retry"]_vars
    <2> SUFFICES ASSUME EleccionPulsada, [Next]_vars, arranques > 0,
                        arranques' # arranques
                 PROVE  pulsada = "retry"
      OBVIOUS
    <2>1. Arranca
      BY DEF Next, Compositor, Bloquea, EchaCandado, Autentica, SueltaCandado, Sale, Cae,
             Supervisor, Evalua, Senal, Recuperacion, AbreKwin, PromptAvanza, Decide, Tty,
             OtraAcaba, AyudanteMuere, Ayudante, Ventana, VentanaLista, Pulsa, Escribe,
             VentanaAcaba, KwinAcaba, cvars, svars, vars
    <2> QED
      BY <2>1 DEF Arranca, EleccionPulsada
  <1> QED
    BY <1>1, <1>2, <1>3, InductivoCorrect, PTL DEF Spec, ReintentoPedido
==============================================================================
